--------------------------- MODULE Probabilities ----------------------------
(***************************************************************************)
(* The probabilities of a generator run: set up from the options           *)
(* (Probabilities.cpp), drawn at random with --random-random, dumped to a  *)
(* file, read back from one, and used in the choices of statements,        *)
(* expressions, operators and types (Statement.cpp, Expression.cpp).       *)
(* A dump ends the program; the run that follows reads the file.  In the   *)
(* file a line is a record; text and white space are left out.             *)
(***************************************************************************)
EXTENDS Integers, SequencesExt

CONSTANTS Options, \* [on, inline, builtin, oob]: options and numbers set
          Modes,   \* [kind, rr, focus]: what a first run is asked to do
          Configs, \* files written by hand
          Few      \* bound on the draws that differ from the others in a group

Lines ==
    [kind : {"comment"}] \cup [kind : {"single"}, name : STRING, val : Int]
    \cup [kind : {"group"}, equal : BOOLEAN, name : STRING, elems : Seq(STRING \X Int)]

\* The bounds that has_conflict keeps the three numbers in.
OptionsFit == \A o \in Options : o.inline \in 0..100 /\ o.builtin \in 0..100 /\ o.oob \in 0..100

ModesFit ==
    \A m \in Modes : m \in [kind : {"run", "dump_default", "dump_random"}, rr : BOOLEAN, focus : {m.focus}]

ASSUME ProbabilitiesAssumption == OptionsFit /\ ModesFit /\ Configs \subseteq Seq(Lines)

VARIABLES opt, mode, phase,
          prob,  \* probabilities_: per group its elements, in the order of the map
          cur,   \* the group and element being initialized, invalid_vals
          conf,  \* the lines still to parse
          byHand, \* the file was not written by a dump
          saved, \* the values a dump wrote
          table, \* Statement::stmtTable_
          last   \* the choice being made, and its result

vars == <<opt, mode, phase, prob, cur, conf, byHand, saved, table, last>>

None == << >>

If(c, n) == IF c THEN n ELSE 0

On(name) == name \in opt.on

-----------------------------------------------------------------------------
(* The defaults. *)

initialize_single_probs ==
    << <<"more_struct_union_type_prob", 50>>, <<"bitfields_creation_prob", 50>>,
       <<"bitfields_signed_prob", 50>>, <<"bitfield_in_normal_struct_prob", 10>>,
       <<"scalar_field_in_full_bitfields_struct_prob", 10>>, <<"exhaustive_bitfield_prob", 10>>,
       <<"safe_ops_signed_prob", 50>>, <<"select_deref_pointer_prob", If(On("pointers"), 80)>>,
       <<"regular_volatile_prob", If(On("volatiles"), 50)>>,
       <<"regular_const_prob", If(On("consts"), 10)>>,
       <<"stricter_const_prob", If(On("consts"), 50)>>,
       <<"looser_const_prob", If(On("consts"), 50)>>,
       <<"field_volatile_prob",
         If({"volatiles", "vol_struct_union_fields", "global_variables"} \subseteq opt.on, 30)>>,
       <<"field_const_prob", If({"consts", "const_struct_union_fields"} \subseteq opt.on, 20)>>,
       <<"std_unary_func_prob", 5>>, <<"shift_by_non_constant_prob", 50>>,
       <<"pointer_as_ltype_prob", If(On("pointers"), 50)>>, <<"struct_as_ltype_prob", 30>>,
       <<"union_as_ltype_prob", 25>>, <<"float_as_ltype_prob", If(On("float"), 40)>>,
       <<"new_array_var_prob", If(On("arrays"), 20)>>, <<"access_once_var_prob", 20>>,
       <<"inline_function_prob", opt.inline>>, <<"builtin_function_prob", opt.builtin>>,
       <<"array_oob_prob", opt.oob>>, <<"func_attr_flag", 30>>, <<"type_attr_flag", 50>>,
       <<"label_attr_flag", 30>>, <<"var_attr_flag", 30>>, <<"binary_constant", 3>> >>

set_default_statement_prob ==
    << <<"Assign", 100>>, <<"Block", 0>>, <<"For", 30>>, <<"IfElse", 15>>, <<"Return", 35>>,
       <<"Continue", 40>>, <<"Break", 45>>, <<"Goto", If(On("jumps"), 50)>>,
       <<"ArrayOp", If(On("arrays"), IF On("jumps") THEN 60 ELSE 55)>>, <<"HIPStatement", 5>> >>

set_default_unary_ops_prob ==
    << <<"Plus", If(On("unary_plus_operator"), 1)>>, <<"Minus", 1>>, <<"Not", 1>>, <<"BitNot", 1>> >>

set_default_binary_ops_prob ==
    << <<"Add", 1>>, <<"Sub", 1>>, <<"Mul", If(On("muls"), 1)>>, <<"Div", If(On("divs"), 1)>>,
       <<"Mod", 1>>, <<"CmpGt", 1>>, <<"CmpLt", 1>>, <<"CmpGe", 1>>, <<"CmpLe", 1>>, <<"CmpEq", 1>>,
       <<"CmpNe", 1>>, <<"And", 1>>, <<"Or", 1>>, <<"BitXor", 1>>, <<"BitAnd", 1>>, <<"BitOr", 1>>,
       <<"RShift", 1>>, <<"LShift", 1>> >>

set_default_simple_types_prob ==
    << <<"void_prob", 0>>, <<"Char", If(On("int8"), 1)>>, <<"Int", 1>>, <<"Short", 1>>,
       <<"Long", If(~On("ccomp"), 1)>>, <<"LongLong", If(On("allow_int64"), 1)>>,
       <<"UChar", If(On("uint8"), 1)>>, <<"UInt", 1>>, <<"UShort", 1>>,
       <<"ULong", If(~On("ccomp"), 1)>>, <<"ULongLong", If(On("allow_int64"), 1)>>,
       <<"Float", If(On("float"), 1)>>, <<"Int128", If(On("Int128"), 1)>>,
       <<"UInt128", If(On("UInt128"), 1)>> >>

set_default_safe_ops_size_prob ==
    << <<"Int8", If({"int8", "uint8"} \subseteq opt.on, 1)>>, <<"Int16", 1>>, <<"Int32", 1>>,
       <<"Int64", If(On("allow_int64"), 1)>> >>

Groups == <<"single", "statement", "unary", "binary", "types", "size">>

is_equal(g) == g \notin {"single", "statement"}

Defaults(g) ==
    CASE g = "single" -> initialize_single_probs
      [] g = "statement" -> set_default_statement_prob
      [] g = "unary" -> set_default_unary_ops_prob
      [] g = "binary" -> set_default_binary_ops_prob
      [] g = "types" -> set_default_simple_types_prob
      [] g = "size" -> set_default_safe_ops_size_prob

ValueOf(g, name) == LET i == CHOOSE i \in DOMAIN prob[g] : prob[g][i].name = name IN prob[g][i].val

NamesOf(g) == {prob[g][i].name : i \in DOMAIN prob[g]}

Vals == [g \in DOMAIN prob |-> [i \in DOMAIN prob[g] |-> prob[g][i].val]]

-----------------------------------------------------------------------------
(* Probabilities::initialize, element by element. *)

\* A dump of the defaults switches --random-random off, the other dump on.
random_random == mode.kind = "dump_random" \/ (mode.kind = "run" /\ mode.rr)

\* Mutant: a probability that was switched off is drawn like the others.
get_random_single_prob_Any(g, orig, invalid) ==
    IF is_equal(g) THEN {0, 1} ELSE IF g = "single" THEN 0..100 ELSE 0..100 \ invalid

\* What is disallowed stays so; otherwise a coin, or a new number in a group.
get_random_single_prob(g, orig, invalid) ==
    IF orig = 0 THEN {0}
    ELSE IF is_equal(g) THEN {0, 1}
    ELSE IF g = "single" THEN 0..100
    ELSE 0..100 \ invalid

\* Draws are sampled at both ends of their range, in the focused group only.
Sample(g, S) == IF mode.focus = g THEN {Min(S), Max(S)} ELSE {Max(S)}

Start(k) == [g |-> k, i |-> 1, invalid |-> {0, 100}, low |-> 0, high |-> 0]

InitElem ==
    /\ phase = "init"
    /\ LET g == Groups[cur.g] IN
       /\ cur.i <= Len(Defaults(g))
       /\ LET d == Defaults(g)[cur.i][2]
              S == IF random_random THEN get_random_single_prob(g, d, cur.invalid) ELSE {d}
          IN  \E v \in Sample(g, S) :
                  LET two == Cardinality(S) > 1
                      low == cur.low + If(two /\ v = Min(S), 1)
                      high == cur.high + If(two /\ v = Max(S), 1)
                  IN  /\ low <= Few \/ high <= Few
                      /\ prob' = [prob EXCEPT ![g] =
                              Append(@, [name |-> Defaults(g)[cur.i][1], def |-> d, val |-> v])]
                      /\ cur' = [cur EXCEPT !.i = @ + 1, !.invalid = @ \cup {v},
                                            !.low = low, !.high = high]
    /\ UNCHANGED <<opt, mode, phase, conf, byHand, saved, table, last>>

\* An equal group must not be all zero; in the other one some value is 100.
Finished(list, equal) ==
    LET valid == {i \in DOMAIN list : list[i].val # 0}
    IN  IF ~equal THEN {[list EXCEPT ![k].val = 100] : k \in valid}
        ELSE IF valid # {} THEN {list}
        ELSE {[i \in DOMAIN list |-> [list[i] EXCEPT !.val = list[i].def]]}

EndGroup ==
    /\ phase = "init" /\ cur.i > Len(Defaults(Groups[cur.g]))
    /\ LET g == Groups[cur.g] IN
       \E list \in IF random_random /\ g # "single" THEN Finished(prob[g], is_equal(g)) ELSE {prob[g]} :
           prob' = [prob EXCEPT ![g] = SubSeq(list, 1, Len(list))]
    /\ IF cur.g < Len(Groups) THEN cur' = Start(cur.g + 1) /\ phase' = phase
       ELSE cur' = cur /\ phase' = IF mode.kind = "run" THEN "parse" ELSE "dump"
    /\ UNCHANGED <<opt, mode, conf, byHand, saved, table, last>>

-----------------------------------------------------------------------------
(* The file. *)

SingleLine(name, val) == [kind |-> "single", name |-> name, val |-> val]

GroupLine(equal, name, elems) == [kind |-> "group", equal |-> equal, name |-> name, elems |-> elems]

dump_default(e) == e.def

dump_val_Default(e) == e.def \* mutant: the other member is printed

dump_val(e) == e.val

\* One line per single probability, one per group.
DumpLines(write(_)) ==
    [i \in DOMAIN prob["single"] |-> SingleLine(prob["single"][i].name, write(prob["single"][i]))]
    \o [k \in 1..(Len(Groups) - 1) |->
           LET g == Groups[k + 1]
           IN  GroupLine(is_equal(g), g,
                         [i \in DOMAIN prob[g] |-> <<prob[g][i].name, write(prob[g][i])>>])]

\* The program ends; the next one has the same options and reads the file.
Dump(lines) ==
    /\ conf' = lines
    /\ saved' = Vals
    /\ prob' = [g \in DOMAIN prob |-> << >>]
    /\ cur' = Start(1) /\ phase' = "init"
    /\ mode' = [mode EXCEPT !.kind = "run"]
    /\ UNCHANGED <<opt, byHand, table, last>>

dump_default_probabilities ==
    phase = "dump" /\ mode.kind = "dump_default" /\ Dump(DumpLines(dump_default))

dump_actual_probabilities ==
    phase = "dump" /\ mode.kind = "dump_random" /\ Dump(<<[kind |-> "comment"]>> \o DumpLines(dump_val))

\* An assertion fails, or main prints the message of parse_configuration.
Abort ==
    /\ phase' = "abort"
    /\ UNCHANGED <<opt, mode, prob, cur, conf, byHand, saved, table, last>>

Store(g, elems) ==
    prob' = [prob EXCEPT ![g] = [i \in DOMAIN @ |->
        LET given == {k \in DOMAIN elems : elems[k][1] = @[i].name}
        IN  IF given = {} THEN @[i] ELSE [@[i] EXCEPT !.val = elems[Max(given)][2]]]]

val_assert_None(v) == TRUE \* mutant

val_assert(v) == v \in -1..100

\* -1 keeps the value; a member of a group has no line of its own.
parse_single_probability(line) ==
    IF line.name \notin NamesOf("single") \/ ~val_assert(line.val) THEN Abort
    ELSE /\ Store("single", IF line.val = -1 THEN << >> ELSE << <<line.name, line.val>> >>)
         /\ conf' = Tail(conf)
         /\ UNCHANGED <<opt, mode, phase, cur, byHand, saved, table, last>>

parse_single_elem(equal, g, e) ==
    /\ e[1] \in NamesOf(g)
    /\ e[2] \in IF equal THEN {0, 1} ELSE 0..100
    /\ e[1] = "void_prob" => e[2] = 0

\* equal is what the bracket says, not what the group is.
setup_group_probabilities(equal, g, elems) ==
    LET given == {elems[k][2] : k \in DOMAIN elems}
    IN  /\ g \in DOMAIN prob \ {"single"}
        /\ \A k \in DOMAIN elems : parse_single_elem(equal, g, elems[k])
        /\ IF equal THEN 1 \in given
           ELSE /\ 100 \in given
                /\ \A j, k \in DOMAIN elems : elems[j][2] = elems[k][2] /\ elems[j][2] > 0 => j = k

parse_group_probabilities(line) ==
    IF line.elems = << >> \/ ~setup_group_probabilities(line.equal, line.name, line.elems) THEN Abort
    ELSE /\ Store(line.name, line.elems)
         /\ conf' = Tail(conf)
         /\ UNCHANGED <<opt, mode, phase, cur, byHand, saved, table, last>>

parse_line ==
    /\ phase = "parse" /\ conf # None
    /\ CASE Head(conf).kind = "comment" ->
                conf' = Tail(conf) /\ UNCHANGED <<opt, mode, phase, prob, cur, byHand, saved, table, last>>
         [] Head(conf).kind = "group" -> parse_group_probabilities(Head(conf))
         [] Head(conf).kind = "single" -> parse_single_probability(Head(conf))

EndParse ==
    /\ phase = "parse" /\ conf = None
    /\ phase' = "run"
    /\ UNCHANGED <<opt, mode, prob, cur, conf, byHand, saved, table, last>>

-----------------------------------------------------------------------------
(* The table of statements. *)

\* Mutant: entries are appended in the order of the map.
sorted_insert_Append(tab, e) == Append(tab, e)

\* In front of the first greater key.
sorted_insert(tab, e) ==
    LET after == {i \in DOMAIN tab : tab[i][1] > e[1]}
    IN  IF after = {} THEN Append(tab, e) ELSE InsertAt(tab, Min(after), e)

\* What is 0 is not in the table.
set_prob_table(list) ==
    LET tab[n \in 0..Len(list)] ==
            IF n = 0 THEN << >>
            ELSE IF list[n].val > 0 THEN sorted_insert(tab[n - 1], <<list[n].val, list[n].name>>)
            ELSE tab[n - 1]
    IN  tab[Len(list)]

\* Statement::InitProbabilityTable, once.
InitProbabilityTable ==
    /\ phase = "run" /\ table = None
    /\ table' = set_prob_table(prob["statement"])
    /\ UNCHANGED <<opt, mode, phase, prob, cur, conf, byHand, saved, last>>

\* The assertions of get_value.
InTable(k) == k < table[Len(table)][1]

get_value(k) == table[Min({i \in DOMAIN table : table[i][1] > k})][2]

-----------------------------------------------------------------------------
(* Distribution tables: sequences of keys with their weights. *)

get_max(tab) ==
    LET sum[n \in 0..Len(tab)] == IF n = 0 THEN 0 ELSE sum[n - 1] + tab[n][2]
    IN  sum[Len(tab)]

rnd_num_to_key(tab, rnd) ==
    tab[Min({i \in DOMAIN tab : rnd < get_max(SubSeq(tab, 1, i))})][1]

Weighted_Always(name, key, w) == << <<key, w>> >> \* mutant: the option is not asked

Weighted(name, key, w) == IF On(name) THEN << <<key, w>> >> ELSE << >>

InitExprProbabilityTable ==
    << <<"Function", 70>>, <<"Variable", 20>>, <<"Constant", 10>> >>
    \o Weighted("embedded_assigns", "Assignment", 10) \o << <<"HIPExpression", 15>> >>
    \o Weighted("comma_exprs", "CommaExpr", 10)

\* Mutant: the weight 0 is on the line above the one it is meant for.
InitParamProbabilityTable_Shifted ==
    << <<"Function", 40>>, <<"Variable", 0>>, <<"Constant", 40>> >>
    \o Weighted("embedded_assigns", "Assignment", 10) \o Weighted("comma_exprs", "CommaExpr", 10)

InitParamProbabilityTable ==
    << <<"Function", 40>>, <<"Variable", 40>>, <<"Constant", 0>> >>
    \o Weighted("embedded_assigns", "Assignment", 10) \o Weighted("comma_exprs", "CommaExpr", 10)

assignOpsTable ==
    << <<"SimpleAssign", 70>>, <<"BitAndAssign", 10>>, <<"BitXorAssign", 10>>, <<"BitOrAssign", 10>> >>
    \o Weighted("pre_incr", "PreIncr", 5) \o Weighted("pre_decr", "PreDecr", 5)
    \o Weighted("post_incr", "PostIncr", 5) \o Weighted("post_decr", "PostDecr", 5)

hip_stmt_table_Light == << <<"Sync", 5>> >> \* mutant: the roll is out of 10

hip_stmt_table == << <<"Sync", 10>> >>

hip_expr_table == << <<"Vector", 90>>, <<"BuiltIn", 10>> >>

vector_expr_table == << <<"Literal", 10>>, <<"Variable", 10>>, <<"SIMD", 10>>, <<"BuiltIn", 10>> >>

\* The keys that rolls below n give, which change at the partial sums only;
\* "assert" when a roll is out of the table.
Rolled(tab, n) ==
    LET sums == {get_max(SubSeq(tab, 1, i)) : i \in 0..Len(tab)}
    IN  IF n > get_max(tab) THEN {"assert"} ELSE {rnd_num_to_key(tab, r) : r \in sums \cap 0..(n - 1)}

-----------------------------------------------------------------------------
(* Choices: what a filtered roll may return. *)

is_compound(t) == t \in {"Block", "For", "IfElse"}

\* StatementFilter::filter; deep is blk_depth at its limit.
StatementFilter(q, t) ==
    \/ t = "Block"
    \/ t = "Return" /\ q.void
    \/ t \in {"Break", "Continue"} /\ ~q.loop
    \/ q.deep /\ is_compound(t)

StatementProbability(q) ==
    IF \E v \in 0..99 : ~InTable(v) THEN {"assert"}
    ELSE {t \in {get_value(v) : v \in 0..99} : ~StatementFilter(q, t)}

\* HIPSmith::make_random: the hook may find no expression of the type.
HIPMake(q) ==
    IF q.type = "vector" THEN {TRUE}
    ELSE UNION {CASE e = "Vector" -> {On("vectors") /\ q.type = "simple" /\ q.room >= 2}
                  [] e = "BuiltIn" -> IF q.room < 1 THEN {FALSE} ELSE BOOLEAN :
                e \in Rolled(hip_expr_table, 100)}

\* Term types ruled out by the type and by the depth, room being what is left.
NoReturn(q) == (~On("return_structs") /\ q.type = "struct") \/ (~On("return_unions") /\ q.type = "union")

TooDeep(q) == IF q.room < 2 THEN {"Function", "Assignment", "CommaExpr"} ELSE {}

ExprFilter(q) ==
    (IF q.noFunc \/ NoReturn(q) \/ q.type = "vector" THEN {"Function"} ELSE {})
    \cup (IF q.noConst \/ q.type \in {"struct", "union"} THEN {"Constant"} ELSE {})
    \cup (IF q.type \in {"struct", "union"} /\ q.const THEN {"Assignment"} ELSE {})
    \cup TooDeep(q)

make_random(q) ==
    LET rolled == Rolled(InitExprProbabilityTable, get_max(InitExprProbabilityTable)) \ ExprFilter(q)
    IN  (IF TRUE \in HIPMake(q) THEN {"HIPExpression"} ELSE {})
        \cup (IF q.type = "vector" THEN {} ELSE rolled \ {"HIPExpression"})

make_random_param(q) ==
    Rolled(InitParamProbabilityTable, get_max(InitParamProbabilityTable))
    \ ({"Constant"} \cup (IF NoReturn(q) THEN {"Function"} ELSE {})
       \cup (IF q.type \in {"struct", "union"} /\ q.const THEN {"Assignment"} ELSE {}) \cup TooDeep(q))

AssignOpsProbability(q) ==
    IF ~On("compound_assignment") \/ q.type # "simple" THEN {"SimpleAssign"}
    ELSE Rolled(assignOpsTable, get_max(assignOpsTable))
         \ (IF q.signed THEN {"PreIncr", "PreDecr", "PostIncr", "PostDecr"} ELSE {})

\* ProbabilityFilter::filter for the groups of equal elements, then the loop
\* that redraws until the operator works for the type.
NotForFloat ==
    {"BitNot", "Mod", "And", "Or", "BitXor", "BitAnd", "BitOr", "RShift", "LShift"}

\* Mutant of EqualChoice: drawn with a plain filter, as in the redraw.
EqualChoice_Unfiltered(q) == NamesOf(q.group) \ (IF q.float THEN NotForFloat ELSE {})

EqualChoice(q) ==
    {x \in NamesOf(q.group) : ValueOf(q.group, x) # 0} \ (IF q.float THEN NotForFloat ELSE {})

\* "avoid divide by zero": Mod or Div was drawn and the divisor may be 0, so the
\* operator is drawn again, with a VectorFilter and not BINARY_OPS_PROB_FILTER:
\* operators whose value is 0 are among the outcomes.
Redraw == NamesOf("binary") \ {"Mod", "Div", "LShift", "RShift"}

Redrawable(op) == op \in {"Mod", "Div"} /\ op \in EqualChoice([group |-> "binary", float |-> FALSE])

Answers(q) ==
    CASE q.ask = "statement" -> StatementProbability(q)
      [] q.ask = "expr" -> make_random(q)
      [] q.ask = "param" -> make_random_param(q)
      [] q.ask = "assign" -> AssignOpsProbability(q)
      [] q.ask = "equal" -> EqualChoice(q)
      [] q.ask = "redraw" -> Redraw
      [] q.ask = "hip_statement" -> Rolled(hip_stmt_table, 10)
      [] q.ask = "vector" -> Rolled(vector_expr_table, 30)

\* The choices a generator meets; only those the focused group decides.
Questions ==
    [ask : {"statement"}, void : BOOLEAN, loop : BOOLEAN, deep : BOOLEAN]
    \cup [ask : {"expr", "param"}, type : {"simple", "struct", "union", "vector"}, noFunc : BOOLEAN,
          noConst : BOOLEAN, const : BOOLEAN, room : 0..2]
    \cup [ask : {"assign"}, type : {"simple", "struct"}, signed : BOOLEAN]
    \cup [ask : {"hip_statement", "vector"}]
    \cup [ask : {"equal"}, group : {g \in DOMAIN prob : is_equal(g)},
          float : IF On("float") THEN BOOLEAN ELSE {FALSE}]
    \cup [ask : {"redraw"}, op : {op \in {"Mod", "Div"} : Redrawable(op)}]

Decides(q) ==
    CASE mode.focus = "none" -> TRUE
      [] q.ask = "equal" -> mode.focus = q.group
      [] q.ask = "redraw" -> mode.focus = "binary"
      [] OTHER -> mode.focus = q.ask

Ask ==
    /\ phase = "run" /\ table # None /\ last = None
    /\ \E q \in Questions : Decides(q) /\ last' = <<q, "rolling">>
    /\ UNCHANGED <<opt, mode, phase, prob, cur, conf, byHand, saved, table>>

Rolling == last # None /\ last[2] = "rolling" /\ phase = "run"

\* Rejected rolls change nothing; this is the one that is accepted.
Answer ==
    /\ Rolling
    /\ \E x \in Answers(last[1]) :
           IF x = "assert" THEN Abort
           ELSE last' = <<last[1], x>> /\ UNCHANGED <<opt, mode, phase, prob, cur, conf, byHand, saved, table>>

-----------------------------------------------------------------------------
Init ==
    /\ opt \in Options
    /\ mode \in Modes
    /\ conf \in (IF mode.kind = "run" /\ mode.focus = "none" /\ ~mode.rr THEN Configs ELSE {}) \cup {None}
    /\ byHand = (conf # None)
    /\ phase = "init" /\ cur = Start(1) /\ saved = None /\ table = None /\ last = None
    /\ prob = [g \in {Groups[k] : k \in DOMAIN Groups} |-> << >>]

Next ==
    \/ InitElem \/ EndGroup
    \/ dump_default_probabilities \/ dump_actual_probabilities
    \/ parse_line \/ EndParse
    \/ InitProbabilityTable \/ Ask \/ Answer

\* A pseudo-random sequence does not avoid an acceptable number for ever.
Spec == Init /\ [][Next]_vars /\ WF_vars(Answer)

-----------------------------------------------------------------------------
(* Properties. *)

\* Probabilities stay percentages.
TypeOK ==
    /\ phase \in {"init", "dump", "parse", "run", "abort"}
    /\ \A g \in DOMAIN prob : \A i \in DOMAIN prob[g] :
           prob[g][i].val \in 0..(IF is_equal(g) /\ ~byHand THEN 1 ELSE 100)

\* Without a file written by hand no assertion fails: every dump is accepted,
\* the tables hold every number that is rolled for them.
NoAbort == phase = "abort" => byHand

\* A program that reads a dump has the probabilities of the one that wrote it,
\* whatever it drew itself before.
RoundTrip == saved # None /\ phase = "run" => Vals = saved

\* The terms and operators that tables of fixed weights hold, with their options.
Switched ==
    {<<"Assignment", "embedded_assigns">>, <<"CommaExpr", "comma_exprs">>,
     <<"PreIncr", "pre_incr">>, <<"PreDecr", "pre_decr">>,
     <<"PostIncr", "post_incr">>, <<"PostDecr", "post_decr">>}

\* x is on: as a member of a group, or by the option of its own.
OnInGroup(g, x) == \E i \in DOMAIN prob[g] : prob[g][i].name = x /\ prob[g][i].def # 0

SwitchedOn(x) == \A s \in Switched : x = s[1] => On(s[2])

\* Without a file written by hand, an element that the options give the default 0
\* keeps it through random draws, dumps and reading, and what is off is not returned
\* by its own choice: a statement, a member of a group of equal ones, a term of an
\* expression or parameter, an assignment operator (ProbabilityFilter::filter,
\* Statement::InitProbabilityTable, the tables of Expression and StatementAssign).
\* Nothing is claimed of the redraw of an operator, which returns Mul with --no-muls
\* (FunctionInvocation.cpp:308-314), and of the HIP tables, which no option changes.
OffStaysOff ==
    phase = "run" /\ ~byHand =>
        /\ \A g \in DOMAIN prob : \A i \in DOMAIN prob[g] : prob[g][i].def = 0 => prob[g][i].val = 0
        /\ last # None /\ last[2] # "rolling" =>
               LET q == last[1]
                   x == last[2]
               IN  /\ q.ask = "statement" => OnInGroup("statement", x)
                   /\ q.ask = "equal" => OnInGroup(q.group, x)
                   /\ q.ask \in {"expr", "param", "assign"} => SwitchedOn(x)
                   /\ q.ask = "assign" /\ ~On("compound_assignment") => x = "SimpleAssign"

\* Every roll finds a statement; without a file written by hand every
\* statement that is switched on has its share of them.
TableCovers ==
    phase = "run" /\ table # None /\ last = None =>
        /\ \A v \in 0..99 : InTable(v)
        /\ ~byHand => {get_value(v) : v \in 0..99} =
               {x \in NamesOf("statement") : ValueOf("statement", x) # 0}

\* The loops that reject rolls end: in every context something is acceptable.
\* Left out are files written by hand, and floats with random operators.
RejectionEnds ==
    (Rolling /\ ~byHand /\ ~(last[1].ask = "equal" /\ last[1].float /\ (mode.rr \/ saved # None))) ~> ~Rolling

\* No assertion about probabilities fails: values and dumps are accepted, and the
\* tables made from them hold every number that is rolled.
Accepted == TypeOK /\ NoAbort /\ TableCovers

=============================================================================
