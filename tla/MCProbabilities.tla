-------------------------- MODULE MCProbabilities ---------------------------
EXTENDS Probabilities

AllOn ==
    {"pointers", "volatiles", "vol_struct_union_fields", "global_variables", "consts",
     "const_struct_union_fields", "float", "arrays", "jumps", "unary_plus_operator", "muls", "divs",
     "int8", "uint8", "allow_int64", "Int128", "UInt128", "embedded_assigns", "comma_exprs",
     "pre_incr", "pre_decr", "post_incr", "post_decr", "compound_assignment", "vectors",
     "return_structs", "return_unions"}

Numbered(on) == [on |-> on, inline |-> 50, builtin |-> 50, oob |-> 0]

\* Everything, and next to nothing.
MCOptions == {Numbered(AllOn), Numbered({"ccomp", "arrays", "comma_exprs"})}

MCModes ==
    [kind : {"run"}, rr : {FALSE}, focus : {"none"}]
    \cup [kind : {"dump_default"}, rr : BOOLEAN, focus : {"none"}]
    \cup [kind : {"run"}, rr : {TRUE}, focus : {"single", "statement", "unary", "binary", "types", "size"}]
    \cup [kind : {"dump_random"}, rr : {FALSE}, focus : {"single", "statement", "unary", "binary", "types", "size"}]

\* Some of a group; a value out of range; two equal values; no 100; a member
\* of a group on a line of its own; void; an unknown name.
MCConfigs ==
    {<< [kind |-> "comment"], SingleLine("array_oob_prob", 100), SingleLine("inline_function_prob", -1),
        GroupLine(FALSE, "statement", << <<"For", 100>>, <<"Assign", 15>> >>),
        GroupLine(TRUE, "unary", << <<"Plus", 0>>, <<"BitNot", 1>> >>) >>,
     << SingleLine("array_oob_prob", 101) >>,
     << GroupLine(FALSE, "statement", << <<"For", 100>>, <<"IfElse", 7>>, <<"Goto", 7>> >>) >>,
     << GroupLine(FALSE, "statement", << <<"For", 50>>, <<"Return", 0>> >>) >>,
     << SingleLine("For", 10) >>,
     << GroupLine(TRUE, "types", << <<"void_prob", 1>> >>) >>,
     << GroupLine(TRUE, "size", << <<"Int32", 0>>, <<"Int16", 0>> >>) >>,
     << GroupLine(TRUE, "assign_ops_prob", << <<"SimpleAssign", 1>> >>) >>}
=============================================================================
