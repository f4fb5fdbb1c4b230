------------------------------- MODULE MCTypes --------------------------------
(***************************************************************************)
(* Command lines for Types.  Base is the smallest; each sample turns on    *)
(* what it is about, so that together they reach every rule with few       *)
(* aggregates and variables each.                                          *)
(***************************************************************************)
EXTENDS Types

Base == [cpp |-> FALSE, use_struct |-> FALSE, use_union |-> FALSE, bitfields |-> FALSE,
         ccomp |-> FALSE, packed_struct |-> FALSE, fixed_struct_fields |-> FALSE,
         max_struct_fields |-> 1, max_union_fields |-> 1, max_nested_struct_level |-> 2,
         return_structs |-> TRUE, arg_structs |-> TRUE, arg_unions |-> TRUE, longlong |-> FALSE,
         const_fields |-> FALSE, vol_fields |-> FALSE, consts |-> FALSE, volatiles |-> FALSE,
         const_pointers |-> TRUE, volatile_pointers |-> TRUE, allow_const_volatile |-> TRUE,
         global_variables |-> TRUE, strict_volatile_rule |-> FALSE, max_indirect_level |-> 1,
         exact |-> FALSE, aggs |-> 0, vars |-> 2]

\* Aggregates of C, with qualified members and with bit-fields.
Members == [Base EXCEPT !.use_struct = TRUE, !.use_union = TRUE, !.const_fields = TRUE,
                        !.vol_fields = TRUE, !.aggs = 2, !.vars = 1]
Bits == [Base EXCEPT !.use_struct = TRUE, !.use_union = TRUE, !.bitfields = TRUE,
                     !.max_struct_fields = 2, !.max_union_fields = 2, !.aggs = 2, !.vars = 0]
Nesting == [Base EXCEPT !.use_struct = TRUE, !.use_union = TRUE, !.bitfields = TRUE, !.aggs = 3, !.vars = 0]
CompCert == [Base EXCEPT !.use_struct = TRUE, !.use_union = TRUE, !.bitfields = TRUE, !.ccomp = TRUE,
                         !.packed_struct = TRUE, !.longlong = TRUE, !.fixed_struct_fields = TRUE,
                         !.max_struct_fields = 2, !.aggs = 2, !.vars = 0]
\* C++: operators, volatile objects, exact qualifiers.
Cpp == [Base EXCEPT !.cpp = TRUE, !.exact = TRUE, !.use_struct = TRUE, !.use_union = TRUE,
                    !.volatiles = TRUE, !.aggs = 2, !.vars = 1]
Operators == [Cpp EXCEPT !.aggs = 3, !.vars = 0]
\* Qualifiers of pointers to pointers.
Consts == [Base EXCEPT !.consts = TRUE, !.max_indirect_level = 2]
Volatiles == [Base EXCEPT !.volatiles = TRUE, !.max_indirect_level = 2, !.vars = 3]
Both == [Base EXCEPT !.consts = TRUE, !.volatiles = TRUE, !.allow_const_volatile = FALSE]
\* Command lines under which conversions may lose qualifiers.
Strict == [Base EXCEPT !.volatiles = TRUE, !.strict_volatile_rule = TRUE]
NoGlobals == [Base EXCEPT !.consts = TRUE, !.volatiles = TRUE, !.global_variables = FALSE]

MCOptions == {Members, Bits, Nesting, CompCert, Cpp, Operators, Consts, Volatiles, Both,
              Strict, NoGlobals}
MCBitLengths == {0, 7}
===============================================================================
