------------------------------ MODULE BuiltIns ------------------------------
(***************************************************************************)
(* The HIP built-in calls that expressions may contain, and the wrappers   *)
(* of runtime/HIPSmith.h they print as.  The first half is what            *)
(* FunctionInvocationBuiltIn.cpp chooses and prints, the second what a     *)
(* call returns in a warp whose active lanes hold the argument values lv,  *)
(* a sequence with one value per lane.                                     *)
(***************************************************************************)
EXTENDS SafeMath

SyncTable == {"syncthreads_count", "syncthreads_and", "syncthreads_or"}

WarpVoteTable ==
    {"all", "any", "ballot", "activemask", "all_sync", "any_sync", "ballot_sync"}

WarpMatchTable == {"match_any", "match_all", "match_any_sync", "match_all_sync"}

WarpShuffleTable ==
    {"shfl", "shfl_up", "shfl_down", "shfl_xor",
     "shfl_sync", "shfl_up_sync", "shfl_down_sync", "shfl_xor_sync"}

WarpReduceTable ==
    {"reduce_add", "reduce_min", "reduce_max", "reduce_and", "reduce_or", "reduce_xor"}

\* Each stands for the plain function and its _system twin.
AtomicTable ==
    {"Add", "Sub", "Min", "Max", "Exch", "CAS", "And", "Or", "Xor", "Inc", "Dec"}

\* The calls a request for the type T may become: name, parameter types, and
\* the parameter that is printed with a leading &.
Call(fn, params, addr) == [fn |-> fn, params |-> params, addr |-> addr]

SyncCalls(T) == {Call(fn, <<eInt>>, 0) : fn \in SyncTable}

WarpVoteCalls(T) ==
    {Call(fn, IF fn = "activemask" THEN << >> ELSE <<eInt>>, 0) : fn \in WarpVoteTable}

\* The predicate of a match_all must be an int that is no bit-field; without
\* such a variable the call becomes a match_any.
MatchFallback(fn) ==
    CASE fn = "match_all" -> "match_any"
      [] fn = "match_all_sync" -> "match_any_sync"
      [] OTHER -> fn

\* Mutant: the fallback drops the predicate and keeps the name.
WarpMatchCalls_Keep(T) ==
    {Call(fn, <<t>>, 0) : fn \in WarpMatchTable, t \in {[sign |-> TRUE, size |-> z] : z \in {3, 4}}}

\* Without an int variable for its predicate, match_all becomes match_any.
MatchCalls(fn, t) ==
    IF MatchFallback(fn) = fn THEN {Call(fn, <<t>>, 0)}
    ELSE {Call(fn, <<t, eInt>>, 2), Call(MatchFallback(fn), <<t>>, 0)}

WarpMatchCalls(T) ==
    UNION {UNION {MatchCalls(fn, [sign |-> TRUE, size |-> z]) : z \in {3, 4}} : fn \in WarpMatchTable}

WarpShuffleCalls(T) ==
    {Call(fn, <<T, IF fn \in {"shfl_up", "shfl_down", "shfl_up_sync", "shfl_down_sync"}
                   THEN eUInt ELSE eInt>>, 0) : fn \in WarpShuffleTable}

WarpReduceCalls(T) == {Call(fn, <<T>>, 0) : fn \in WarpReduceTable}

\* Only the types of 32 and 64 bits have atomics; Inc and Dec are redrawn for
\* every type but unsigned int.  Without a variable of exactly this type there
\* is no call.
AtomicSelector(T) ==
    {fn \in AtomicTable : fn \in {"Inc", "Dec"} => T = eUInt}

AtomicCalls(T) ==
    IF T.size < 3 THEN {}
    ELSE {Call(fn, IF fn = "CAS" THEN <<T, T, T>> ELSE <<T, T>>, 1) : fn \in AtomicSelector(T)}

\* make_random: one of the categories that are switched on.
BuiltInCalls(on, T) ==
    UNION {CASE c = "sync"    -> SyncCalls(T)
             [] c = "vote"    -> WarpVoteCalls(T)
             [] c = "match"   -> WarpMatchCalls(T)
             [] c = "shuffle" -> WarpShuffleCalls(T)
             [] c = "reduce"  -> WarpReduceCalls(T)
             [] c = "atomic"  -> AtomicCalls(T) : c \in on}

-----------------------------------------------------------------------------
(* What the runtime and its header declare. *)

\* The number of parameters of a call's function, and which is a pointer.
Declared(fn) ==
    CASE fn = "activemask" -> <<0, 0>>
      [] fn \in {"match_all", "match_all_sync"} -> <<2, 2>>
      [] fn \in WarpShuffleTable -> <<2, 0>>
      [] fn = "CAS" -> <<3, 1>>
      [] fn \in AtomicTable \ {"CAS"} -> <<2, 1>>
      [] OTHER -> <<1, 0>>

\* Mutant: the 64-bit types are cast like the others.
CastArg_Int(T, v) == Convert(eInt, v)

\* static_cast to the type the intrinsic has for values of T.
CastArg(T, v) == Convert(IF T.size = 4 THEN [T EXCEPT !.sign = TRUE] ELSE eInt, v)

\* A shuffle of width 1: every lane reads itself, whatever lane it asks for.
ShuffleSource(lane, arg) == lane

safe_shfl(T, lv, lane, arg) == CastArg(T, lv[ShuffleSource(lane, arg)])

\* The lanes that hold the same value as this one.
safe_match_any(T, lv, lane) ==
    {l \in DOMAIN lv : CastArg(T, lv[l]) = CastArg(T, lv[lane])}

safe_match_all(T, lv) ==
    IF \A l, k \in DOMAIN lv : CastArg(T, lv[l]) = CastArg(T, lv[k]) THEN DOMAIN lv ELSE {}

\* Reductions cast to a type of the argument's sign.
ReduceType(T) == IF T.size = 4 THEN T ELSE [eInt EXCEPT !.sign = T.sign]

Reduction(fn, T, x, y) ==
    CASE fn = "reduce_add" -> Convert(T, x + y)
      [] fn = "reduce_min" -> IF y < x THEN y ELSE x
      [] fn = "reduce_max" -> IF y > x THEN y ELSE x
      [] fn = "reduce_and" -> CAnd(T, x, y)
      [] fn = "reduce_or"  -> CXor(T, CXor(T, x, y), CAnd(T, x, y))
      [] fn = "reduce_xor" -> CXor(T, x, y)

\* The lanes are combined one after the other.
safe_reduce(fn, T, lv) ==
    LET R == ReduceType(T)
        upto[i \in 0..(Len(lv) - 1)] ==
            IF i = 0 THEN Convert(R, lv[1])
            ELSE Reduction(fn, R, upto[i - 1], Convert(R, lv[i + 1]))
    IN  upto[Len(lv) - 1]

\* A safe atomic on the cell old: what it leaves there.
safe_atomicAdd(T, old, v) ==
    CIf(IF T.sign THEN check_safe_add(T, old, v) ELSE 1, Arith(T, old + v), old)

safe_atomicSub(T, old, v) ==
    CIf(IF T.sign THEN check_safe_sub(T, old, v) ELSE 1, Arith(T, old - v), old)

\* The others only cast their arguments and call the native function.
Passthrough(fn, T, old, cmp, v) ==
    CASE fn = "Min"  -> IF v < old THEN v ELSE old
      [] fn = "Max"  -> IF v > old THEN v ELSE old
      [] fn = "Exch" -> v
      [] fn = "CAS"  -> IF old = cmp THEN v ELSE old
      [] fn = "And"  -> CAnd(T, old, v)
      [] fn = "Or"   -> CXor(T, CXor(T, old, v), CAnd(T, old, v))
      [] fn = "Xor"  -> CXor(T, old, v)
      [] fn = "Inc"  -> IF old >= v THEN 0 ELSE old + 1
      [] fn = "Dec"  -> IF old = 0 \/ old > v THEN v ELSE old - 1

AtomicCell(fn, T, old, cmp, v) ==
    CASE fn = "Add" -> safe_atomicAdd(T, old, v)
      [] fn = "Sub" -> safe_atomicSub(T, old, v)
      [] OTHER -> Passthrough(fn, T, old, cmp, v)
=============================================================================
