------------------------------ MODULE SeqLemmas ------------------------------
(***************************************************************************)
(* Facts about the range of a sequence and about injective sequences, as  *)
(* eligible_collections (scheduler.py line 71) is built by append and     *)
(* consumed from its head in the dispatch loop (line 88).                 *)
(***************************************************************************)
EXTENDS Sequences, Functions, TLAPS

(* Appending x adds x to the range. *)
LEMMA RangeAppend ==
    ASSUME NEW S, NEW s \in Seq(S), NEW x \in S
    PROVE  Range(Append(s, x)) = Range(s) \cup {x}
<1>1. Range(Append(s, x)) \subseteq Range(s) \cup {x}
    <2> SUFFICES ASSUME NEW i \in 1..Len(s) + 1
                 PROVE  Append(s, x)[i] \in Range(s) \cup {x}
        BY DEF Range
    <2>1. CASE i = Len(s) + 1
        BY <2>1
    <2>2. CASE i \in 1..Len(s)
        BY <2>2 DEF Range
    <2>. QED
        BY <2>1, <2>2
<1>2. Range(s) \cup {x} \subseteq Range(Append(s, x))
    <2>1. x = Append(s, x)[Len(s) + 1]
        OBVIOUS
    <2>2. \A i \in 1..Len(s) : s[i] = Append(s, x)[i]
        OBVIOUS
    <2>. QED
        BY <2>1, <2>2 DEF Range
<1>. QED
    BY <1>1, <1>2

(* Appending a value not yet in an injective sequence keeps it injective. *)
LEMMA InjectiveAppend ==
    ASSUME NEW S, NEW s \in Seq(S), NEW x \in S,
           IsInjective(s), x \notin Range(s)
    PROVE  IsInjective(Append(s, x))
BY DEF IsInjective, Range

(* Dropping the head keeps a sequence injective, and the head is not in   *)
(* the rest.                                                               *)
LEMMA InjectiveTail ==
    ASSUME NEW S, NEW s \in Seq(S), s # <<>>, IsInjective(s)
    PROVE  /\ Range(Tail(s)) \subseteq Range(s)
           /\ Head(s) \notin Range(Tail(s))
           /\ IsInjective(Tail(s))
BY DEF IsInjective, Range

=============================================================================
