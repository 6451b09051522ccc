------------------------------ MODULE LigTools ------------------------------
(***************************************************************************)
(* The enumeration of combinations in LigTools.cpp, with its recursions    *)
(* and the order in which it finds the combinations.                       *)
(***************************************************************************)
EXTENDS LocPool, Sequences

LOCAL SeqX == INSTANCE SequencesExt

\* getCombinations: the increasing sequences of k of the indices 1 to n.
getCombinations(n, k) ==
    LET generateCombinations[current \in {s \in Seq(1 .. n) : Len(s) <= k}] ==
            IF Len(current) = k THEN <<current>>
            ELSE LET start == IF current = <<>> THEN 0 ELSE current[Len(current)]
                 IN  SeqX!FlattenSeq([i \in 1 .. n - start |->
                                    generateCombinations[Append(current, start + i)]])
    IN  generateCombinations[<<>>]

\* Mutant of Valid: a trigger is compared with the last one chosen only.
ValidForLast(tri, current) ==
    current # <<>> => Coherent(tri, current[Len(current)])

Valid(tri, current) == \A i \in 1 .. Len(current) : Coherent(tri, current[i])

\* permuteVector: one trigger of every sequence, each coherent with those before.
permuteVector(triggers) ==
    LET permute[current \in {s \in Seq(Trigger) : Len(s) <= Len(triggers)}] ==
            IF Len(current) = Len(triggers) THEN <<current>>
            ELSE LET choices == triggers[Len(current) + 1]
                 IN  SeqX!FlattenSeq([i \in 1 .. Len(choices) |->
                                    IF Valid(choices[i], current)
                                    THEN permute[Append(current, choices[i])]
                                    ELSE <<>>])
    IN  permute[<<>>]

\* triggers: those of each station, in the order of the pool.
getLocationPool_p(triggers, nCombStas) ==
    LET combinations == getCombinations(Len(triggers), nCombStas)
        Selected(c)  == [i \in 1 .. Len(c) |-> triggers[c[i]]]
    IN  SeqX!FlattenSeq([i \in 1 .. Len(combinations) |-> permuteVector(Selected(combinations[i]))])
=============================================================================
