---------------------------- MODULE OrderedHash ----------------------------
(***************************************************************************)
(* tsl::ordered_hash (include/ordered_hash.h) as far as the trigger pool   *)
(* of ThreadLoc uses it: find, size, operator[], erase(key), iteration.    *)
(*                                                                         *)
(* The values stand in m_values in the order of their insertion.  A bucket *)
(* holds the position of a value, counted from 0, and its hash; collisions *)
(* are resolved by robin hood probing, and an erase shifts the following   *)
(* buckets back.  A map has at most a dozen entries here, so the limits on *)
(* its size and on the probe length (128) are out of reach.                *)
(***************************************************************************)
EXTENDS Integers, Sequences, FiniteSets

CONSTANT Hash   \* std::hash<int>, which the standard leaves open

ASSUME HashAssumption == \A key \in DOMAIN Hash : Hash[key] \in Nat

LOCAL SeqX == INSTANCE SequencesExt

Vacant == [index |-> -1, hash |-> 0]

EmptyMap == [m_values |-> <<>>, m_buckets |-> <<>>]

bucket_count(b) == Cardinality(DOMAIN b)

\* distance_from_ideal_bucket for a hash that stands in bucket i; the count is a
\* power of two, so the mask is a remainder, and the distance wraps with it.
Distance(b, i, hash) == (i - hash) % bucket_count(b)

\* The bucket after d calls of next_bucket, and whether find_key stops there.
Probe(m, key, d)   == (Hash[key] + d) % bucket_count(m.m_buckets)
Holds(m, key, i)   ==
    LET e == m.m_buckets[i]
    IN  e # Vacant /\ e.hash = Hash[key] /\ m.m_values[e.index + 1].key = key
StopsAt(m, key, d) ==
    LET i == Probe(m, key, d)
    IN  \/ m.m_buckets[i] = Vacant
        \/ Holds(m, key, i)
        \/ d > Distance(m.m_buckets, i, m.m_buckets[i].hash)

find_key(m, key) ==
    Probe(m, key, CHOOSE d \in 0 .. bucket_count(m.m_buckets) :
                     StopsAt(m, key, d) /\ \A c \in 0 .. d - 1 : ~StopsAt(m, key, c))

\* find(key) != end().  A map without buckets has one static vacant bucket.
Contains(m, key) == m.m_values # <<>> /\ Holds(m, key, find_key(m, key))

Position(m, key) == m.m_buckets[find_key(m, key)].index + 1

----------------------------------------------------------------------------
\* insert_index, and the same loop in rehash_impl: an entry takes the place of one
\* that is closer to its ideal bucket, and the search goes on for that one.
insert_index(b, entry) ==
    LET Step(s, i) ==
            IF \/ s.carried = Vacant
               \/ /\ s.buckets[i] # Vacant
                  /\ Distance(b, i, s.carried.hash) <= Distance(b, i, s.buckets[i].hash)
            THEN s
            ELSE [buckets |-> [s.buckets EXCEPT ![i] = s.carried], carried |-> s.buckets[i]]
        search[d \in 0 .. bucket_count(b)] ==
            IF d = 0 THEN [buckets |-> b, carried |-> entry]
            ELSE Step(search[d - 1], (entry.hash + d - 1) % bucket_count(b))
    IN  search[bucket_count(b)].buckets

rehash_impl(b, count) ==
    LET moved[n \in 0 .. bucket_count(b)] ==
            IF n = 0 THEN [i \in 0 .. count - 1 |-> Vacant]
            ELSE IF b[n - 1] = Vacant THEN moved[n - 1]
            ELSE insert_index(moved[n - 1], b[n - 1])
    IN  moved[bucket_count(b)]

\* m_load_threshold: three quarters of the buckets.
grow_on_high_load(m) ==
    LET count == bucket_count(m.m_buckets)
    IN  IF Len(m.m_values) >= (3 * count) \div 4
        THEN rehash_impl(m.m_buckets, IF count = 0 THEN 1 ELSE 2 * count)
        ELSE m.m_buckets

\* m[key] = value for a key that is not there, and for one that is.
Insert(m, key, value) ==
    [m_values  |-> Append(m.m_values, [key |-> key, value |-> value]),
     m_buckets |-> insert_index(grow_on_high_load(m),
                                [index |-> Len(m.m_values), hash |-> Hash[key]])]

Update(m, key, value) == [m EXCEPT !.m_values[Position(m, key)].value = value]

----------------------------------------------------------------------------
\* The following entries that are not in their ideal buckets move back by one.
backward_shift(b, hole) ==
    LET After(d) == (hole + d) % bucket_count(b)
        Ends(d)  == LET e == b[After(d)]
                    IN  e = Vacant \/ Distance(b, After(d), e.hash) = 0
        length   == CHOOSE d \in 1 .. bucket_count(b) : Ends(d) /\ \A c \in 1 .. d - 1 : ~Ends(c)
    IN  [i \in DOMAIN b |->
            LET d == (i - hole) % bucket_count(b)
            IN  IF d >= length THEN b[i] ELSE IF d = length - 1 THEN Vacant ELSE b[After(d + 1)]]

\* Mutant of shift_indexes_in_buckets: the positions are not adapted.
NoShift(b, position) == b

\* The values behind the erased position move one to the front.
shift_indexes_in_buckets(b, position) ==
    [i \in DOMAIN b |-> IF b[i].index > position THEN [b[i] EXCEPT !.index = @ - 1] ELSE b[i]]

EraseKey(m, key) ==
    IF ~Contains(m, key) THEN m
    ELSE LET i        == find_key(m, key)
             position == m.m_buckets[i].index
         IN  [m_values  |-> SeqX!RemoveAt(m.m_values, position + 1),
              m_buckets |-> backward_shift(
                  [shift_indexes_in_buckets(m.m_buckets, position) EXCEPT ![i] = Vacant], i)]
=============================================================================
