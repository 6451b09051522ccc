---------------------------- MODULE TriggerFetch ----------------------------
(***************************************************************************)
(* One call of LigDataApi that asks the servers: GetRealTimeTriggerData,   *)
(* GetHistoricalTriggerDataUntill or GetStationData.  Up to three tries go *)
(* to the server url_u and up to three to url_j.  A trigger answer is      *)
(* parsed inside the loop and an empty one is asked for again; a station   *)
(* answer ends the loop and is parsed afterwards.                          *)
(*                                                                         *)
(* An answer is "none", "refused" (a status other than 200), "garbled"     *)
(* (200, not JSON) or "items".  An item is known by a key, the order of    *)
(* TriggerInfo::operator< (or the station's ID), and by what is wrong with *)
(* it: the size, the JSON type of a field, or a field that is no number.   *)
(***************************************************************************)
EXTENDS Integers, Sequences, FiniteSets

CONSTANTS
    Answers,       \* what a server may answer: [status, items]
    StationLimit   \* 1000 in the source: stations from here on are ignored

LOCAL SeqX == INSTANCE SequencesExt

Fault == {"fine", "size", "type", "number"}
Item  == [key : Nat, fault : Fault]

ASSUME FetchAssumption ==
    /\ StationLimit \in Nat
    /\ Answers \subseteq [status : {"none", "refused", "garbled", "items"}, items : Seq(Item)]
    /\ \A a \in Answers : a.status # "items" => a.items = <<>>

VARIABLES
    call,     \* "realTime", "historical" or "sites"
    at,       \* "ask", "answered", "done" or "threw" (done after an exception)
    i,        \* the loop counter
    res,      \* the current answer
    fetched,  \* allTriggers_ or sites_, as keys
    warned,   \* has "Max retries reached" been sent?
    answers   \* history: every answer, with the server that gave it

vars == <<call, at, i, res, fetched, warned, answers>>

NoAnswer == [status |-> "none", items |-> <<>>]

Init == /\ call \in {"realTime", "historical", "sites"}
        /\ at = "ask" /\ i = 0 /\ res = NoAnswer /\ fetched = <<>>
        /\ warned = FALSE /\ answers = <<>>

----------------------------------------------------------------------------
\* Mutant of Server: url_u is tried once too often.
ServerLate == IF i <= 3 THEN "url_u" ELSE "url_j"

Server == IF i < 3 THEN "url_u" ELSE "url_j"

Ask == /\ at = "ask"
       /\ res' \in Answers
       /\ answers' = Append(answers, [from |-> Server, got |-> res'])
       /\ at' = "answered"
       /\ UNCHANGED <<call, i, fetched, warned>>

Answered(a) == a.status \in {"garbled", "items"}

\* The keys of the items before the first one with such a fault.
KeysUpTo(items, faults) ==
    LET bad  == {k \in DOMAIN items : items[k].fault \in faults}
        upTo == IF bad = {} THEN Len(items)
                ELSE (CHOOSE k \in bad : \A n \in bad : k <= n) - 1
    IN  [k \in 1 .. upTo |-> items[k].key]

\* parse_result: it returns at a wrong size, and catches a Json::Exception.
TriggersOf(items) == KeysUpTo(items, Fault \ {"fine"})

\* stoi and stof throw another exception, which leaves parse_result.
ParseThrows(items) ==
    \E k \in DOMAIN items :
        /\ items[k].fault = "number"
        /\ \A n \in 1 .. k - 1 : items[n].fault = "fine"

\* A finite set of numbers in ascending order.
InOrder(S) == [p \in 1 .. Cardinality(S) |->
                 CHOOSE x \in S : Cardinality({y \in S : y < x}) = p - 1]

\* sort and unique.
SortUnique(s) == InOrder(SeqX!ToSet(s))

\* The result of a parse that returned, with what was there before.
Collected == SortUnique(fetched \o TriggersOf(res.items))

\* Mutant of NextTry: a seventh try.
NextTrySeven ==
    IF i = 6
    THEN /\ at' = "done" /\ UNCHANGED i
         /\ warned' = (call = "realTime")
    ELSE /\ at' = "ask" /\ i' = i + 1
         /\ UNCHANGED warned

\* Mutant of NextTry: no return after the last try; the call ends in no result.
NextTryFallsOff ==
    IF i = 5
    THEN UNCHANGED <<at, i, warned>>
    ELSE /\ at' = "ask" /\ i' = i + 1
         /\ UNCHANGED warned

\* The end of a try that gave nothing: the last one gives up, and only the
\* real-time call tells.
NextTry ==
    IF i = 5
    THEN /\ at' = "done" /\ UNCHANGED i
         /\ warned' = (call = "realTime")
    ELSE /\ at' = "ask" /\ i' = i + 1
         /\ UNCHANGED warned

\* Mutant of TriggersParsed: an answer with a fault is asked for again.
RetriedOnFault ==
    /\ at = "answered" /\ call # "sites" /\ Answered(res) /\ ~ParseThrows(res.items)
    /\ fetched' = Collected
    /\ IF fetched' # <<>> /\ \A k \in DOMAIN res.items : res.items[k].fault = "fine"
       THEN at' = "done" /\ UNCHANGED <<i, warned>>
       ELSE NextTry
    /\ UNCHANGED <<call, res, answers>>

TriggersParsed ==
    /\ at = "answered" /\ call # "sites" /\ Answered(res) /\ ~ParseThrows(res.items)
    /\ fetched' = Collected
    /\ IF fetched' # <<>>
       THEN at' = "done" /\ UNCHANGED <<i, warned>>
       ELSE NextTry
    /\ UNCHANGED <<call, res, answers>>

\* Mutant of TriggersThrew: the exception is caught inside the loop, as a failed try.
ThrewTriesAgain ==
    /\ at = "answered" /\ call # "sites" /\ Answered(res) /\ ParseThrows(res.items)
    /\ NextTry
    /\ UNCHANGED <<call, res, fetched, answers>>

\* catch (const std::exception&): what has been read so far, not sorted.
TriggersThrew ==
    /\ at = "answered" /\ call # "sites" /\ Answered(res) /\ ParseThrows(res.items)
    /\ fetched' = fetched \o TriggersOf(res.items)
    /\ at' = "threw"
    /\ UNCHANGED <<call, i, res, warned, answers>>

TriggersFailed ==
    /\ at = "answered" /\ call # "sites" /\ ~Answered(res)
    /\ NextTry
    /\ UNCHANGED <<call, res, fetched, answers>>

\* Stations are read by name: neither the size nor a number is in doubt, but a
\* field of another type throws a Json::Exception.
StationsOf(items) ==
    LET ids  == KeysUpTo(items, {"type", "number"})
        kept == InOrder({k \in DOMAIN ids : ids[k] < StationLimit})
    IN  [p \in DOMAIN kept |-> ids[kept[p]]]

StationsParsed ==
    /\ at = "answered" /\ call = "sites" /\ Answered(res)
    /\ fetched' = StationsOf(res.items)
    /\ at' = "done"
    /\ UNCHANGED <<call, i, res, warned, answers>>

StationsFailed ==
    /\ at = "answered" /\ call = "sites" /\ ~Answered(res)
    /\ NextTry
    /\ UNCHANGED <<call, res, fetched, answers>>

Next == \/ Ask \/ TriggersParsed \/ TriggersThrew \/ TriggersFailed
        \/ StationsParsed \/ StationsFailed

\* A call runs in the loader (or in main), and every request returns.
Spec     == Init /\ [][Next]_vars
FairSpec == Spec /\ WF_vars(Next)

----------------------------------------------------------------------------
(* Properties. *)

Returned == at \in {"done", "threw"}

\* Type invariant of the locals of the three calls.
TypeOK ==
    /\ call \in {"realTime", "historical", "sites"}
    /\ at \in {"ask", "answered", "done", "threw"} /\ i \in 0 .. 5
    /\ res \in Answers \cup {NoAnswer} /\ fetched \in Seq(Nat) /\ warned \in BOOLEAN
    /\ answers \in Seq([from : {"url_u", "url_j"}, got : Answers])

\* allTriggers_ lives across the tries and parse_result appends to it: what a call
\* returns nevertheless comes from its last answer alone.
OneAnswer ==
    Returned => SeqX!ToSet(fetched) \subseteq {res.items[k].key : k \in DOMAIN res.items}

\* GetRealTimeTriggerData and GetHistoricalTriggerDataUntill come back empty, and
\* without an exception, only after three useless answers of each server.
EmptyOnlyAfterAllTries ==
    at = "done" /\ call # "sites" /\ fetched = <<>> =>
        \A s \in {"url_u", "url_j"} :
            Cardinality({k \in DOMAIN answers :
                            /\ answers[k].from = s
                            /\ TriggersOf(answers[k].got.items) = <<>>}) = 3

\* "Max retries reached. Unable to obtain valid trigger from url!" is published when,
\* and only when, the call is a real-time one, no answer held a trigger, and no answer
\* ended it with an exception.  So there is one way for a real-time call to come back
\* empty without the warning: the first item of its last answer threw
\* (LigDataApi.cpp:163).
WarnedUnlessThrown ==
    Returned =>
        (warned <=> /\ call = "realTime"
                    /\ \A k \in DOMAIN answers :
                          /\ TriggersOf(answers[k].got.items) = <<>>
                          /\ ~ParseThrows(answers[k].got.items))

\* Every call returns: the loop has no exit but its returns.
CallReturns == <>Returned
=============================================================================
