--------------------------- MODULE MCTriggerFetch ---------------------------
(* Instances of TriggerFetch for TLC. *)
EXTENDS TriggerFetch

Good(k)       == [key |-> k, fault |-> "fine"]
Bad(k, fault) == [key |-> k, fault |-> fault]
Items(s)      == [status |-> "items", items |-> s]

\* No answer, no data, unsorted and repeated data, a fault in front and in the
\* middle, and two faults of different kinds.
MCAnswers ==
    {[status |-> s, items |-> <<>>] : s \in {"none", "refused", "garbled", "items"}}
      \cup {Items(<<Good(2), Good(1), Good(2)>>)}
      \cup {Items(<<Bad(1, f)>>) : f \in {"size", "type", "number"}}
      \cup {Items(<<Good(3), Good(1), Bad(2, f)>>) : f \in {"size", "type", "number"}}
      \cup {Items(<<Bad(2, "size"), Bad(1, "number")>>)}
=============================================================================
