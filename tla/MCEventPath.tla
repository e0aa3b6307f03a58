----------------------------- MODULE MCEventPath -----------------------------
(* A small instance of EventPath for TLC: odd lines one at a time, every     *)
(* short pattern against every short rule, and a few tenants whose labels    *)
(* the enrichers fill in.                                                   *)
EXTENDS EventPath

MCChar == {"a", "b", "?", "/", "x", "table", "mine", "canonical", "0", "1", "2", "3"}

MCEnrichers ==
  <<[kind |-> "lookup", onLabel |-> "tenant",
     table |-> (<<"a">> :> ("team" :> <<"x">>)) @@ (<<"b">> :> ("zone" :> <<"table">>))],
    [kind |-> "http", onLabel |-> "tenant", timeout |-> 2, ttl |-> 2, capacity |-> 2,
     gives |-> "zone"],
    [kind |-> "http", onLabel |-> "team", timeout |-> 6, ttl |-> 0, capacity |-> 2,
     gives |-> "owner"]>>

NoNames == [middleware |-> << >>, router |-> << >>, entryPoint |-> << >>]
Names == [middleware |-> <<<<"word">>>>, router |-> <<<<"word", "word">>>>, entryPoint |-> <<<<"word">>>>]

Audit == [id |-> "1", detail |-> << >>, labels |-> << >>, hasWouldBlock |-> TRUE,
          wouldBlock |-> << >>, blockedRule |-> << >>, severity |-> "absent",
          action |-> "block"]

Base == [before |-> << >>, documents |-> <<Audit>>, names |-> NoNames, utf8 |-> TRUE]

Everything == [labels |-> << >>, severityMin |-> << >>, pattern |-> << >>]

One(l, filter) == [lines |-> {l}, filters |-> <<filter>>, versions |-> 1]

Upto(S, n) == UNION {[1 .. k -> S] : k \in 0 .. n}

\* Every short text in the detail of an event, in lines of several forms.
Bodies == Upto({"{", "}", "quote", "backslash", "middlewareName="}, 3)
Befores == {<< >>, <<"ESC", "[", "m", "word", "space">>, <<"word", "{">>}
Other == [Audit EXCEPT !.id = "2", !.hasWouldBlock = FALSE]

OddLines ==
  {[Base EXCEPT !.before = b, !.documents = <<[Audit EXCEPT !.detail = d]>>, !.names = n] :
     b \in Befores, d \in Bodies, n \in {NoNames, Names}}
  \cup {[Base EXCEPT !.documents = s] :
          s \in {<< >>, <<Other>>, <<Other, Audit>>, <<Audit, Other>>,
                 <<[Audit EXCEPT !.action = "pass"]>>}}
  \cup {[Base EXCEPT !.utf8 = FALSE]}

Patterns == Upto({"a", "b", "*"}, 4)
Rules    == Upto({"a", "b"}, 3) \ {<< >>}

FilterWorlds ==
  {One([Base EXCEPT !.documents = <<[Audit EXCEPT !.blockedRule = <<r>>]>>],
       [Everything EXCEPT !.pattern = <<p>>]) : p \in Patterns, r \in Rules}
  \cup {One([Base EXCEPT !.documents =
               <<[Audit EXCEPT !.blockedRule = b, !.wouldBlock = w, !.severity = s]>>],
            [labels |-> << >>, severityMin |-> m, pattern |-> p]) :
          b \in {<< >>, <<<<"a">>>>}, w \in {<< >>, <<<<"b">>>>},
          s \in {"absent", "unheard of", "medium", "high", "critical"},
          m \in {<< >>, <<"high">>}, p \in {<< >>, <<<<"a">>>>, <<<<"b">>>>, <<<< >>>>}}

\* Three tenants, one of them with another behind characters that mean something in a
\* URL, and an event whose operator has set a label a service knows too.
Tenant(t) == "tenant" :> <<t>>
Lines3 ==
  {[Base EXCEPT !.documents = <<[Audit EXCEPT !.labels = ls]>>] :
     ls \in {Tenant(<<"a">>), Tenant(<<"b">>), Tenant(<<"a", "/", "b", "?">>),
             Tenant(<<"b">>) @@ ("zone" :> <<<<"mine">>>>) @@ ("team" :> << >>)}}

MCWorlds ==
  {One(l, Everything) : l \in OddLines} \cup FilterWorlds
  \cup {[lines |-> Lines3, filters |-> <<[Everything EXCEPT !.labels = Everything.labels @@ ("zone" :> <<"mine">>)]>>,
         versions |-> 3]}
=============================================================================
