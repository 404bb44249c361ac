------------------------------ MODULE MCConfig ------------------------------
(* Instances of Config for TLC. *)
EXTENDS Config

CONSTANTS d1, d2, x, c1, c2

\* Connectors for either keyer, which want the same port: the first one gets it.
Rivals == {[dev |-> d, port |-> "p", valid |-> TRUE] : d \in {d1, d2}}

\* Settings somebody wrote into the file by hand.
Broken == [dev |-> d1, port |-> "?", valid |-> FALSE]

\* One keyer gets the name x; both keyers are updated, and the second gets it.
Updates ==
  {<<[dev |-> d1, name |-> x]>>,
   <<[dev |-> d1, name |-> "keep"], [dev |-> d2, name |-> x]>>}

Settings == Rivals \cup {Broken}

\* One keyer, and a connector with settings that are not valid.
OneKeyer == [dev |-> d1 :> NoName, con |-> 1 :> Broken]

\* LoadConnectors against the order the code takes: apply_connector_from_json for one
\* connector of the file after the other, with nothing or a connector there before.
LoadInOrder(c, con, known) ==
  FoldLeft(LAMBDA b, id : [apply_connector_from_json(b, con[id], id, known, TRUE) EXCEPT !.id = 0],
           c, SetToSortSeq(DOMAIN con, <))

Before ==
  {[reg |-> r, run |-> r, idCnt |-> Max({0} \cup DOMAIN r), id |-> 0] :
     r \in Partial({2}, Settings)}

ASSUME \A c \in Before, con \in Partial(1..3, Settings), known \in SUBSET {d1, d2} :
         LoadConnectors(c, con, known) = LoadInOrder(c, con, known)

Symmetry == Permutations({c1, c2})
=============================================================================
