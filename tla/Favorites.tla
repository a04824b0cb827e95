------------------------------ MODULE Favorites ------------------------------
(***************************************************************************)
(* Favorites of one member.  An addition looks for the favorite, counts    *)
(* the ones that are kept and adds it, each in a statement of its own; it  *)
(* holds the row of the member meanwhile.  A removal does not.             *)
(***************************************************************************)
EXTENDS Integers, FiniteSets

CONSTANTS
  Starrable,      \* what can be a favorite
  Addition,       \* requests to add one
  MaxFavorites    \* MAX_FAVORITES

FavoritesAssumption == MaxFavorites \in Nat \ {0}

VARIABLES
  favorites,   \* what is kept
  additions    \* the requests: [phase, item]

favoritesVars == <<favorites, additions>>

\* as mutated: an addition does not wait for the others
MemberIsAnyones(r) == additions[r].phase = "asked"

\* the row of the member is held until the transaction ends
MemberFree(r) == \A o \in Addition : additions[o].phase \in {"none", "asked", "stored"}

Request(r) ==
  /\ additions[r].phase = "none"
  /\ \E item \in Starrable : additions' = [additions EXCEPT ![r] = [phase |-> "asked", item |-> item]]
  /\ UNCHANGED favorites

LockMember(r) ==
  /\ additions[r].phase = "asked" /\ MemberFree(r)
  /\ additions' = [additions EXCEPT ![r].phase = "locked"]
  /\ UNCHANGED favorites

\* as mutated: the count is looked at first
Looked(r) ==
  IF Cardinality(favorites) >= MaxFavorites THEN "full"
  ELSE IF additions[r].item \in favorites THEN "none" ELSE "missing"

\* what is a favorite already is left alone
Missing(r) == IF additions[r].item \in favorites THEN "none" ELSE "missing"

Look(r) ==
  /\ additions[r].phase = "locked"
  /\ additions' = [additions EXCEPT ![r].phase = Missing(r)]
  /\ UNCHANGED favorites

CountKept(r) ==
  /\ additions[r].phase = "missing"
  /\ additions' = [additions EXCEPT ![r].phase =
                     IF Cardinality(favorites) >= MaxFavorites THEN "full" ELSE "room"]
  /\ UNCHANGED favorites

Store(r) ==
  /\ additions[r].phase = "room"
  /\ favorites' = favorites \cup {additions[r].item}
  /\ additions' = [additions EXCEPT ![r].phase = "stored"]

\* a request is answered, or fails
Answer(r) ==
  /\ additions[r].phase \notin {"none", "asked"}
  /\ additions' = [additions EXCEPT ![r].phase = "none"] /\ UNCHANGED favorites

RemoveFavorite ==
  /\ \E item \in Starrable : favorites' = favorites \ {item}
  /\ UNCHANGED additions

Init ==
  /\ favorites = {}
  /\ additions = [r \in Addition |-> [phase |-> "none", item |-> CHOOSE i \in Starrable : TRUE]]

Next ==
  \/ \E r \in Addition : \/ Request(r) \/ LockMember(r) \/ Look(r) \/ CountKept(r)
                         \/ Store(r) \/ Answer(r)
  \/ RemoveFavorite

Spec == Init /\ [][Next]_favoritesVars

-----------------------------------------------------------------------------
(* A member keeps at most so many favorites, and is not told that there    *)
(* are too many of them for one that is kept, whatever is added and        *)
(* removed meanwhile (add_favorite).                                       *)
FewKept ==
  /\ Cardinality(favorites) <= MaxFavorites
  /\ \A r \in Addition : additions[r].phase = "full" => additions[r].item \notin favorites
=============================================================================
