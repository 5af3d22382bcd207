----------------------------- MODULE RoleLookup ------------------------------
(***************************************************************************)
(* How get_role_description (src/champions_mcp/roles.py) finds a role of   *)
(* the catalogue: a table of ids, names and aliases filled when the module *)
(* is loaded, an exact look-up in it, and a guess from parts of phrases.   *)
(* A phrase is a sequence of word parts, as slugify leaves them; "-" is a  *)
(* part of its own.                                                        *)
(***************************************************************************)
EXTENDS Integers, Sequences, FiniteSets, SequencesExt

CONSTANTS
  Roles,       \* set of [id, name, aliases: a sequence]
  Phrases,     \* what a caller may ask for
  NoRole

RoleAssumption ==
  /\ \A r, s \in Roles : r.id = s.id => r = s
  /\ \A r \in Roles : r.id # NoRole

VARIABLES
  catalogue,   \* _ROLES, in its order
  loaded,      \* how many of them are in the table
  lookup,      \* _LOOKUP: phrase -> id
  asked,       \* phrase of the last call
  answer       \* its role, or the candidates it names

vars == <<catalogue, loaded, lookup, asked, answer>>

NoAnswer == [role |-> NoRole, candidates |-> {}]

Init ==
  /\ catalogue \in SetToSeqs(Roles) /\ loaded = 0 /\ lookup = << >>
  /\ asked = << >> /\ answer = NoAnswer

RoleOf(id) == CHOOSE r \in Roles : r.id = id
PhrasesOf(r) == {r.id, r.name} \cup ToSet(r.aliases)

\* A role's id and name take what is there, its aliases only what is free.
LoadRole ==
  /\ loaded < Len(catalogue) /\ loaded' = loaded + 1
  /\ LET r == catalogue[loaded + 1]
         own == [p \in {r.id, r.name} |-> r.id]
         free == [p \in ToSet(r.aliases) |-> r.id]
     IN lookup' = own @@ lookup @@ free
  /\ UNCHANGED <<catalogue, asked, answer>>

Within(p, q) == \E i \in 0 .. Len(q) - Len(p) : SubSeq(q, i + 1, i + Len(p)) = p

\* match_roles: every phrase of the table that is part of this one, or has it as
\* a part.
MatchRoles(phrase) == {lookup[p] : p \in {q \in DOMAIN lookup : Within(q, phrase) \/ Within(phrase, q)}}

\* resolve_role
LookedUp(phrase) ==
  IF phrase = << >> THEN NoRole
  ELSE IF phrase \in DOMAIN lookup THEN lookup[phrase]
  ELSE IF Cardinality(MatchRoles(phrase)) = 1 THEN CHOOSE id \in MatchRoles(phrase) : TRUE
  ELSE NoRole

\* get_role_description
GetRoleDescription(phrase) ==
  /\ loaded = Len(catalogue) /\ asked' = phrase
  /\ LET id == LookedUp(phrase) IN
     answer' =
       IF id = NoRole
       THEN [NoAnswer EXCEPT !.candidates = IF phrase = << >> THEN {} ELSE MatchRoles(phrase)]
       ELSE [NoAnswer EXCEPT !.role = id]
  /\ UNCHANGED <<catalogue, loaded, lookup>>

Next ==
  \/ LoadRole
  \/ \E phrase \in Phrases \cup UNION {PhrasesOf(r) : r \in Roles} : GetRoleDescription(phrase)

Spec == Init /\ [][Next]_vars
-----------------------------------------------------------------------------
Called == asked # << >>

\* "Resolve a role id, display name or alias": whatever parts it shares with
\* others', a phrase of the catalogue leads to a role that has it, and an id or a
\* name to its own role. So a caller who takes an offered candidate gets it.
CatalogueFound ==
  Called => \A r \in Roles :
    /\ asked \in {r.id, r.name} => answer.role = r.id
    /\ asked \in ToSet(r.aliases) =>
         answer.role # NoRole /\ asked \in PhrasesOf(RoleOf(answer.role))

\* "Only commit when every match points at the same role": a phrase that is none
\* of the catalogue's is answered only if it is akin to phrases of that role alone,
\* whichever order the catalogue is in.
GuessedAlone ==
  Called /\ answer.role # NoRole =>
    \/ asked \in PhrasesOf(RoleOf(answer.role))
    \/ \A p \in DOMAIN lookup :
         Within(p, asked) \/ Within(asked, p) => lookup[p] = answer.role

\* A role is found by its own names and by a guess only where it is the only one.
RoleFound == CatalogueFound /\ GuessedAlone

-----------------------------------------------------------------------------
(* What a comment says and the code does not keep.                          *)

\* "answering with an arbitrary one would hand back a confidently wrong brief":
\* a phrase of two roles is answered by neither.
SharedIsAmbiguous ==
  Called => \A r, s \in Roles :
    r # s /\ asked \in ToSet(r.aliases) \cap ToSet(s.aliases) => answer.role = NoRole
=============================================================================
