--------------------------- MODULE MCInstallation ---------------------------
(***************************************************************************)
(* Instances of Installation: one bundle, two one at a time, one in two    *)
(* contexts, and two at once that share their resources.                   *)
(*                                                                         *)
(* One bundle in one context, with the shape of a translated hook: an      *)
(* entry in the agent's configuration refers to a launcher, which may      *)
(* change in place, and the launcher to a runtime whose destination        *)
(* changes with its revision.  The destination order is neither the order  *)
(* of publication nor that of retirement.                                  *)
(***************************************************************************)
EXTENDS Inspection, TLC

VARIABLE scenario   \* of this behaviour

MCResources == 1..4
MCClaims == {"old", "entry", "launcher", "new"}
MCSite ==
    [c \in MCClaims |-> CASE c = "old" -> 1 [] c = "entry" -> 2 [] c = "launcher" -> 3 [] c = "new" -> 4]
MCContents == {"nothing", "user", "one", "two"}
MCBundle == [i \in Installs |-> "team"]
MCRendering == [g \in Generations |-> CHOOSE i \in Installs : TRUE]
MCBody ==
    [g \in Generations |->
        [c \in MCClaims |->
            CASE c = "entry" -> "one"
              [] c = "launcher" -> IF g = "g1" THEN "one" ELSE "two"
              [] c = "old" -> IF g = "g1" THEN "one" ELSE "nothing"
              [] c = "new" -> IF g = "g1" THEN "nothing" ELSE "one"]]
MCNeeds ==
    [g \in Generations |->
        {<<"entry", "launcher">>, <<"launcher", IF g = "g1" THEN "old" ELSE "new">>}]
MCStable == [g \in Generations |-> {<<"entry", "launcher">>}]

\* One that is synchronized again and again: FairSpec.
LiveSpec ==
    /\ scenario = "live"
    /\ Init
    /\ [][Next /\ UNCHANGED scenario]_<<vars, scenario>>
    /\ Fairness
-----------------------------------------------------------------------------
(***************************************************************************)
(* One installation at a time, of two.  "upgrade" is the translated hook   *)
(* above, called and recovered with failures, crashes and an edit.         *)
(* "takeover" is a bundle with two entries of one document, of which its   *)
(* second version gives one up that the user may have had, with every      *)
(* acquisition policy.                                                     *)
(***************************************************************************)
OneResources == 1..5
OneClaims == MCClaims \cup {"item", "extra"}
OneSite == [c \in OneClaims |-> IF c \in MCClaims THEN MCSite[c] ELSE 5]
OneBundle == [i \in Installs |-> i]
OneRendering == [g \in Generations |-> IF g \in {"g1", "g2"} THEN "team" ELSE "solo"]
OneBody ==
    [g \in Generations |->
        [c \in OneClaims |->
            IF c \in MCClaims THEN IF g \in {"g1", "g2"} THEN MCBody[g][c] ELSE "nothing"
            ELSE IF g = "s1" THEN "one"
            ELSE IF g = "s2" /\ c = "item" THEN "two" ELSE "nothing"]]
OneNeeds == [g \in Generations |-> IF g \in {"g1", "g2"} THEN MCNeeds[g] ELSE {}]
OneStable == [g \in Generations |-> IF g \in {"g1", "g2"} THEN MCStable[g] ELSE {}]

Upgraded(j) == j.inst = "team" /\ j.kind # "apply" /\ j.acquisition = "conflict" /\ ~j.replace
TakenOver(j) == j.inst = "solo" /\ j.kind # "recover"

OneInit ==
    /\ scenario \in {"upgrade", "takeover"}
    /\ Init
    /\ \A c \in Claims : content[c] # Nothing => c = "extra" /\ scenario = "takeover"

OneNext ==
    /\ UNCHANGED scenario
    /\ Next
    /\ \A p \in Procs : job'[p] # None =>
           IF scenario = "upgrade" THEN Upgraded(job'[p]) ELSE TakenOver(job'[p])
    /\ faults' <= (IF scenario = "upgrade" THEN 2 ELSE 1)
    /\ faults' + edits' <= 2
    /\ edits' # edits => \E c \in Claims :
           content'[c] # content[c] /\ (c \in MCClaims <=> scenario = "upgrade")

OneSpec == OneInit /\ [][OneNext]_<<vars, scenario>>
-----------------------------------------------------------------------------
(***************************************************************************)
(* One bundle installed in the contexts of two agents of one project.  The *)
(* configuration of each agent is its own document; the support asset both *)
(* refer to is one directory, named by bundle, asset and revision.         *)
(***************************************************************************)
ApartResources == 1..3
ApartClaims == {"asset", "claude_entry", "codex_entry"}
ApartSite == [c \in ApartClaims |-> CASE c = "asset" -> 1 [] c = "claude_entry" -> 2 [] c = "codex_entry" -> 3]
ApartContents == {"nothing", "one"}
ApartBundle == [i \in Installs |-> "team"]
ApartRendering == [g \in Generations |-> IF g = "claude1" THEN "claude" ELSE "codex"]
ApartBody ==
    [g \in Generations |->
        [c \in ApartClaims |->
            IF c = "asset" \/ (g = "claude1" <=> c = "claude_entry") THEN "one" ELSE "nothing"]]
ApartNeeds ==
    [g \in Generations |->
        {<<IF g = "claude1" THEN "claude_entry" ELSE "codex_entry", "asset">>}]
ApartStable == [g \in Generations |-> {}]

ApartSpec == Init /\ scenario = "contexts" /\ [][Next /\ UNCHANGED scenario]_<<vars, scenario>>
-----------------------------------------------------------------------------
(***************************************************************************)
(* Two bundles that share two resources, a document of entries and a       *)
(* container of skills.  The team's entry refers to its skill.  The first  *)
(* version of the tools bundle lives beside it; the second wants the       *)
(* team's entry.                                                           *)
(***************************************************************************)
SharedResources == 1..2
SharedClaims == {"entry", "extra", "skill", "tool"}
SharedSite == [c \in SharedClaims |-> IF c \in {"skill", "tool"} THEN 2 ELSE 1]
SharedContents == {"nothing", "one", "two"}
SharedBundle == [i \in Installs |-> i]
SharedRendering == [g \in Generations |-> IF g = "team1" THEN "team" ELSE "tools"]
SharedBody ==
    [g \in Generations |->
        [c \in SharedClaims |->
            CASE g = "team1" /\ c \in {"entry", "skill"} -> "one"
              [] g = "tools1" /\ c \in {"extra", "tool"} -> "one"
              [] g = "tools2" /\ c \in {"entry", "tool"} -> "two"
              [] OTHER -> "nothing"]]
SharedNeeds == [g \in Generations |-> IF g = "team1" THEN {<<"entry", "skill">>} ELSE {}]
SharedStable == [g \in Generations |-> {}]
ProcSymmetry == Permutations(Procs)

\* The scenario is the version of the tools bundle.
SharedInit == Init /\ scenario \in {"tools1", "tools2"}

SharedNext ==
    /\ Next
    /\ UNCHANGED scenario
    /\ \A p \in Procs : job'[p] # None => job'[p].gen \in {None, "team1", scenario}

SharedSpec == SharedInit /\ [][SharedNext]_<<vars, scenario>>
=============================================================================
