------------------------------ MODULE Rendering ------------------------------
(***************************************************************************)
(* render_many one context at a time: a bundle is rendered for every       *)
(* context of a batch, in the order of the caller's list, and what came    *)
(* out is put together.  The renderer and the hosts that read what it      *)
(* wrote are parameters, the operators of Translation and HostReading.     *)
(***************************************************************************)
EXTENDS Naturals, FiniteSets, TLC

CONSTANTS
    Undecided, Invalid,
    Bundles, Batches,
    Route(_),               \* of a context
    RenderFor(_, _),        \* a bundle for a context
    RenderBatch(_, _),      \* the results by route, and the contexts, together
    Offered(_),             \* the families a context says it has a translation for
    Served(_, _, _, _),     \* what is rendered makes the host of a context see an artifact as authored
    Relocatable(_),         \* the relocating variables of a context are absolute
    Renderable(_)           \* what a bundle requires exists once it is rendered

VARIABLES
    authored, contexts,
    pending,    \* the contexts that are not rendered yet
    routes,     \* route -> what the bundle is rendered to
    outcome     \* Undecided, Invalid or the rendered bundle

renderVars == <<authored, contexts, pending, routes, outcome>>

RenderInit ==
    /\ authored \in Bundles
    /\ contexts \in Batches
    /\ pending = contexts
    /\ routes = <<>>
    /\ outcome = Undecided

RenderOneContext ==
    /\ outcome = Undecided
    /\ \E c \in pending : \E rendered \in {RenderFor(authored, c)} :
           /\ pending' = pending \ {c}
           /\ IF rendered = Invalid THEN outcome' = Invalid /\ UNCHANGED routes
              ELSE routes' = (Route(c) :> rendered) @@ routes /\ UNCHANGED outcome
    /\ UNCHANGED <<authored, contexts>>

Combine ==
    /\ outcome = Undecided
    /\ pending = {}
    /\ outcome' = RenderBatch(routes, contexts)
    /\ UNCHANGED <<authored, contexts, pending, routes>>

RenderNext == RenderOneContext \/ Combine
RenderSpec == RenderInit /\ [][RenderNext]_renderVars
-----------------------------------------------------------------------------
Blocked(rendered) == \E n \in rendered.notices : n.kind = "unsupported"
Refuses(rendered, id) == \E n \in rendered.notices : id \in n.about /\ n.kind = "unsupported"

\* What is published for a batch makes the host of every context of it, with
\* everything the other contexts publish next to it, start the servers and run
\* the hooks as they were authored: the same words, variables where variables
\* were authored and nowhere else, the assets where they really are, each hook
\* of an event once; and see the instructions and the skills.
ServedAsAuthored ==
    outcome \notin {Undecided, Invalid} /\ ~Blocked(outcome) =>
        \A c \in contexts : \A a \in authored.artifacts : Served(authored, a, c, outcome.artifacts)

\* What capabilities() denies render refuses: two tables of two modules agree.
FamilyOf(a) ==
    CASE a.kind = "skill" -> "skills" [] a.kind = "instruction" -> "instructions"
      [] a.kind = "mcp" -> "mcp" [] a.kind = "hook" -> "hooks"
CapabilitiesTrue ==
    \A c \in contexts : Route(c) \in DOMAIN routes =>
        \A a \in authored.artifacts :
            a.kind # "native" /\ FamilyOf(a) \notin Offered(c) => Refuses(routes[Route(c)], a.id)

\* A valid bundle and valid contexts give a result, never an error: what cannot
\* be rendered is a notice.  Errors are left for a relocating variable that is
\* not absolute, for a hook that requires another (their common runtime would
\* require itself) and for a stable reference to what is not a whole file.
NeverInvalid ==
    outcome = Invalid =>
        \/ \E c \in contexts : ~Relocatable(c)
        \/ ~Renderable(authored)
=============================================================================
