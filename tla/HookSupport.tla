----------------------------- MODULE HookSupport -----------------------------
(***************************************************************************)
(* Which hooks a host can have: the outcomes it preserves for an event,    *)
(* and why a hook that declares others is refused (supported of            *)
(* hook_translation.rs, one half of the table bridge.mts is the other of). *)
(***************************************************************************)
EXTENDS Naturals, Sequences, FiniteSets

NativeHosts == {"claude", "codex", "cursor", "copilot"}
EmbeddedHosts == {"pi", "opencode"}
Hosts == NativeHosts \cup EmbeddedHosts

\* Mutant of PossibleOutcomes: every host asks.
AskAnywhere(agent, event) ==
    CASE event = "before-tool" -> {"continue", "block", "ask", "modify-input"}
      [] event = "after-tool" -> {"continue", "context"}
      [] OTHER -> {"continue"}

\* supported: the outcomes an agent can preserve for an event.
PossibleOutcomes(agent, event) ==
    LET when(outcome, agents) == IF agent \in agents THEN {outcome} ELSE {}
    IN  CASE event = "before-tool" ->
                {"continue", "block", "modify-input"}
                \cup when("ask", {"claude", "copilot"}) \cup when("context", {"claude", "codex"})
          [] event = "after-tool" -> {"continue", "context"}
          [] event = "session-start" -> {"continue"} \cup when("context", NativeHosts)
          [] event = "prompt" ->
                when("continue", Hosts \ {"opencode"}) \cup when("block", {"claude", "codex", "cursor"})
                \cup when("context", {"claude", "codex"}) \cup when("modify-input", {"pi"})
          [] OTHER -> when("continue", Hosts \ {"opencode"})

\* Two names of an environment that are one name on Windows; folded is the
\* sequence of its names in lower case.
NamesCollide(platform, folded) ==
    platform = "windows" /\ \E i, j \in DOMAIN folded : i # j /\ folded[i] = folded[j]

\* supported: the code of the refusal, if there is one.
Supported == ""

\* Mutant of UnsupportedHook: VS Code is taken for Copilot CLI.
UnsupportedOnAnySurface(agent, surface, platform, event, outcomes, folded) ==
    CASE agent \notin Hosts -> "agent-unsupported"
      [] ~(outcomes \subseteq PossibleOutcomes(agent, event)) -> "hook-outcome"
      [] OTHER -> Supported

UnsupportedHook(agent, surface, platform, event, outcomes, folded) ==
    CASE agent \notin Hosts -> "agent-unsupported"
      [] surface = "vscode" -> "hook-surface"
      [] event = "before-tool" /\ "modify-input" \in outcomes /\ agent \in {"codex", "cursor"} ->
            "hook-modification-approval"
      [] ~(outcomes \subseteq PossibleOutcomes(agent, event)) -> "hook-outcome"
      [] NamesCollide(platform, folded) -> "windows-env-collision"
      [] OTHER -> Supported
=============================================================================
