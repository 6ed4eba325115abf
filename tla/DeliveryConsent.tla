---------------------------- MODULE DeliveryConsent ----------------------------
(***************************************************************************)
(* What acc install and acc uninstall decide about live delivery: whom they *)
(* ask, what they record, which activation they leave, when they prepare a  *)
(* client's service, and which network grants the one sandboxed sender      *)
(* (Codex) has for the one loopback receiver (Kimi).  A command reads the   *)
(* records once, decides, plans, and then applies one client after another; *)
(* any of them may fail and the command may be killed between any two       *)
(* writes.                                                                  *)
(***************************************************************************)
EXTENDS Naturals

CONSTANTS LIVE_POLICIES, \* "off" and the policies that turn live delivery on
          MaxInstalls,   \* bound: commands of a run
          MaxFaults      \* bound: clients that fail, commands that are killed

ASSUME ConsentAssumption ==
  /\ {"off", "actionable"} \subseteq LIVE_POLICIES /\ "none" \notin LIVE_POLICIES
  /\ MaxInstalls \in Nat /\ MaxFaults \in Nat

VARIABLES
  rec,     \* installs.json: the record of each client, or Unrecorded.  "captured":
           \* the recorded version of Codex is one whose permission configuration
           \* is known, neither too old nor unreadable
  grant,   \* Codex's permission profile: "none", "own", "ownLoop" or "custom"
  svc,     \* the Codex service: "bare" (its package is missing and has to be
           \* downloaded), "self" (missing, and the client installs it),
           \* "stopped", "blocked" or "running"
  cmd,     \* the running command
  word,    \* ghost: the user's last recorded word on each client
  slip,    \* ghost: a command that failed or was cut, or Codex's version, may
           \* have left the grants behind
  installs, faults

dvars == <<rec, grant, svc, cmd, word, slip, installs, faults>>

LiveClients == {"codex", "kimi"}
Unrecorded == [policy |-> "off", act |-> "off"]
NoCommand == [pc |-> "idle"]

Decision(source, completeSetup, pre) ==
  [source |-> source, completeSetup |-> completeSetup, pre |-> pre]
legacyDecision == Decision("legacy-unknown", FALSE, "unset")
DELIBERATE_SOURCES ==
  {"interactive-accepted", "interactive-declined", "explicit-option"}

livePolicyOf(r) == r.policy
decisionOf(r) == r.dec

\* recordedLivePolicies: the recorded activation, and never under an off.
Activated(r) == IF livePolicyOf(r) = "off" THEN "off" ELSE r.act

\* receiverLoopback: Kimi declares its listener while its delivery is live.
Loopback(policies) == policies["kimi"] # "off"
RecordedPolicies(records) == [c \in LiveClients |-> Activated(records[c])]
-------------------------------------------------------------------------------
\* A machine where ACC is not installed, or where an older ACC, which asked
\* nothing, left a client on or off.
LegacyRecords == {[policy |-> p, act |-> p, dec |-> legacyDecision, captured |-> known] :
                    p \in LIVE_POLICIES, known \in BOOLEAN}

ConsentInit ==
  /\ rec \in [LiveClients -> {Unrecorded} \cup LegacyRecords]
  /\ rec["kimi"] # Unrecorded => rec["kimi"].captured
  /\ grant = IF rec["codex"].policy = "off" \/ ~rec["codex"].captured THEN "none"
             ELSE IF rec["kimi"].act # "off" THEN "ownLoop" ELSE "own"
  /\ svc \in {"bare", "self", "stopped"}
  /\ cmd = NoCommand
  /\ word = [c \in LiveClients |-> IF rec[c].policy = "off" THEN "none" ELSE "yes"]
  /\ slip = FALSE
  /\ installs = 0 /\ faults = 0

\* For a module that follows another part of the installer.
NoDelivery == ConsentInit /\ rec = [c \in LiveClients |-> Unrecorded] /\ svc = "stopped"

\* detectInstallation: "eligible", "waiting" (consent can be given before the
\* service runs), "no" (unsupported or degraded), "absent", or "guarded" (wired
\* by a newer ACC, so this one will be skipped).
Facts(c) == {IF c = "kimi" \/ svc = "running" THEN "eligible" ELSE "waiting",
             "no", "absent", "guarded"}

isEligible(fact) == fact \in {"eligible", "waiting", "guarded"}
needsPrerequisite(c) == c = "codex" /\ svc = "bare"
needsExpandedSetup(c) == c = "codex" /\ svc \in {"bare", "self", "stopped", "blocked"}

\* A client without a recorded answer, or an opt-in whose setup now asks for
\* more than was agreed to.
Fresh(r) == /\ livePolicyOf(r) = "off"
            /\ r = Unrecorded \/ decisionOf(r).source \notin DELIBERATE_SOURCES
ExpandsLegacyOptIn(c, r) ==
  /\ livePolicyOf(r) # "off" /\ needsExpandedSetup(c) /\ ~decisionOf(r).completeSetup
  /\ ~(needsPrerequisite(c) /\ decisionOf(r).pre = "no")
ExpandsPrerequisite(c, r) ==
  /\ livePolicyOf(r) # "off" /\ needsPrerequisite(c) /\ decisionOf(r).pre = "unset"
Asks(c, r) == Fresh(r) \/ ExpandsLegacyOptIn(c, r) \/ ExpandsPrerequisite(c, r)

\* The service of a client that is absent is not looked at.
ExplicitDecision(c, policy, fact) ==
  Decision("explicit-option", policy # "off",
           IF fact = "absent" \/ ~needsPrerequisite(c) THEN "unset"
           ELSE IF policy # "off" THEN "yes" ELSE "no")

\* The recorded policy, or off.
DefaultPolicy(r, fact) == livePolicyOf(r)

DefaultDecision(r, fact) ==
  IF r # Unrecorded THEN decisionOf(r)
  ELSE Decision(IF isEligible(fact) THEN "noninteractive-default" ELSE "unsupported-default",
                FALSE, "unset")

\* One answer for every client asked about.
Answered(c, r, yes) ==
  LET pre == IF needsPrerequisite(c) THEN IF yes THEN "yes" ELSE "no" ELSE "unset"
  IN [policy |-> IF yes /\ livePolicyOf(r) = "off" THEN "actionable" ELSE livePolicyOf(r),
      dec |-> IF yes THEN Decision("interactive-accepted", TRUE, pre)
              ELSE IF livePolicyOf(r) = "off" THEN Decision("interactive-declined", FALSE, pre)
              ELSE [decisionOf(r) EXCEPT !.pre = IF needsPrerequisite(c) THEN "no" ELSE @]]
-------------------------------------------------------------------------------
\* The command as it stands once delivery is decided: planInstallation turns
\* each client that is not skipped into one operation.
Skipped(act, c, fact, named) ==
  \/ fact = "absent" /\ ~named /\ (act = "uninstall" => rec[c] = Unrecorded)
  \/ act = "uninstall" /\ fact # "absent" /\ rec[c] = Unrecorded /\ ~named
  \/ act = "install" /\ fact = "guarded"

\* The activation an operation leaves: the policy where the client is ready, and
\* where it is not, one already recorded under the same policy is kept.
Activation(c, policy, fact) ==
  IF fact = "eligible" THEN policy
  ELSE IF policy # "off" /\ rec[c].act = policy THEN policy
  ELSE "off"

\* followReceivers: the policies this run will leave, by its own plan.
PlannedPolicies(act, ops, policy, facts) ==
  [c \in LiveClients |-> IF c \notin ops THEN Activated(rec[c])
                     ELSE IF act = "uninstall" THEN "off"
                     ELSE Activation(c, policy[c], facts[c])]

Plan(act, selected, named, facts, captured, policy, dec, told) ==
  LET ops == {c \in selected : ~Skipped(act, c, facts[c], named)}
      leaves == PlannedPolicies(act, ops, policy, facts)
  IN [pc |-> "wire", act |-> act, names |-> "codex" \in selected, ops |-> ops,
      entry |-> [c \in ops |-> [policy |-> policy[c], dec |-> dec[c], act |-> leaves[c],
                                captured |-> c = "codex" => captured]],
      told |-> [c \in ops |-> told[c]],
      plan |-> IF facts["codex"] = "absent" THEN "unseen" ELSE svc,
      loop |-> Loopback(leaves), before |-> Loopback(RecordedPolicies(rec)),
      wrote |-> FALSE, trouble |-> FALSE]

Untold == [c \in LiveClients |-> "nothing"]

BeginCommand == /\ cmd = NoCommand /\ installs < MaxInstalls /\ installs' = installs + 1
         /\ UNCHANGED <<rec, grant, svc, word, slip, faults>>

\* acc install: every known client, or the ones that are named.  captured: of the
\* version that Codex was probed to have, FALSE where none is recorded.
InstallClients(selected, named, facts, captured, explicit, interactive) ==
  /\ BeginCommand
  /\ LET r(c) == rec[c]
         plainPolicy == [c \in LiveClients |-> DefaultPolicy(r(c), facts[c])]
         plainDecision == [c \in LiveClients |-> DefaultDecision(r(c), facts[c])]
         asked == {c \in selected : isEligible(facts[c]) /\ Asks(c, r(c))}
     IN cmd' =
          IF explicit # "none"
          THEN Plan("install", selected, named, facts, captured,
                    [c \in LiveClients |-> explicit],
                    [c \in LiveClients |-> ExplicitDecision(c, explicit, facts[c])],
                    [c \in LiveClients |-> IF explicit = "off" THEN "no" ELSE "yes"])
          ELSE IF asked # {} /\ interactive
          THEN [pc |-> "ask", asked |-> asked,
                then |-> [selected |-> selected, named |-> named, facts |-> facts,
                          captured |-> captured, policy |-> plainPolicy, dec |-> plainDecision]]
          ELSE Plan("install", selected, named, facts, captured, plainPolicy, plainDecision,
                    Untold)

UninstallClients(selected, named, facts) ==
  /\ BeginCommand
  /\ cmd' = Plan("uninstall", selected, named, facts, TRUE, [c \in LiveClients |-> "off"],
                 [c \in LiveClients |-> legacyDecision], Untold)

\* The operator answers; what the machine looked like was read before.
Answer(yes) ==
  /\ cmd.pc = "ask"
  /\ LET t == cmd.then
         a == cmd.asked
     IN cmd' = Plan("install", t.selected, t.named, t.facts, t.captured,
                    [c \in LiveClients |-> IF c \in a THEN Answered(c, rec[c], yes).policy
                                       ELSE t.policy[c]],
                    [c \in LiveClients |-> IF c \in a THEN Answered(c, rec[c], yes).dec
                                       ELSE t.dec[c]],
                    [c \in LiveClients |-> IF c \notin a THEN "nothing"
                                       ELSE IF yes THEN "yes"
                                       ELSE IF rec[c].policy = "off" THEN "no" ELSE "nothing"])
  /\ UNCHANGED <<rec, grant, svc, word, slip, installs, faults>>
-------------------------------------------------------------------------------
CommandAt(pc) == cmd.pc = pc /\ cmd.ops # {}
\* The operations are applied in the order of the ids.
Client == IF "codex" \in cmd.ops THEN "codex" ELSE "kimi"
NextClient == [cmd EXCEPT !.pc = "wire", !.ops = @ \ {Client}]

\* prepareLivePermissions: a profile ACC owns is brought up to date, one it has
\* not written is created for a client that asks for delivery, and a customised
\* one is left, as any is for a version whose configuration was not captured.
Granted(requested, captured, loop) ==
  IF grant = "custom" \/ ~captured \/ (grant = "none" /\ ~requested) THEN grant
  ELSE IF loop THEN "ownLoop" ELSE "own"

\* adapter.install, adapter.uninstall.
Wire ==
  /\ CommandAt("wire")
  /\ grant' = IF Client # "codex" THEN grant
              ELSE IF cmd.act = "install"
              THEN Granted(cmd.entry["codex"].policy # "off", cmd.entry["codex"].captured,
                           cmd.loop)
              ELSE IF grant = "custom" THEN grant ELSE "none"
  /\ cmd' = [cmd EXCEPT !.pc = "record", !.wrote = @ \/ Client = "codex"]
  /\ UNCHANGED <<rec, svc, word, slip, installs, faults>>

\* recordInstall, finalizeRemoval: after the writes.
Record ==
  /\ CommandAt("record")
  /\ LET c == Client
     IN /\ rec' = [rec EXCEPT ![c] =
                     IF cmd.act = "uninstall" THEN Unrecorded ELSE cmd.entry[c]]
        /\ word' = [word EXCEPT ![c] = IF cmd.act = "uninstall" THEN "none"
                                       ELSE IF cmd.told[c] # "nothing" THEN cmd.told[c]
                                       ELSE @]
        /\ cmd' = IF c = "codex" /\ cmd.act = "install" THEN [cmd EXCEPT !.pc = "service"]
                  ELSE NextClient
  /\ UNCHANGED <<grant, svc, slip, installs, faults>>

\* Mutant: the download does not wait for its own consent.
PrerequisiteUnasked == TRUE

\* preparePrerequisite: the download was agreed to.
PrerequisiteAgreed == cmd.entry["codex"].dec.pre = "yes"

\* planInstallation, applyServiceSetup: only under a complete consent.
ServiceWanted == /\ cmd.entry["codex"].policy # "off"
                 /\ cmd.entry["codex"].dec.completeSetup

\* prepareNativeServiceSetup: the machine is as planned, the package may be
\* downloaded, and then the service is started; each may fail.
Service ==
  /\ CommandAt("service")
  /\ \/ /\ ServiceWanted /\ svc = cmd.plan /\ svc # "blocked"
        /\ \/ svc = "bare" /\ PrerequisiteAgreed /\ svc' \in {"bare", "stopped", "running"}
           \/ svc = "bare" /\ ~PrerequisiteAgreed /\ svc' = svc
           \/ svc # "bare" /\ svc' \in {svc, "running"}
     \/ /\ ~ServiceWanted \/ svc # cmd.plan \/ svc = "blocked"
        /\ UNCHANGED svc
  /\ cmd' = NextClient
  /\ UNCHANGED <<rec, grant, word, slip, installs, faults>>

Fault == faults < MaxFaults /\ faults' = faults + 1

\* A client that cannot be written is named in the result; the run goes on.
ClientFails ==
  /\ CommandAt("wire") /\ Fault
  /\ cmd' = [NextClient EXCEPT !.trouble = TRUE]
  /\ UNCHANGED <<rec, grant, svc, word, slip, installs>>

Finished == cmd.pc = "wire" /\ cmd.ops = {}
LoopbackLeft == Loopback(RecordedPolicies(rec))

\* Mutant: a change of the receivers does not reach a sender outside the run.
RefreshedNever == grant

\* refreshSenders: the sender that this run did not name, when what the run
\* recorded changed the receivers, by the version on its record.
Refreshed ==
  IF LoopbackLeft # cmd.before /\ rec["codex"] # Unrecorded /\ ~cmd.names
     /\ grant \in {"own", "ownLoop"}
  THEN Granted(FALSE, rec["codex"].captured, LoopbackLeft)
  ELSE grant

\* Named and yet not written: skipped, so the run did not bring it up to date.
Overlooked == LoopbackLeft # cmd.before /\ cmd.names /\ ~cmd.wrote

\* The receivers changed, and nothing is rewritten for the version of Codex on
\* record: no change and no error is reported.
Uncaptured == rec["codex"] # Unrecorded /\ ~rec["codex"].captured
LeftAsItWas == LoopbackLeft # cmd.before /\ Uncaptured /\ grant \in {"own", "ownLoop"}

FinishCommand ==
  /\ Finished
  /\ grant' = Refreshed
  /\ slip' = IF cmd.trouble \/ Overlooked \/ LeftAsItWas THEN TRUE
             ELSE IF cmd.wrote /\ ~Uncaptured THEN FALSE ELSE slip
  /\ cmd' = NoCommand
  /\ UNCHANGED <<rec, svc, word, installs, faults>>

\* The sender's file cannot be written: reported, and the run is over.
RefreshFails ==
  /\ Finished /\ Refreshed # grant /\ Fault
  /\ slip' = TRUE
  /\ cmd' = NoCommand
  /\ UNCHANGED <<rec, grant, svc, word, installs>>

Kill ==
  /\ cmd # NoCommand /\ Fault
  /\ slip' = (slip \/ cmd.pc # "ask")
  /\ cmd' = NoCommand
  /\ UNCHANGED <<rec, grant, svc, word, installs>>
-------------------------------------------------------------------------------
\* The user makes a profile their own, or takes it out again.
EditProfile ==
  /\ cmd = NoCommand
  /\ grant' = IF grant = "custom" THEN "none" ELSE "custom"
  /\ UNCHANGED <<rec, svc, cmd, word, slip, installs, faults>>

\* The service comes and goes and its package may be removed, also between the
\* plan and its preparation.
ServiceChanges ==
  /\ cmd.pc \in {"idle", "service"}
  /\ svc' \in CASE svc = "bare" -> {"stopped"}
                [] svc = "self" -> {"running"}
                [] svc = "stopped" -> {"running", "blocked", "bare"}
                [] svc = "running" -> {"stopped"}
                [] svc = "blocked" -> {"stopped"}
  /\ UNCHANGED <<rec, grant, cmd, word, slip, installs, faults>>

ConsentNext ==
  \/ \E selected \in {{"codex"}, {"kimi"}, LiveClients}, facts \in [LiveClients ->
            Facts("codex") \cup Facts("kimi")] :
       LET named == selected # LiveClients
       IN /\ cmd = NoCommand
          /\ \A c \in LiveClients : facts[c] \in Facts(c)
          /\ \A c \in LiveClients \ selected : facts[c] = "absent"
          /\ \/ \E explicit \in {"none"} \cup LIVE_POLICIES, interactive, captured \in BOOLEAN :
                  /\ facts["codex"] \in {"absent", "guarded"} => ~captured
                  /\ InstallClients(selected, named, facts, captured, explicit, interactive)
             \/ UninstallClients(selected, named, facts)
  \/ \E yes \in BOOLEAN : cmd # NoCommand /\ Answer(yes)
  \/ cmd # NoCommand /\ cmd.pc # "ask"
     /\ (Wire \/ Record \/ Service \/ ClientFails \/ FinishCommand \/ RefreshFails)
  \/ Kill
  \/ EditProfile
  \/ ServiceChanges

ConsentSpec == ConsentInit /\ [][ConsentNext]_dvars
-------------------------------------------------------------------------------
\* Live delivery runs for a client only after the user said yes to it and has
\* not said no since, whatever was reinstalled, upgraded, skipped, failed or
\* killed in between; and a recorded no is not asked about again.
LiveByConsent ==
  /\ \A c \in LiveClients : Activated(rec[c]) # "off" => word[c] = "yes"
  /\ cmd.pc = "ask" => \A c \in cmd.asked : word[c] # "no"

\* The package of a vendor's service is downloaded only after the user agreed
\* to that download and to the live delivery it serves.
DownloadByConsent ==
  [][(svc = "bare" /\ svc' # "bare" /\ cmd # cmd') =>
       /\ word["codex"] = "yes"
       /\ rec["codex"].dec.pre = "yes"]_dvars

\* The sender's loopback grant follows the receiver's recorded delivery after
\* every command that ends, named clients or not.  The exceptions are the code's
\* own and last until Codex is written again: a client failed or was passed over,
\* a command was cut short, or the receiver changed while Codex stood recorded
\* with a version that is unreadable or too old for its profile to be rewritten.
GrantsFollow ==
  (cmd = NoCommand /\ ~slip) =>
     /\ grant = "ownLoop" => Loopback(RecordedPolicies(rec))
     /\ grant = "own" => ~Loopback(RecordedPolicies(rec))

\* What a command leaves is what was agreed to: live delivery itself, and the
\* grant its senders were given for it.
ConsentHolds == LiveByConsent /\ GrantsFollow
===============================================================================
