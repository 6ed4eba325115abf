------------------------ MODULE NativeDeliveryProof ------------------------
(***************************************************************************)
(* Proofs about native delivery: what is recorded about endpoints agrees   *)
(* with what is published, a retirement is final, and a message arrives    *)
(* once and as often as its senders are told.                              *)
(***************************************************************************)
EXTENDS NativeDelivery, TLAPS

\* An endpoint record is written once, under a number of its own, and names the
\* client process it was written for.
EndpointsBorn ==
    /\ \A e \in 1 .. Len(born) : born[e] <= client.inc
    /\ \A e \in Ids : eps[e] # None => e <= Len(born) /\ eps[e] = born[e]

\* Who has which endpoint in hand.
EndpointsHeld ==
    /\ binding # None => binding.ep <= Len(born)
    /\ late \in Ids => late <= Len(born) /\ late # hook.ep /\ (binding # None => binding.ep # late)
    /\ hook.ep # None => hook.ep <= Len(born) /\ hook.pc \in {"answer", "publish", "recheck"}
    /\ hook.pc \in {"answer", "publish"} =>
           hook.ep # None /\ (binding # None => binding.ep # hook.ep)
    /\ hook.pc = "recheck" => binding # None /\ binding.ep = hook.ep

\* What a hook observed is still published when it clears and cleans up.
PriorHeld ==
    /\ hook.prior # None =>
           hook.pc \in {"clear", "cleanup"} /\ Retires /\ binding # None /\ binding.ep = hook.prior
    /\ hook.pc = "observe" => Retires
    /\ hook.pc = "clear" /\ hook.prior = None /\ Retires => binding = None
    /\ hook.pc = "cleanup" => hook.prior # None /\ binding.retired

\* A hook asks for a new endpoint when the old one is gone or left behind.
OldEndpointGone ==
    hook.pc \in {"bind", "answer", "publish"} /\ binding # None /\ Retires =>
        eps[binding.ep] = None \/ binding.ep \in left

\* What a hook is about to publish is on disk, or its client process is gone.
AnswerKept ==
    hook.pc \in {"answer", "publish"} /\ Retires /\ eps[hook.ep] = None =>
        kind # "codex" /\ ~(client.up /\ born[hook.ep] = client.inc)

\* Offers are about endpoints that were written, and so are arrivals.
OffersBorn ==
    /\ \A r \in Routers : router[r].pc # "idle" =>
           router[r].ep # None /\ router[r].ep <= Len(born)
    /\ \A r \in Routers : router[r].said # None => router[r].pc = "done"
    /\ \A e \in Ids : arrived[e] > 0 => e <= Len(born)

\* A wake that is recorded as queued was taken.
QueuedReached == \A e \in Ids : marks[e] = "queued" => \E d \in Ids : arrived[d] > 0

\* The senders at work on an endpoint.
AtWork(e) == {q \in Routers : router[q].pc \notin {"idle", "done"} /\ router[q].ep = e}

\* The marker of Claude's inbox: one sender at a time, and none after an arrival.
InboxOnce ==
    kind = "claude" => \A e \in Ids : e \notin unsure /\ eps[e] # None =>
        /\ \A q, r \in Sending(e) : q = r
        /\ Sending(e) # {} => marks[e] # None /\ arrived[e] = 0
        /\ arrived[e] > 0 => marks[e] # None
        /\ arrived[e] <= 1

\* The receipt: once an endpoint took the message nobody offers it there.
ReceiptOnce ==
    kind \in {"codex", "desktop"} => \A e \in Ids : e \notin unsure /\ arrived[e] > 0 =>
        /\ arrived[e] = 1 /\ AtWork(e) = {}
        /\ \E r \in Routers : router[r].said = "accepted"

\* Kimi's prompt id.
PromptOnce == kind = "kimi" => \A e \in Ids : arrived[e] <= 1

(***************************************************************************)
(* Types, with the set each variable ranges over under a name of its own.  *)
(***************************************************************************)
Bindings == Maybe([ep : Ids, live : BOOLEAN, retired : BOOLEAN])
\* The values of the variables.
Hooks == [pc : HookPcs, goal : {None, "bind", "off", "end", "fail"},
          prior : Maybe(Ids), ep : Maybe(Ids)]
Offers == [pc : RouterPcs, ep : Maybe(Ids), said : {None, "accepted", "refused"}]
Records == [Ids -> Maybe(1..MaxInc)]
Markers == [Ids -> {None, "claimed", "queued", "ambiguous"}]
Clients == [inc : 1..MaxInc, up : BOOLEAN, here : BOOLEAN]
Standings == [replaced : BOOLEAN, open : BOOLEAN]
Births == {b \in Seq(1..MaxInc) : Len(b) <= MaxEps}

\* The type invariant, with the values named.
Typed ==
    /\ kind \in Kinds /\ consent \in BOOLEAN /\ sess \in Standings /\ client \in Clients
    /\ binding \in Bindings /\ eps \in Records /\ born \in Births /\ hook \in Hooks
    /\ late \in Maybe(Ids \cup {0}) /\ faults \in 0..MaxFaults /\ router \in [Routers -> Offers]
    /\ marks \in Markers /\ arrived \in [Ids -> Nat] /\ unsure \subseteq Ids /\ left \subseteq Ids

\* The type invariant is this one.
LEMMA TypedIs == TypeOK <=> Typed
  BY DEF TypeOK, Typed, Bindings, Hooks, Offers, Records, Markers, Clients, Standings, Births

\* The initial state is typed.
LEMMA InitTyped == Init => TypeOK
  BY NativeAssumption DEF Init, TypeOK, Ids, Maybe, Idle, Off, HookPcs, RouterPcs

\* Counting a fault keeps the bound.
LEMMA FaultTyped == faults \in 0..MaxFaults /\ (Fault \/ Fine) => faults' \in 0..MaxFaults
  BY NativeAssumption DEF Fault, Fine

\* An idle hook, and one that goes on.
LEMMA HookValues ==
    /\ Idle \in Hooks
    /\ \A g \in {"bind", "off", "end", "fail"} : [Idle EXCEPT !.pc = Retiring, !.goal = g] \in Hooks
  BY DEF Idle, Hooks, HookPcs, Maybe, Retiring

\* A hook moves to another step of its own.
LEMMA HookMoves ==
    ASSUME hook \in Hooks
    PROVE  /\ \A p \in HookPcs : [hook EXCEPT !.pc = p] \in Hooks
           /\ \A p \in HookPcs, x \in Maybe(Ids) : [hook EXCEPT !.pc = p, !.prior = x] \in Hooks
           /\ \A p \in HookPcs, x \in Maybe(Ids) : [hook EXCEPT !.pc = p, !.ep = x] \in Hooks
           /\ Retired \in Hooks /\ NotRetired \in Hooks
  <1>1. \A p \in HookPcs, x \in Maybe(Ids) : [hook EXCEPT !.pc = p, !.prior = x] \in Hooks
    BY DEF Hooks
  <1>2. Retired \in Hooks
    BY <1>1 DEF Retired, HookPcs, Maybe
  <1> QED
    BY <1>1, <1>2, HookValues DEF Hooks, NotRetired

\* Removing an endpoint record keeps the types.
LEMMA RemoveTyped ==
    ASSUME eps \in Records, marks \in Markers, NEW e \in Ids, Remove(e)
    PROVE  eps' \in Records /\ marks' \in Markers
  BY DEF Records, Markers, Remove, Maybe

\* Writing one keeps them too.
LEMMA WrittenTyped ==
    ASSUME eps \in Records, marks \in Markers, born \in Births, client \in Clients,
           Fresh \in Ids, Written
    PROVE  eps' \in Records /\ marks' \in Markers /\ born' \in Births
  <1>1. client.inc \in 1..MaxInc
    BY DEF Clients
  <1>2. eps' \in Records
    BY <1>1 DEF Records, Written, Maybe
  <1>3. marks' \in Markers
    BY DEF Markers, Written
  <1>4. born' \in Births
    BY <1>1, NativeAssumption DEF Births, Written, Fresh, Ids
  <1> QED
    BY <1>2, <1>3, <1>4

\* Clearing a binding keeps its type.
LEMMA ClearTyped ==
    ASSUME binding \in Bindings, NEW e, ClearBinding(e)
    PROVE  binding' \in Bindings
  BY DEF Bindings, Maybe, ClearBinding, Live

\* A sender's next step.
LEMMA OfferMoves ==
    ASSUME router \in [Routers -> Offers], NEW r \in Routers
    PROVE  /\ \A p \in RouterPcs : Goes(r, p) => router' \in [Routers -> Offers]
           /\ \A w \in {"accepted", "refused"} : Told(r, w) => router' \in [Routers -> Offers]
  BY DEF Offers, Goes, Told, RouterPcs

\* The client gets the message.
LEMMA ReachesTyped ==
    ASSUME arrived \in [Ids -> Nat], NEW e \in Ids, Reaches(e)
    PROVE  arrived' \in [Ids -> Nat]
  BY DEF Reaches

\* The records the steps of a hook name are records.
LEMMA Held ==
    /\ binding \in Bindings /\ binding # None => binding.ep \in Ids
    /\ hook \in Hooks => hook.ep \in Maybe(Ids) /\ hook.prior \in Maybe(Ids)
    /\ \A r \in Routers : router \in [Routers -> Offers] => router[r].ep \in Maybe(Ids)
  BY DEF Bindings, Hooks, Maybe, Offers

(***************************************************************************)
(* Every step keeps the types.                                             *)
(***************************************************************************)
\* A hook that was answered has an endpoint, one that cleans up has a prior one.
LEMMA InHand ==
    ASSUME Typed, EndpointsHeld, PriorHeld
    PROVE  /\ hook.pc \in {"answer", "publish"} => hook.ep \in Ids
           /\ hook.pc = "cleanup" => hook.prior \in Ids
           /\ binding # None => binding.ep \in Ids
  BY Held DEF EndpointsHeld, PriorHeld, Typed, Maybe

\* The hook's steps keep the types.
LEMMA HookTyped ==
    ASSUME Typed, EndpointsHeld, PriorHeld, HookStep
    PROVE  Typed'
  <1> USE InHand, HookMoves, HookValues DEF Typed
  <1>1. CASE HookBegin
    BY <1>1 DEF HookBegin
  <1>2. CASE Observe
    <2> DEFINE seen == IF binding = None THEN None ELSE binding.ep
    <2>1. "clear" \in HookPcs /\ seen \in Maybe(Ids)
      BY DEF HookPcs, Maybe
    <2>2. [hook EXCEPT !.pc = "clear", !.prior = seen] \in Hooks
      <3> HIDE DEF seen
      <3> QED
        BY <2>1
    <2>3. hook' \in Hooks
      BY <1>2, <2>2 DEF Observe
    <2> QED
      BY <1>2, <2>3, FaultTyped DEF Observe
  <1>3. CASE Clear
    <2>1. binding' \in Bindings
      BY <1>3, ClearTyped DEF Clear
    <2>2. hook' \in Hooks
      BY <1>3 DEF Clear, HookPcs
    <2>3. left' \subseteq Ids
      BY <1>3 DEF Clear, ClearBinding, Live
    <2>4. faults' \in 0..MaxFaults
      BY <1>3, FaultTyped DEF Clear
    <2> QED
      BY <1>3, <2>1, <2>2, <2>3, <2>4 DEF Clear
  <1>4. CASE Cleanup
    <2>1. eps' \in Records /\ marks' \in Markers
      BY <1>4, RemoveTyped DEF Cleanup
    <2> QED
      BY <1>4, <2>1, FaultTyped DEF Cleanup
  <1>5. CASE BindRefused
    BY <1>5 DEF BindRefused
  <1>6. CASE Bind
    <2>1. eps' \in Records /\ marks' \in Markers /\ born' \in Births
      BY <1>6, WrittenTyped DEF Bind
    <2>2. hook' \in Hooks
      BY <1>6 DEF Bind, HookPcs, Maybe
    <2> QED
      BY <1>6, <2>1, <2>2 DEF Bind
  <1>7. CASE BindTimesOut
    <2>1. late' \in Maybe(Ids \cup {0})
      BY <1>7 DEF BindTimesOut, Maybe
    <2> QED
      BY <1>7, <2>1, FaultTyped DEF BindTimesOut
  <1>8. CASE LateWrites
    <2>1. eps' \in Records /\ marks' \in Markers /\ born' \in Births
      BY <1>8, WrittenTyped DEF LateWrites
    <2> QED
      BY <1>8, <2>1 DEF LateWrites, Maybe
  <1>9. CASE LateDiscard
    <2>1. late' \in Maybe(Ids \cup {0})
      BY <1>9 DEF LateDiscard, Maybe
    <2>2. eps' \in Records /\ marks' \in Markers
      BY <1>9, RemoveTyped DEF LateDiscard, Maybe
    <2> QED
      BY <1>9, <2>1, <2>2 DEF LateDiscard
  <1>10. CASE AnswerRefused
    <2>1. eps' \in Records /\ marks' \in Markers
      BY <1>10, RemoveTyped DEF AnswerRefused
    <2> QED
      BY <1>10, <2>1 DEF AnswerRefused
  <1>11. CASE AnswerExpired
    BY <1>11, FaultTyped DEF AnswerExpired
  <1>12. CASE Answer
    BY <1>12 DEF Answer, HookPcs
  <1>13. CASE Publish
    <2>1. binding' \in Bindings
      <3>1. hook.ep \in Ids => [ep |-> hook.ep, live |-> TRUE, retired |-> FALSE] \in Bindings
        BY DEF Bindings, Maybe
      <3> QED
        BY <1>13, <3>1 DEF Publish
    <2>2. hook' \in Hooks
      BY <1>13 DEF Publish, HookPcs
    <2> QED
      BY <1>13, <2>1, <2>2 DEF Publish
  <1>14. CASE Recheck
    BY <1>14 DEF Recheck
  <1>15. CASE Close
    <2>1. binding' \in Bindings
      BY <1>15, ClearTyped DEF Close
    <2>2. sess' \in Standings
      BY <1>15 DEF Close, Standings
    <2>3. left' \subseteq Ids
      BY <1>15 DEF Close, Live
    <2> QED
      BY <1>15, <2>1, <2>2, <2>3 DEF Close
  <1> QED
    BY <1>1, <1>2, <1>3, <1>4, <1>5, <1>6, <1>7, <1>8, <1>9, <1>10, <1>11, <1>12, <1>13, <1>14,
       <1>15 DEF HookStep

\* So do a sender's.
LEMMA RouterTyped ==
    ASSUME Typed, OffersBorn, NEW r \in Routers, RouterStep(r) \/ SenderKilled(r)
    PROVE  Typed'
  <1> USE OfferMoves DEF Typed
  <1>p. {"check", "verify", "refresh", "offer", "send", "claim"} \subseteq RouterPcs
    BY DEF RouterPcs
  <1>e. ~At(r, "idle") => router[r].ep \in Ids
    BY Held DEF OffersBorn, At, Maybe
  <1>s. At(r, "send") => router[r].ep \in Ids
    BY <1>e DEF At
  <1>1. CASE Snapshot(r)
    <2>1. router' \in [Routers -> Offers]
      <3>1. binding.ep \in Maybe(Ids)
        BY <1>1, Held DEF Snapshot, Live, Maybe
      <3>2. PICK p \in RouterPcs :
              router' = [router EXCEPT ![r].ep = binding.ep, ![r].pc = p]
        BY <1>1 DEF Snapshot, RouterPcs
      <3> QED
        BY <1>p, <3>1, <3>2 DEF Offers
    <2> QED
      BY <1>1, <2>1 DEF Snapshot
  <1>2. CASE VerifyExpired(r)
    BY <1>2, <1>p DEF VerifyExpired
  <1>3. CASE Refresh(r)
    <2>1. binding' \in Bindings
      BY <1>3 DEF Refresh, Live, Bindings, Maybe
    <2> QED
      BY <1>3, <2>1, <1>p DEF Refresh
  <1>4. CASE LastLook(r)
    BY <1>4, <1>p DEF LastLook
  <1>5. CASE OfferVerifies(r)
    BY <1>5, <1>p DEF OfferVerifies
  <1>6. ASSUME NEW w \in {"accepted", "refused"}, ClaimWake(r, w) PROVE Typed'
    <2>1. marks' \in Markers
      BY <1>6 DEF ClaimWake, Markers
    <2> QED
      BY <1>6, <2>1, <1>p DEF ClaimWake
  <1>7. CASE InboxClaim(r) \/ WebClaim(r)
    BY <1>6, <1>7 DEF InboxClaim, WebClaim, InboxDuplicate, WakeOutcome
  <1>8. CASE QueueLook(r)
    BY <1>8, <1>p DEF QueueLook
  <1>9. Overlapping(r) \subseteq Ids
    BY Held DEF Overlapping, OffersBorn, Maybe
  <1>10. \A w : Outcome(router[r].ep, w) /\ w \in {"queued", "ambiguous"} => marks' \in Markers
    BY DEF Outcome, Markers
  <1>11. ASSUME Taken(r), marks' \in Markers, unsure' \subseteq Ids PROVE Typed'
    <2>1. arrived' \in [Ids -> Nat] /\ router' \in [Routers -> Offers]
      BY <1>11, <1>s, ReachesTyped DEF Taken
    <2> QED
      BY <1>11, <2>1 DEF Taken
  <1>12. CASE InboxWritten(r)
    BY <1>11, <1>12 DEF InboxWritten
  <1>13. CASE PromptSubmitted(r)
    BY <1>10, <1>11, <1>13 DEF PromptSubmitted
  <1>14. CASE QueueAdded(r) \/ DesktopSent(r)
    BY <1>9, <1>11, <1>14 DEF QueueAdded, DesktopSent
  <1>15. ASSUME Unanswered(r), marks' \in Markers PROVE Typed'
    <2>1. arrived' \in [Ids -> Nat] /\ router' \in [Routers -> Offers] /\ unsure' \subseteq Ids
      BY <1>15, <1>s, ReachesTyped DEF Unanswered
    <2> QED
      BY <1>15, <2>1, FaultTyped DEF Unanswered
  <1>16. [marks EXCEPT ![router[r].ep] = None] \in Markers
    BY DEF Markers
  <1>17. CASE SendRefused(r)
    BY <1>16, <1>17 DEF SendRefused
  <1>18. CASE PromptUnanswered(r) \/ SendUnanswered(r)
    BY <1>10, <1>15, <1>16, <1>18 DEF PromptUnanswered, SendUnanswered
  <1>19. CASE SenderKilled(r)
    <2>1. arrived' \in [Ids -> Nat] /\ unsure' \subseteq Ids
      BY <1>19, <1>s, ReachesTyped DEF SenderKilled
    <2>2. router' \in [Routers -> Offers]
      BY <1>19 DEF SenderKilled, Off, Offers, Maybe, RouterPcs
    <2> QED
      BY <1>19, <2>1, <2>2, FaultTyped DEF SenderKilled
  <1> QED
    BY <1>1, <1>2, <1>3, <1>4, <1>5, <1>7, <1>8, <1>12, <1>13, <1>14, <1>17, <1>18, <1>19
       DEF RouterStep

\* The steps of the clients, the clock and the faults.
EnvironmentStep ==
    ClientRestarts \/ ClientExits \/ Flips \/ LeaseExpires \/ HookKilled \/ LateKilled

\* And those of the environment.
LEMMA EnvironmentTyped ==
    ASSUME Typed, EndpointsHeld, PriorHeld, EnvironmentStep
    PROVE  Typed'
  <1> USE FaultTyped DEF Typed
  <1>1. CASE ClientRestarts
    BY <1>1, NativeAssumption DEF ClientRestarts, Clients
  <1>2. CASE ClientExits
    BY <1>2 DEF ClientExits, Clients
  <1>3. CASE Flips
    <2>1. client' \in Clients
      BY <1>3 DEF Flips, Clients
    <2>2. sess' \in Standings /\ consent' \in BOOLEAN
      BY <1>3 DEF Flips, Standings
    <2> QED
      BY <1>3, <2>1, <2>2 DEF Flips
  <1>4. CASE LeaseExpires
    <2>1. binding' \in Bindings
      BY <1>4 DEF LeaseExpires, Live, Bindings, Maybe
    <2> QED
      BY <1>4, <2>1 DEF LeaseExpires
  <1>5. CASE HookKilled
    <2>1. {hook.ep, hook.prior} \ {None} \subseteq Ids
      BY Held DEF Maybe
    <2> QED
      BY <1>5, <2>1, HookValues DEF HookKilled
  <1>6. CASE LateKilled
    BY <1>6 DEF LateKilled, Maybe
  <1> QED
    BY <1>1, <1>2, <1>3, <1>4, <1>5, <1>6 DEF EnvironmentStep

(***************************************************************************)
(* Endpoints: what is written, published, in somebody's hands or left.     *)
(***************************************************************************)
EndpointInv ==
    /\ EndpointsBorn /\ EndpointsHeld /\ PriorHeld /\ OldEndpointGone
    /\ AnswerKept /\ PublishedEndpointKept /\ EndpointsAccounted

\* Steps of senders and of the client leave the endpoints' records alone: a
\* refresh or an expiry moves the lease, and a client that starts is a new one.
LEMMA EndpointFrame ==
    ASSUME Typed, EndpointInv, Typed',
           UNCHANGED <<kind, eps, born, hook, late, left>>,
           \/ client'.inc = client.inc /\ (client'.up => client.up)
           \/ client'.inc > client.inc,
           \/ binding' = binding
           \/ /\ binding # None /\ binding' # None
              /\ binding'.ep = binding.ep /\ binding'.retired = binding.retired
    PROVE  EndpointInv'
  <1> USE DEF EndpointInv
  <1>1. client.inc \in Nat /\ client'.inc \in Nat /\ \A e \in 1..Len(born) : born[e] \in Nat
    BY NativeAssumption DEF Typed, Clients, Births
  <1>2. binding # None => binding.ep \in 1..Len(born)
    BY Held, NativeAssumption DEF Typed, EndpointsHeld, Ids, Births
  <1>3. EndpointsBorn'
    BY <1>1 DEF EndpointsBorn
  <1>4. EndpointsHeld' /\ PriorHeld' /\ OldEndpointGone' /\ EndpointsAccounted'
    BY DEF EndpointsHeld, PriorHeld, OldEndpointGone, EndpointsAccounted, Retires
  <1>5. PublishedEndpointKept'
    BY <1>1, <1>2 DEF PublishedEndpointKept, Live, Retires, EndpointsBorn
  <1>6. hook.pc \in {"answer", "publish"} => hook.ep \in 1..Len(born)
    BY Held, NativeAssumption DEF Typed, EndpointsHeld, Ids, Births, Maybe
  <1>7. AnswerKept'
    BY <1>1, <1>6 DEF AnswerKept, Retires, EndpointsBorn
  <1> QED
    BY <1>3, <1>4, <1>5, <1>7

\* What a hook goes on with after a retirement, observed or not.
LEMMA HookGoesOn ==
    ASSUME hook \in Hooks
    PROVE  /\ Retired.pc \in {"bind", "close", "idle"} /\ Retired.prior = None
           /\ Retired.ep = hook.ep
           /\ NotRetired.pc \in {"close", "idle"} /\ NotRetired.prior = None
           /\ NotRetired.ep \in {None, hook.ep}
  <1>1. Retired.pc \in {"bind", "close", "idle"} /\ Retired.prior = None /\ Retired.ep = hook.ep
    BY DEF Retired, Hooks
  <1>2. hook.goal = "end" => Retired.pc = "close"
    BY DEF Retired, Hooks
  <1> QED
    BY <1>1, <1>2 DEF NotRetired, Idle

\* A published binding is not nothing.
LEMMA BindingThere ==
    /\ \A b \in [ep : Ids, live : BOOLEAN, retired : BOOLEAN] : b # None
    /\ \A e \in Ids : [ep |-> e, live |-> TRUE, retired |-> FALSE] # None
  <1>1. ASSUME NEW b \in [ep : Ids, live : BOOLEAN, retired : BOOLEAN] PROVE b # None
    <2>1. b \in [ep : Nat, live : BOOLEAN, retired : BOOLEAN]
      BY NativeAssumption DEF Ids
    <2> QED
      BY <2>1, NativeAssumption
  <1> QED
    BY <1>1

\* Clearing a binding retires it or leaves it, and keeps its endpoint.
LEMMA ClearedIs ==
    ASSUME binding \in Bindings
    PROVE  \A e : ClearBinding(e) =>
               /\ binding = None <=> binding' = None
               /\ binding # None => /\ binding'.ep = binding.ep
                                    /\ binding' = binding \/ binding'.retired
                                    /\ binding.ep = e => binding'.retired
  BY BindingThere DEF Bindings, Maybe, ClearBinding, Live

\* A removal takes one record, of an adapter that retires its endpoints.
LEMMA RemovedIs ==
    ASSUME eps \in Records, NEW e \in Ids, Remove(e)
    PROVE  \A d \in Ids : eps'[d] = IF d = e /\ Retires THEN None ELSE eps[d]
  BY DEF Remove, Records

\* A bind writes one record and takes the swept ones.
LEMMA WrittenIs ==
    ASSUME born \in Births, Fresh \in Ids, Written
    PROVE  /\ Fresh = Len(born) + 1 /\ Len(born') = Fresh /\ born'[Fresh] = client.inc
           /\ \A d \in 1..Len(born) : born'[d] = born[d]
           /\ eps'[Fresh] = client.inc
           /\ \A d \in Ids \ {Fresh} : eps'[d] = eps[d] \/ (eps'[d] = None /\ d \in Swept)
  <1>1. Fresh = Len(born) + 1 /\ born \in Seq(1..MaxInc)
    BY DEF Births, Fresh
  <1>2. Len(born') = Fresh /\ born'[Fresh] = client.inc
    BY <1>1 DEF Written
  <1>3. \A d \in 1..Len(born) : born'[d] = born[d]
    BY <1>1 DEF Written
  <1>4. \A d \in Ids : eps'[d] = IF d = Fresh THEN client.inc
                                 ELSE IF d \in Swept THEN None ELSE eps[d]
    BY DEF Written
  <1>5. eps'[Fresh] = client.inc
    BY <1>4
  <1>6. \A d \in Ids \ {Fresh} : eps'[d] = eps[d] \/ (eps'[d] = None /\ d \in Swept)
    <2> SUFFICES ASSUME NEW d \in Ids \ {Fresh}
                 PROVE  eps'[d] = eps[d] \/ (eps'[d] = None /\ d \in Swept)
      OBVIOUS
    <2>1. eps'[d] = IF d \in Swept THEN None ELSE eps[d]
      BY <1>4
    <2> QED
      BY <2>1
  <1> QED
    BY <1>1, <1>2, <1>3, <1>5, <1>6

\* Records are swept when their process is gone; the desktop keeps one only.
LEMMA SweptIs ==
    ASSUME kind \in Kinds
    PROVE  \A d \in Ids : d \in Swept =>
               /\ eps[d] # None
               /\ Retires => kind # "codex" /\ ~(client.up /\ eps[d] = client.inc)
  BY NativeAssumption DEF Swept, DeadInboxes, DeadServers, OlderOfConversation, SessionRecord,
     ServerInstance, Retires

\* A hook that begins holds nothing.
LEMMA HookBeginEndpoints ==
    ASSUME Typed, EndpointInv, HookBegin
    PROVE  EndpointInv'
  <1> USE NativeAssumption, InHand, Held DEF EndpointInv
  <1>1. EndpointsBorn' /\ PublishedEndpointKept'
    BY DEF HookBegin, EndpointsBorn, PublishedEndpointKept, Live, Retires
  <1>2. EndpointsHeld'
    BY DEF HookBegin, Idle, Retiring, EndpointsHeld, PriorHeld, Typed, Ids, Maybe
  <1>3. PriorHeld'
    BY DEF HookBegin, Idle, Retiring, PriorHeld, EndpointsHeld, Retires, Typed, Ids, Maybe
  <1>4. OldEndpointGone'
    BY DEF HookBegin, Idle, Retiring, OldEndpointGone, EndpointsHeld, PriorHeld, Retires, Typed,
       Ids, Maybe
  <1>5. AnswerKept'
    BY DEF HookBegin, Idle, Retiring, AnswerKept, EndpointsHeld, EndpointsBorn, Retires, Typed,
       Ids, Maybe
  <1>6. EndpointsAccounted'
    BY DEF HookBegin, Idle, Retiring, EndpointsAccounted, EndpointsHeld, PriorHeld,
       OldEndpointGone, Retires, Typed, Ids, Maybe
  <1> QED
    BY <1>1, <1>2, <1>3, <1>4, <1>5, <1>6

\* What a hook observes is what is published.
LEMMA ObserveEndpoints ==
    ASSUME Typed, EndpointInv, Observe
    PROVE  EndpointInv'
  <1> USE NativeAssumption, InHand, Held DEF EndpointInv
  <1>h. /\ hook'.ep \in {None, hook.ep}
        /\ \/ hook'.pc = "clear" /\ hook'.prior = IF binding = None THEN None ELSE binding.ep
           \/ hook'.pc \in {"close", "idle"} /\ hook'.prior = None
    BY HookGoesOn DEF Observe, Typed, Hooks
  <1>u. hook.pc = "observe" /\ UNCHANGED <<kind, client, binding, eps, born, late, left>>
    BY DEF Observe
  <1>r. hook.pc = "observe" => Retires
    BY DEF PriorHeld
  <1>1. EndpointsBorn' /\ PublishedEndpointKept'
    BY DEF Observe, EndpointsBorn, PublishedEndpointKept, Live, Retires
  <1>2. EndpointsHeld'
    BY <1>h, <1>u, <1>r DEF EndpointsHeld, PriorHeld, Typed, Ids, Maybe
  <1>3. PriorHeld'
    BY <1>h, <1>u, <1>r DEF PriorHeld, EndpointsHeld, Retires, Typed, Ids, Maybe
  <1>4. OldEndpointGone'
    BY <1>h, <1>u, <1>r DEF OldEndpointGone, EndpointsHeld, PriorHeld, Retires, Typed, Ids, Maybe
  <1>5. AnswerKept'
    BY <1>h, <1>u, <1>r DEF AnswerKept, EndpointsHeld, EndpointsBorn, Retires, Typed, Ids, Maybe
  <1>6. EndpointsAccounted'
    BY <1>h, <1>u, <1>r DEF EndpointsAccounted, EndpointsHeld, PriorHeld, OldEndpointGone,
       Retires, Typed, Ids, Maybe
  <1> QED
    BY <1>1, <1>2, <1>3, <1>4, <1>5, <1>6

\* A clear retires what the hook observed, or leaves it to the next hook.
LEMMA ClearEndpoints ==
    ASSUME Typed, EndpointInv, Clear
    PROVE  EndpointInv'
  <1> USE NativeAssumption, InHand, Held DEF EndpointInv
  <1>h. /\ hook.pc = "clear" /\ hook.ep = None /\ hook'.ep = None
        /\ \/ hook'.pc = "cleanup" /\ hook'.prior = hook.prior /\ hook.prior # None
           \/ hook'.pc \in {"bind", "close", "idle"} /\ hook'.prior = None /\ hook.prior = None
           \/ hook'.pc \in {"close", "idle"} /\ hook'.prior = None
    BY HookGoesOn DEF Clear, Typed, Hooks, EndpointsHeld
  <1>b. /\ binding = None <=> binding' = None
        /\ binding # None => binding'.ep = binding.ep /\ (binding' = binding \/ binding'.retired)
    BY ClearedIs DEF Clear, Typed
  <1>c. hook'.pc = "cleanup" => binding'.retired
    BY <1>h, HookGoesOn, ClearedIs DEF Clear, Typed, PriorHeld
  <1>l. left \subseteq left'
    BY DEF Clear
  <1>u. UNCHANGED <<kind, client, eps, born, late>>
    BY DEF Clear
  <1>1. EndpointsBorn'
    BY DEF Clear, EndpointsBorn, Live, Retires
  <1>2. EndpointsHeld'
    BY <1>h, <1>b, <1>c, <1>l, <1>u DEF EndpointsHeld, PriorHeld, Typed, Ids, Maybe
  <1>3. PriorHeld'
    BY <1>h, <1>b, <1>c, <1>l, <1>u DEF PriorHeld, EndpointsHeld, Retires, Typed, Ids, Maybe
  <1>4. OldEndpointGone'
    BY <1>h, <1>b, <1>c, <1>l, <1>u DEF OldEndpointGone, EndpointsHeld, PriorHeld, Retires,
       Typed, Ids, Maybe
  <1>5. AnswerKept'
    BY <1>h, <1>b, <1>c, <1>l, <1>u DEF AnswerKept, EndpointsHeld, EndpointsBorn, Retires, Typed,
       Ids, Maybe
  <1>6. PublishedEndpointKept'
    BY <1>h, <1>b, <1>c, <1>l, <1>u DEF PublishedEndpointKept, AnswerKept, EndpointsHeld,
       PriorHeld, EndpointsBorn, Live, Retires, Typed, Ids, Maybe
  <1>7. EndpointsAccounted'
    BY <1>h, <1>b, <1>c, <1>l, <1>u DEF EndpointsAccounted, EndpointsHeld, PriorHeld,
       OldEndpointGone, Retires, Typed, Ids, Maybe
  <1> QED
    BY <1>1, <1>2, <1>3, <1>4, <1>5, <1>6, <1>7

\* A cleanup removes the record of a retired endpoint, or leaves it behind.
LEMMA CleanupEndpoints ==
    ASSUME Typed, EndpointInv, Cleanup
    PROVE  EndpointInv'
  <1> USE NativeAssumption, InHand, Held DEF EndpointInv
  <1>h. /\ hook.pc = "cleanup" /\ hook.ep = None /\ hook'.ep = None
        /\ hook'.pc \in {"bind", "close", "idle"} /\ hook'.prior = None
    BY HookGoesOn DEF Cleanup, Typed, EndpointsHeld
  <1>p. /\ Retires /\ binding # None /\ binding.ep = hook.prior
        /\ binding.retired /\ hook.prior \in Ids
    BY <1>h DEF PriorHeld
  <1>e. \/ left' = left /\ \A d \in Ids : eps'[d] = IF d = hook.prior THEN None ELSE eps[d]
        \/ left' = left \cup {hook.prior} /\ eps' = eps
    BY <1>p, RemovedIs DEF Cleanup, Typed
  <1>u. UNCHANGED <<kind, client, binding, born, late>>
    BY DEF Cleanup
  <1>1. EndpointsBorn'
    BY <1>h, <1>p, <1>e, <1>u DEF EndpointsBorn, Typed, Ids, Maybe
  <1>2. EndpointsHeld'
    BY <1>h, <1>p, <1>e, <1>u DEF EndpointsHeld, PriorHeld, Typed, Ids, Maybe
  <1>3. PriorHeld'
    BY <1>h, <1>p, <1>e, <1>u DEF PriorHeld, EndpointsHeld, Retires, Typed, Ids, Maybe
  <1>4. OldEndpointGone'
    BY <1>h, <1>p, <1>e, <1>u DEF OldEndpointGone, EndpointsHeld, PriorHeld, Retires, Typed, Ids,
       Maybe
  <1>5. AnswerKept'
    BY <1>h, <1>p, <1>e, <1>u DEF AnswerKept, EndpointsHeld, EndpointsBorn, Retires, Typed, Ids,
       Maybe
  <1>6. PublishedEndpointKept'
    BY <1>h, <1>p, <1>e, <1>u DEF PublishedEndpointKept, AnswerKept, EndpointsHeld, PriorHeld,
       EndpointsBorn, Live, Retires, Typed, Ids, Maybe
  <1>7. EndpointsAccounted'
    BY <1>h, <1>p, <1>e, <1>u DEF EndpointsAccounted, EndpointsHeld, PriorHeld, OldEndpointGone,
       Retires, Typed, Ids, Maybe
  <1> QED
    BY <1>1, <1>2, <1>3, <1>4, <1>5, <1>6, <1>7

\* A refused bind leaves the old endpoint as it is.
LEMMA BindRefusedEndpoints ==
    ASSUME Typed, EndpointInv, BindRefused
    PROVE  EndpointInv'
  <1> USE NativeAssumption, InHand, Held DEF EndpointInv
  <1>1. EndpointsBorn' /\ PublishedEndpointKept'
    BY DEF BindRefused, EndpointsBorn, PublishedEndpointKept, Live, Retires
  <1>2. EndpointsHeld'
    BY DEF BindRefused, Idle, EndpointsHeld, PriorHeld, Typed, Ids, Maybe
  <1>3. PriorHeld'
    BY DEF BindRefused, Idle, PriorHeld, EndpointsHeld, Retires, Typed, Ids, Maybe
  <1>4. OldEndpointGone'
    BY DEF BindRefused, Idle, OldEndpointGone, EndpointsHeld, PriorHeld, Retires, Typed, Ids,
       Maybe
  <1>5. AnswerKept'
    BY DEF BindRefused, Idle, AnswerKept, EndpointsHeld, EndpointsBorn, Retires, Typed, Ids,
       Maybe
  <1>6. EndpointsAccounted'
    BY DEF BindRefused, Idle, EndpointsAccounted, EndpointsHeld, PriorHeld, OldEndpointGone,
       Retires, Typed, Ids, Maybe
  <1> QED
    BY <1>1, <1>2, <1>3, <1>4, <1>5, <1>6

\* A new endpoint is the hook's own.
LEMMA BindEndpoints ==
    ASSUME Typed, EndpointInv, Bind
    PROVE  EndpointInv'
  <1> USE NativeAssumption, InHand, Held DEF EndpointInv
  <1>w. /\ Fresh \in Ids /\ Fresh = Len(born) + 1 /\ Len(born') = Fresh /\ born'[Fresh] = client.inc
        /\ \A d \in 1..Len(born) : born'[d] = born[d]
        /\ eps'[Fresh] = client.inc
        /\ \A d \in Ids \ {Fresh} : eps'[d] = eps[d] \/ (eps'[d] = None /\ d \in Swept)
    BY WrittenIs DEF Bind, Typed
  <1>s. \A d \in Ids : d \in Swept => eps[d] # None
                             /\ (Retires => kind # "codex" /\ ~(client.up /\ eps[d] = client.inc))
    BY SweptIs DEF Typed
  <1>t. client.inc \in Nat /\ Len(born) \in Nat /\ client.inc # None
    BY DEF Typed, Clients, Births
  <1>h. hook.pc = "bind" /\ hook'.pc = "answer" /\ hook'.ep = Fresh /\ hook'.prior = hook.prior
    BY DEF Bind, Typed, Hooks
  <1>u. UNCHANGED <<kind, client, binding, late, left>>
    BY DEF Bind
  <1>b. binding # None => binding.ep \in Ids /\ binding.ep # Fresh /\ binding.ep \in 1..Len(born)
    BY <1>w, <1>t DEF EndpointsHeld, Ids
  <1>1. EndpointsBorn'
    <2>1. \A e \in 1..Len(born') : born'[e] <= client.inc
      <3>1. 1..Len(born') = 1..Len(born) \cup {Fresh}
        BY <1>w, <1>t
      <3> QED
        BY <1>w, <1>t, <3>1 DEF EndpointsBorn
    <2>2. ASSUME NEW e \in Ids, eps'[e] # None PROVE e <= Len(born') /\ eps'[e] = born'[e]
      <3>1. CASE e = Fresh
        BY <1>w, <1>t, <3>1
      <3>2. CASE e # Fresh
        BY <1>w, <1>t, <2>2, <3>2 DEF EndpointsBorn, Ids
      <3> QED
        BY <3>1, <3>2
    <2> QED
      BY <1>u, <2>1, <2>2 DEF EndpointsBorn
  <1>2. EndpointsHeld'
    BY <1>w, <1>s, <1>t, <1>h, <1>u, SMTT(30) DEF EndpointsHeld, PriorHeld, Typed, Ids, Maybe
  <1>3. PriorHeld'
    BY <1>w, <1>s, <1>t, <1>h, <1>u DEF PriorHeld, EndpointsHeld, Retires, Typed, Ids, Maybe
  <1>4. OldEndpointGone'
    <2>1. binding # None => eps'[binding.ep] = eps[binding.ep] \/ eps'[binding.ep] = None
      BY <1>w, <1>b
    <2>2. binding # None /\ Retires /\ hook.pc \in {"bind", "answer", "publish"} =>
              eps[binding.ep] = None \/ binding.ep \in left
      BY DEF OldEndpointGone
    <2> QED
      BY <1>h, <1>u, <2>1, <2>2 DEF OldEndpointGone, Retires
  <1>5. AnswerKept'
    BY <1>w, <1>s, <1>t, <1>h, <1>u DEF AnswerKept, EndpointsHeld, EndpointsBorn, Retires, Typed,
       Ids, Maybe
  <1>6. PublishedEndpointKept'
    <2> SUFFICES ASSUME Live, Retires, eps'[binding.ep] = None
                 PROVE  kind # "codex" /\ ~(client.up /\ born'[binding.ep] = client.inc)
      BY <1>u DEF PublishedEndpointKept, Retires, Live
    <2>1. born'[binding.ep] = born[binding.ep] /\ binding.ep \in Ids \ {Fresh}
      BY <1>w, <1>b DEF Live
    <2>2. CASE eps[binding.ep] = None
      BY <2>1, <2>2 DEF PublishedEndpointKept
    <2>3. CASE eps[binding.ep] # None
      BY <1>w, <1>s, <2>1, <2>3 DEF EndpointsBorn
    <2> QED
      BY <2>2, <2>3
  <1>7. EndpointsAccounted'
    BY <1>w, <1>s, <1>t, <1>h, <1>u DEF EndpointsAccounted, EndpointsHeld, PriorHeld,
       OldEndpointGone, Retires, Typed, Ids, Maybe
  <1> QED
    BY <1>1, <1>2, <1>3, <1>4, <1>5, <1>6, <1>7

\* An answer that did not come in time is the late one's.
LEMMA BindTimesOutEndpoints ==
    ASSUME Typed, EndpointInv, BindTimesOut
    PROVE  EndpointInv'
  <1> USE NativeAssumption, InHand, Held DEF EndpointInv
  <1>1. EndpointsBorn' /\ PublishedEndpointKept'
    BY DEF BindTimesOut, EndpointsBorn, PublishedEndpointKept, Live, Retires
  <1>2. EndpointsHeld'
    BY DEF BindTimesOut, Idle, Retiring, EndpointsHeld, PriorHeld, Typed, Ids, Maybe
  <1>3. PriorHeld'
    BY DEF BindTimesOut, Idle, Retiring, PriorHeld, EndpointsHeld, Retires, Typed, Ids, Maybe
  <1>4. OldEndpointGone'
    BY DEF BindTimesOut, Idle, Retiring, OldEndpointGone, EndpointsHeld, PriorHeld, Retires,
       Typed, Ids, Maybe
  <1>5. AnswerKept'
    BY DEF BindTimesOut, Idle, Retiring, AnswerKept, EndpointsHeld, EndpointsBorn, Retires,
       Typed, Ids, Maybe
  <1>6. EndpointsAccounted'
    BY DEF BindTimesOut, Idle, Retiring, EndpointsAccounted, EndpointsHeld, PriorHeld,
       OldEndpointGone, Retires, Typed, Ids, Maybe
  <1> QED
    BY <1>1, <1>2, <1>3, <1>4, <1>5, <1>6

\* A late answer's endpoint is its own.
LEMMA LateWritesEndpoints ==
    ASSUME Typed, EndpointInv, LateWrites
    PROVE  EndpointInv'
  <1> USE NativeAssumption, InHand, Held DEF EndpointInv
  <1>w. /\ Fresh \in Ids /\ Fresh = Len(born) + 1 /\ Len(born') = Fresh /\ born'[Fresh] = client.inc
        /\ \A d \in 1..Len(born) : born'[d] = born[d]
        /\ eps'[Fresh] = client.inc
        /\ \A d \in Ids \ {Fresh} : eps'[d] = eps[d] \/ (eps'[d] = None /\ d \in Swept)
    BY WrittenIs DEF LateWrites, Typed
  <1>s. \A d \in Ids : d \in Swept => eps[d] # None
                             /\ (Retires => kind # "codex" /\ ~(client.up /\ eps[d] = client.inc))
    BY SweptIs DEF Typed
  <1>t. client.inc \in Nat /\ Len(born) \in Nat /\ client.inc # None
    BY DEF Typed, Clients, Births
  <1>h. late' = Fresh /\ late = 0 /\ 0 \notin Ids
    BY DEF LateWrites, Ids
  <1>u. UNCHANGED <<kind, client, binding, hook, left>>
    BY DEF LateWrites
  <1>b. binding # None => binding.ep \in Ids /\ binding.ep # Fresh /\ binding.ep \in 1..Len(born)
    BY <1>w, <1>t DEF EndpointsHeld, Ids
  <1>1. EndpointsBorn'
    <2>1. \A e \in 1..Len(born') : born'[e] <= client.inc
      <3>1. 1..Len(born') = 1..Len(born) \cup {Fresh}
        BY <1>w, <1>t
      <3> QED
        BY <1>w, <1>t, <3>1 DEF EndpointsBorn
    <2>2. ASSUME NEW e \in Ids, eps'[e] # None PROVE e <= Len(born') /\ eps'[e] = born'[e]
      <3>1. CASE e = Fresh
        BY <1>w, <1>t, <3>1
      <3>2. CASE e # Fresh
        BY <1>w, <1>t, <2>2, <3>2 DEF EndpointsBorn, Ids
      <3> QED
        BY <3>1, <3>2
    <2> QED
      BY <1>u, <2>1, <2>2 DEF EndpointsBorn
  <1>2. EndpointsHeld'
    BY <1>w, <1>s, <1>t, <1>h, <1>u, SMTT(30) DEF EndpointsHeld, PriorHeld, Typed, Ids, Maybe
  <1>3. PriorHeld'
    BY <1>w, <1>s, <1>t, <1>h, <1>u DEF PriorHeld, EndpointsHeld, Retires, Typed, Ids, Maybe
  <1>4. OldEndpointGone'
    <2>1. binding # None => eps'[binding.ep] = eps[binding.ep] \/ eps'[binding.ep] = None
      BY <1>w, <1>b
    <2>2. binding # None /\ Retires /\ hook.pc \in {"bind", "answer", "publish"} =>
              eps[binding.ep] = None \/ binding.ep \in left
      BY DEF OldEndpointGone
    <2> QED
      BY <1>h, <1>u, <2>1, <2>2 DEF OldEndpointGone, Retires
  <1>5. AnswerKept'
    <2> SUFFICES ASSUME hook.pc \in {"answer", "publish"}, Retires, eps'[hook.ep] = None
                 PROVE  kind # "codex" /\ ~(client.up /\ born'[hook.ep] = client.inc)
      BY <1>u DEF AnswerKept, Retires
    <2>1. hook.ep \in 1..Len(born) /\ hook.ep \in Ids /\ hook.ep # Fresh
      BY <1>w, <1>t DEF EndpointsHeld, Ids
    <2>2. born'[hook.ep] = born[hook.ep]
      BY <1>w, <2>1
    <2>3. CASE eps[hook.ep] = None
      BY <2>2, <2>3 DEF AnswerKept
    <2>4. CASE eps[hook.ep] # None
      BY <1>w, <1>s, <2>1, <2>2, <2>4 DEF EndpointsBorn
    <2> QED
      BY <2>3, <2>4
  <1>6. PublishedEndpointKept'
    <2> SUFFICES ASSUME Live, Retires, eps'[binding.ep] = None
                 PROVE  kind # "codex" /\ ~(client.up /\ born'[binding.ep] = client.inc)
      BY <1>u DEF PublishedEndpointKept, Retires, Live
    <2>1. born'[binding.ep] = born[binding.ep] /\ binding.ep \in Ids \ {Fresh}
      BY <1>w, <1>b DEF Live
    <2>2. CASE eps[binding.ep] = None
      BY <2>1, <2>2 DEF PublishedEndpointKept
    <2>3. CASE eps[binding.ep] # None
      BY <1>w, <1>s, <2>1, <2>3 DEF EndpointsBorn
    <2> QED
      BY <2>2, <2>3
  <1>7. EndpointsAccounted'
    BY <1>w, <1>s, <1>t, <1>h, <1>u DEF EndpointsAccounted, EndpointsHeld, PriorHeld,
       OldEndpointGone, Retires, Typed, Ids, Maybe
  <1> QED
    BY <1>1, <1>2, <1>3, <1>4, <1>5, <1>6, <1>7

\* A late answer is discarded with its record.
LEMMA LateDiscardEndpoints ==
    ASSUME Typed, EndpointInv, LateDiscard
    PROVE  EndpointInv'
  <1> USE NativeAssumption, InHand, Held DEF EndpointInv
  <1>e. \/ late = 0 /\ eps' = eps
        \/ late \in Ids /\ \A d \in Ids : eps'[d] = IF d = late /\ Retires THEN None ELSE eps[d]
    BY RemovedIs DEF LateDiscard, Typed, Maybe
  <1>z. 0 \notin Ids /\ late' = None /\ None \notin Ids
    BY DEF Ids, LateDiscard
  <1>u. UNCHANGED <<kind, client, binding, born, hook, left>>
    BY DEF LateDiscard
  <1>1. EndpointsBorn'
    BY <1>e, <1>z, <1>u DEF EndpointsBorn, Typed, Ids, Maybe
  <1>2. EndpointsHeld'
    BY <1>e, <1>z, <1>u DEF EndpointsHeld, PriorHeld, Typed, Ids, Maybe
  <1>3. PriorHeld'
    BY <1>e, <1>z, <1>u DEF PriorHeld, EndpointsHeld, Retires, Typed, Ids, Maybe
  <1>4. OldEndpointGone'
    BY <1>e, <1>z, <1>u DEF OldEndpointGone, EndpointsHeld, PriorHeld, Retires, Typed, Ids, Maybe
  <1>5. AnswerKept'
    BY <1>e, <1>z, <1>u DEF AnswerKept, EndpointsHeld, EndpointsBorn, Retires, Typed, Ids, Maybe
  <1>6. PublishedEndpointKept'
    BY <1>e, <1>z, <1>u DEF PublishedEndpointKept, AnswerKept, EndpointsHeld, PriorHeld,
       EndpointsBorn, Live, Retires, Typed, Ids, Maybe
  <1>7. EndpointsAccounted'
    BY <1>e, <1>z, <1>u DEF EndpointsAccounted, EndpointsHeld, PriorHeld, OldEndpointGone,
       Retires, Typed, Ids, Maybe
  <1> QED
    BY <1>1, <1>2, <1>3, <1>4, <1>5, <1>6, <1>7

\* A refused handshake is discarded with its record.
LEMMA AnswerRefusedEndpoints ==
    ASSUME Typed, EndpointInv, AnswerRefused
    PROVE  EndpointInv'
  <1> USE NativeAssumption, InHand, Held DEF EndpointInv
  <1>h. hook.pc = "answer" /\ hook.ep \in Ids /\ hook' = Idle
    BY DEF AnswerRefused
  <1>e. \A d \in Ids : eps'[d] = IF d = hook.ep /\ Retires THEN None ELSE eps[d]
    BY <1>h, RemovedIs DEF AnswerRefused, Typed
  <1>u. UNCHANGED <<kind, client, binding, born, late, left>>
    BY DEF AnswerRefused
  <1>1. EndpointsBorn'
    BY <1>h, <1>e, <1>u DEF Idle, EndpointsBorn, Typed, Ids, Maybe
  <1>2. EndpointsHeld'
    BY <1>h, <1>e, <1>u DEF Idle, EndpointsHeld, PriorHeld, Typed, Ids, Maybe
  <1>3. PriorHeld'
    BY <1>h, <1>e, <1>u DEF Idle, PriorHeld, EndpointsHeld, Retires, Typed, Ids, Maybe
  <1>4. OldEndpointGone'
    BY <1>h, <1>e, <1>u DEF Idle, OldEndpointGone, EndpointsHeld, PriorHeld, Retires, Typed, Ids,
       Maybe
  <1>5. AnswerKept'
    BY <1>h, <1>e, <1>u DEF Idle, AnswerKept, EndpointsHeld, EndpointsBorn, Retires, Typed, Ids,
       Maybe
  <1>6. PublishedEndpointKept'
    BY <1>h, <1>e, <1>u DEF Idle, PublishedEndpointKept, AnswerKept, EndpointsHeld, PriorHeld,
       EndpointsBorn, Live, Retires, Typed, Ids, Maybe
  <1>7. EndpointsAccounted'
    BY <1>h, <1>e, <1>u DEF Idle, EndpointsAccounted, EndpointsHeld, PriorHeld, OldEndpointGone,
       Retires, Typed, Ids, Maybe
  <1> QED
    BY <1>1, <1>2, <1>3, <1>4, <1>5, <1>6, <1>7

\* A handshake whose lease passed leaves its record behind.
LEMMA AnswerExpiredEndpoints ==
    ASSUME Typed, EndpointInv, AnswerExpired
    PROVE  EndpointInv'
  <1> USE NativeAssumption, InHand, Held DEF EndpointInv
  <1>1. EndpointsBorn' /\ PublishedEndpointKept'
    BY DEF AnswerExpired, EndpointsBorn, PublishedEndpointKept, Live, Retires
  <1>2. EndpointsHeld'
    BY DEF AnswerExpired, Idle, EndpointsHeld, PriorHeld, Typed, Ids, Maybe
  <1>3. PriorHeld'
    BY DEF AnswerExpired, Idle, PriorHeld, EndpointsHeld, Retires, Typed, Ids, Maybe
  <1>4. OldEndpointGone'
    BY DEF AnswerExpired, Idle, OldEndpointGone, EndpointsHeld, PriorHeld, Retires, Typed, Ids,
       Maybe
  <1>5. AnswerKept'
    BY DEF AnswerExpired, Idle, AnswerKept, EndpointsHeld, EndpointsBorn, Retires, Typed, Ids,
       Maybe
  <1>6. EndpointsAccounted'
    BY DEF AnswerExpired, Idle, EndpointsAccounted, EndpointsHeld, PriorHeld, OldEndpointGone,
       Retires, Typed, Ids, Maybe
  <1> QED
    BY <1>1, <1>2, <1>3, <1>4, <1>5, <1>6

\* An answer stays in the hook's hands.
LEMMA AnswerEndpoints ==
    ASSUME Typed, EndpointInv, Answer
    PROVE  EndpointInv'
  <1> USE NativeAssumption, InHand, Held DEF EndpointInv
  <1>1. EndpointsBorn' /\ PublishedEndpointKept'
    BY DEF Answer, EndpointsBorn, PublishedEndpointKept, Live, Retires
  <1>2. EndpointsHeld'
    BY DEF Answer, EndpointsHeld, PriorHeld, Typed, Ids, Maybe
  <1>3. PriorHeld'
    BY DEF Answer, PriorHeld, EndpointsHeld, Retires, Typed, Ids, Maybe
  <1>4. OldEndpointGone'
    BY DEF Answer, OldEndpointGone, EndpointsHeld, PriorHeld, Retires, Typed, Ids, Maybe
  <1>5. AnswerKept'
    BY DEF Answer, AnswerKept, EndpointsHeld, EndpointsBorn, Retires, Typed, Ids, Maybe
  <1>6. EndpointsAccounted'
    BY DEF Answer, EndpointsAccounted, EndpointsHeld, PriorHeld, OldEndpointGone, Retires, Typed,
       Ids, Maybe
  <1> QED
    BY <1>1, <1>2, <1>3, <1>4, <1>5, <1>6

\* What is published is on disk, and what it replaces is gone or left behind.
LEMMA PublishEndpoints ==
    ASSUME Typed, EndpointInv, Publish
    PROVE  EndpointInv'
  <1> USE NativeAssumption, InHand, Held DEF EndpointInv
  <1>h. hook.pc = "publish" /\ hook.ep \in Ids /\ hook.prior = None
    BY DEF Publish, PriorHeld
  <1>b. \/ /\ binding' # None /\ binding'.ep = hook.ep
           /\ hook'.pc = "recheck" /\ hook'.ep = hook.ep /\ hook'.prior = None
           /\ left' = left
        \/ /\ binding' = binding /\ left' = left \cup {hook.ep}
           /\ hook'.pc = Retiring /\ hook'.ep = None /\ hook'.prior = None
    <2>1. CASE Ours
      BY <1>h, <2>1, BindingThere DEF Publish, Typed, Hooks
    <2>2. CASE ~Ours
      BY <1>h, <2>2 DEF Publish, Idle
    <2> QED
      BY <2>1, <2>2
  <1>u. UNCHANGED <<kind, client, eps, born, late>>
    BY DEF Publish
  <1>1. EndpointsBorn'
    BY DEF Publish, EndpointsBorn, Live, Retires
  <1>2. EndpointsHeld'
    BY <1>h, <1>b, <1>u DEF Retiring, EndpointsHeld, PriorHeld, Typed, Ids, Maybe
  <1>3. PriorHeld'
    BY <1>h, <1>b, <1>u DEF Retiring, PriorHeld, EndpointsHeld, Retires, Typed, Ids, Maybe
  <1>4. OldEndpointGone'
    BY <1>h, <1>b, <1>u DEF Retiring, OldEndpointGone, EndpointsHeld, PriorHeld, Retires, Typed,
       Ids, Maybe
  <1>5. AnswerKept'
    BY <1>h, <1>b, <1>u DEF Retiring, AnswerKept, EndpointsHeld, EndpointsBorn, Retires, Typed,
       Ids, Maybe
  <1>6. PublishedEndpointKept'
    BY <1>h, <1>b, <1>u DEF Retiring, PublishedEndpointKept, AnswerKept, EndpointsHeld,
       PriorHeld, EndpointsBorn, Live, Retires, Typed, Ids, Maybe
  <1>7. EndpointsAccounted'
    <2> SUFFICES ASSUME NEW e \in Ids, Retires, eps[e] # None
                 PROVE  \/ binding' # None /\ binding'.ep = e
                        \/ e \in {hook'.ep, hook'.prior, late} \cup left'
      BY <1>u DEF EndpointsAccounted, Retires
    <2>1. e \in {hook.ep, late} \cup left \/ (binding # None /\ binding.ep = e)
      BY <1>h DEF EndpointsAccounted, Ids
    <2>2. binding # None /\ binding.ep = e => e \in left
      BY <1>h DEF OldEndpointGone
    <2> QED
      BY <1>b, <2>1, <2>2
  <1> QED
    BY <1>1, <1>2, <1>3, <1>4, <1>5, <1>6, <1>7

\* A recheck keeps what is published.
LEMMA RecheckEndpoints ==
    ASSUME Typed, EndpointInv, Recheck
    PROVE  EndpointInv'
  <1> USE NativeAssumption, InHand, Held DEF EndpointInv
  <1>1. EndpointsBorn' /\ PublishedEndpointKept'
    BY DEF Recheck, EndpointsBorn, PublishedEndpointKept, Live, Retires
  <1>2. EndpointsHeld'
    BY DEF Recheck, Idle, Retiring, EndpointsHeld, PriorHeld, Typed, Ids, Maybe
  <1>3. PriorHeld'
    BY DEF Recheck, Idle, Retiring, PriorHeld, EndpointsHeld, Retires, Typed, Ids, Maybe
  <1>4. OldEndpointGone'
    BY DEF Recheck, Idle, Retiring, OldEndpointGone, EndpointsHeld, PriorHeld, Retires, Typed,
       Ids, Maybe
  <1>5. AnswerKept'
    BY DEF Recheck, Idle, Retiring, AnswerKept, EndpointsHeld, EndpointsBorn, Retires, Typed,
       Ids, Maybe
  <1>6. EndpointsAccounted'
    BY DEF Recheck, Idle, Retiring, EndpointsAccounted, EndpointsHeld, PriorHeld,
       OldEndpointGone, Retires, Typed, Ids, Maybe
  <1> QED
    BY <1>1, <1>2, <1>3, <1>4, <1>5, <1>6

\* A session that ends leaves what it retires behind.
LEMMA CloseEndpoints ==
    ASSUME Typed, EndpointInv, Close
    PROVE  EndpointInv'
  <1> USE NativeAssumption, InHand, Held DEF EndpointInv
  <1>b. /\ binding = None <=> binding' = None
        /\ binding # None => binding'.ep = binding.ep /\ (binding' = binding \/ binding'.retired)
    BY ClearedIs DEF Close, Typed
  <1>u. /\ hook.pc = "close" /\ hook' = Idle /\ left \subseteq left'
        /\ UNCHANGED <<kind, client, eps, born, late>>
    BY DEF Close
  <1>1. EndpointsBorn'
    BY DEF Close, EndpointsBorn, Live, Retires
  <1>2. EndpointsHeld'
    BY <1>b, <1>u DEF Idle, EndpointsHeld, PriorHeld, Typed, Ids, Maybe
  <1>3. PriorHeld'
    BY <1>b, <1>u DEF Idle, PriorHeld, EndpointsHeld, Retires, Typed, Ids, Maybe
  <1>4. OldEndpointGone'
    BY <1>b, <1>u DEF Idle, OldEndpointGone, EndpointsHeld, PriorHeld, Retires, Typed, Ids, Maybe
  <1>5. AnswerKept'
    BY <1>b, <1>u DEF Idle, AnswerKept, EndpointsHeld, EndpointsBorn, Retires, Typed, Ids, Maybe
  <1>6. PublishedEndpointKept'
    BY <1>b, <1>u DEF Idle, PublishedEndpointKept, AnswerKept, EndpointsHeld, PriorHeld,
       EndpointsBorn, Live, Retires, Typed, Ids, Maybe
  <1>7. EndpointsAccounted'
    BY <1>b, <1>u DEF Idle, EndpointsAccounted, EndpointsHeld, PriorHeld, OldEndpointGone,
       Retires, Typed, Ids, Maybe
  <1> QED
    BY <1>1, <1>2, <1>3, <1>4, <1>5, <1>6, <1>7

\* A killed hook leaves its endpoints behind.
LEMMA HookKilledEndpoints ==
    ASSUME Typed, EndpointInv, HookKilled
    PROVE  EndpointInv'
  <1> USE NativeAssumption, InHand, Held DEF EndpointInv
  <1>1. EndpointsBorn' /\ PublishedEndpointKept'
    BY DEF HookKilled, EndpointsBorn, PublishedEndpointKept, Live, Retires
  <1>2. EndpointsHeld'
    BY DEF HookKilled, Idle, EndpointsHeld, PriorHeld, Typed, Ids, Maybe
  <1>3. PriorHeld'
    BY DEF HookKilled, Idle, PriorHeld, EndpointsHeld, Retires, Typed, Ids, Maybe
  <1>4. OldEndpointGone'
    BY DEF HookKilled, Idle, OldEndpointGone, EndpointsHeld, PriorHeld, Retires, Typed, Ids,
       Maybe
  <1>5. AnswerKept'
    BY DEF HookKilled, Idle, AnswerKept, EndpointsHeld, EndpointsBorn, Retires, Typed, Ids, Maybe
  <1>6. EndpointsAccounted'
    BY DEF HookKilled, Idle, EndpointsAccounted, EndpointsHeld, PriorHeld, OldEndpointGone,
       Retires, Typed, Ids, Maybe
  <1> QED
    BY <1>1, <1>2, <1>3, <1>4, <1>5, <1>6

\* So does a late answer that is killed.
LEMMA LateKilledEndpoints ==
    ASSUME Typed, EndpointInv, LateKilled
    PROVE  EndpointInv'
  <1> USE NativeAssumption, InHand, Held DEF EndpointInv
  <1>1. EndpointsBorn' /\ PublishedEndpointKept'
    BY DEF LateKilled, EndpointsBorn, PublishedEndpointKept, Live, Retires
  <1>2. EndpointsHeld'
    BY DEF LateKilled, EndpointsHeld, PriorHeld, Typed, Ids, Maybe
  <1>3. PriorHeld'
    BY DEF LateKilled, PriorHeld, EndpointsHeld, Retires, Typed, Ids, Maybe
  <1>4. OldEndpointGone'
    BY DEF LateKilled, OldEndpointGone, EndpointsHeld, PriorHeld, Retires, Typed, Ids, Maybe
  <1>5. AnswerKept'
    BY DEF LateKilled, AnswerKept, EndpointsHeld, EndpointsBorn, Retires, Typed, Ids, Maybe
  <1>6. EndpointsAccounted'
    BY DEF LateKilled, EndpointsAccounted, EndpointsHeld, PriorHeld, OldEndpointGone, Retires,
       Typed, Ids, Maybe
  <1> QED
    BY <1>1, <1>2, <1>3, <1>4, <1>5, <1>6

(***************************************************************************)
(* Messages: markers, offers and arrivals.                                 *)
(***************************************************************************)
MessageInv ==
    /\ OffersBorn /\ MarkerJustified /\ QueuedReached /\ AcceptedReached
    /\ InboxOnce /\ ReceiptOnce /\ PromptOnce

\* The absent value is none of the words that are recorded.
LEMMA NoneIs ==
    None \notin {"accepted", "refused", "claimed", "queued", "ambiguous"}
  BY NativeAssumption

\* Hooks touch the message through the records only: a marker goes with its
\* endpoint, and a new endpoint has no offer yet.
LEMMA RecordsFrame ==
    ASSUME Typed, MessageInv, UNCHANGED <<kind, router, arrived, unsure>>,
           Len(born) \in Nat, Len(born') \in Nat, Len(born') >= Len(born),
           \A e \in Ids : marks'[e] \in {marks[e], None},
           \A e \in Ids : eps'[e] # None =>
               marks'[e] = marks[e] /\ (eps[e] # None \/ e > Len(born))
    PROVE  MessageInv'
  <1> USE DEF MessageInv
  <1>0. \A e \in Ids : e \in Nat
    BY DEF Ids
  <1>1. OffersBorn'
    <2>1. \A r \in Routers : router[r].ep # None => router[r].ep \in Nat
      BY <1>0, Held DEF Typed, Maybe
    <2>2. \A r \in Routers : router[r].pc # "idle" =>
              router[r].ep # None /\ router[r].ep <= Len(born')
      BY <2>1 DEF OffersBorn
    <2>3. \A e \in Ids : arrived[e] > 0 => e <= Len(born')
      BY <1>0 DEF OffersBorn
    <2> QED
      BY <2>2, <2>3 DEF OffersBorn
  <1>2. MarkerJustified'
    BY DEF MarkerJustified, Sending
  <1>3. QueuedReached'
    <2>1. \A e \in Ids : marks'[e] = "queued" => marks[e] = "queued"
      BY NoneIs
    <2> QED
      BY <2>1 DEF QueuedReached
  <1>5. AcceptedReached' /\ PromptOnce'
    BY DEF AcceptedReached, PromptOnce
  <1>6. ReceiptOnce'
    BY DEF ReceiptOnce, AtWork
  <1>4. InboxOnce'
    <2> SUFFICES ASSUME kind = "claude", NEW e \in Ids, e \notin unsure, eps'[e] # None
                 PROVE  /\ \A q, r \in Sending(e) : q = r
                        /\ Sending(e) # {} => marks'[e] # None /\ arrived[e] = 0
                        /\ arrived[e] > 0 => marks'[e] # None
                        /\ arrived[e] <= 1
      BY DEF InboxOnce, Sending
    <2>1. CASE eps[e] # None
      BY <2>1 DEF InboxOnce
    <2>2. CASE eps[e] = None
      <3>1. e > Len(born)
        BY <2>2
      <3>2. Sending(e) = {}
        BY <1>0, <3>1 DEF OffersBorn, Sending
      <3>3. arrived[e] = 0
        BY <1>0, <3>1 DEF OffersBorn, Typed
      <3> QED
        BY <3>2, <3>3
    <2> QED
      BY <2>1, <2>2
  <1> QED
    BY <1>1, <1>2, <1>3, <1>4, <1>5, <1>6

\* Where an offer goes next.
Moves(r, pc) ==
    /\ router'[r].pc = pc /\ router'[r].ep = router[r].ep /\ router'[r].said = router[r].said
    /\ \A q \in Routers \ {r} : router'[q] = router[q]
\* A sender's last step, with what it tells.
Ends(r, word) ==
    /\ router'[r].pc = "done" /\ router'[r].ep = router[r].ep /\ router'[r].said = word
    /\ \A q \in Routers \ {r} : router'[q] = router[q]

\* The two ways an offer goes on.
LEMMA OfferGoesOn ==
    ASSUME Typed, NEW r \in Routers
    PROVE  /\ \A p : Goes(r, p) => Moves(r, p)
           /\ \A w : Told(r, w) => Ends(r, w)
  BY DEF Typed, Offers, Goes, Told, Moves, Ends

\* An offer under way that neither starts nor ends a send of a wake.
LEMMA OfferFrame ==
    ASSUME Typed, MessageInv, NEW r \in Routers,
           router[r].pc \notin {"idle", "done", "send"},
           UNCHANGED <<kind, eps, born, marks, arrived, unsure>>,
           \/ \E p \in {"verify", "refresh", "check", "offer", "claim"} : Moves(r, p)
           \/ kind \in {"codex", "desktop"} /\ Moves(r, "send")
           \/ Ends(r, "refused")
           \/ Ends(r, "accepted") /\ (kind = "claude" \/ \E d \in Ids : arrived[d] > 0)
    PROVE  MessageInv'
  <1> USE NativeAssumption DEF MessageInv, Moves, Ends
  <1>1. OffersBorn'
    BY DEF OffersBorn
  <1>2. MarkerJustified'
    <2>1. \A e \in Ids : Sending(e) \subseteq Sending(e)'
      BY DEF Sending
    <2> QED
      BY <2>1 DEF MarkerJustified
  <1>3. QueuedReached' /\ PromptOnce'
    BY DEF QueuedReached, PromptOnce
  <1>4. AcceptedReached'
    BY DEF AcceptedReached
  <1>5. InboxOnce'
    <2>1. kind = "claude" => \A e \in Ids : Sending(e)' = Sending(e)
      BY DEF Sending
    <2> QED
      BY <2>1 DEF InboxOnce
  <1>6. ReceiptOnce'
    <2>1. \A e \in Ids : AtWork(e)' \subseteq AtWork(e)
      BY DEF AtWork
    <2>2. \A q \in Routers : router[q].said = "accepted" => router'[q].said = "accepted"
      <3>1. router[r].said # "accepted"
        BY NoneIs DEF OffersBorn
      <3> QED
        BY <3>1
    <2> QED
      BY <2>1, <2>2 DEF ReceiptOnce
  <1> QED
    BY <1>1, <1>2, <1>3, <1>4, <1>5, <1>6

\* What a send does to the arrivals.
LEMMA ReachedIs ==
    ASSUME Typed, NEW e \in Ids, Reaches(e)
    PROVE  /\ \A d \in Ids \ {e} : arrived'[d] = arrived[d]
           /\ arrived'[e] \in {arrived[e], arrived[e] + 1}
           /\ \E d \in Ids : arrived'[d] > 0
           /\ kind = "kimi" =>
                  \/ arrived' = arrived
                  \/ arrived[e] = 0 /\ arrived'[e] = 1
           /\ kind # "kimi" => arrived'[e] = arrived[e] + 1
  <1>1. arrived \in [Ids -> Nat]
    BY DEF Typed
  <1>2. CASE kind = "kimi" /\ \E d \in Ids : arrived[d] > 0
    BY <1>1, <1>2 DEF Reaches
  <1>3. CASE ~(kind = "kimi" /\ \E d \in Ids : arrived[d] > 0)
    <2>1. arrived' = [arrived EXCEPT ![e] = @ + 1]
      BY <1>3 DEF Reaches
    <2>2. kind = "kimi" => arrived[e] = 0
      BY <1>1, <1>3
    <2> QED
      BY <1>1, <2>1, <2>2
  <1> QED
    BY <1>2, <1>3

\* An offer that begins: nobody has taken the message, or a wake leaves it queued.
LEMMA SnapshotMessages ==
    ASSUME Typed, EndpointsHeld, MessageInv, NEW r \in Routers, Snapshot(r)
    PROVE  MessageInv'
  <1> USE DEF MessageInv
  <1>1. /\ router'[r].pc \in {"check", "verify"} /\ router'[r].ep = binding.ep
        /\ router'[r].said = router[r].said /\ router[r].pc = "idle"
        /\ \A q \in Routers \ {r} : router'[q] = router[q]
        /\ UNCHANGED <<kind, eps, born, marks, arrived, unsure>>
    BY DEF Snapshot, At, Typed, Offers
  <1>2. binding.ep \in Ids /\ binding.ep <= Len(born) /\ binding.ep # None
    BY Held, NativeAssumption DEF Snapshot, Live, Typed, EndpointsHeld, Ids
  <1>3. \A e \in Ids : Sending(e)' = Sending(e)
    BY <1>1 DEF Sending
  <1>4. router[r].said = None
    BY <1>1 DEF OffersBorn
  <1>5. OffersBorn'
    BY <1>1, <1>2, <1>4 DEF OffersBorn
  <1>6. MarkerJustified' /\ InboxOnce'
    BY <1>1, <1>3 DEF MarkerJustified, InboxOnce
  <1>7. QueuedReached' /\ PromptOnce'
    BY <1>1 DEF QueuedReached, PromptOnce
  <1>8. AcceptedReached'
    BY <1>1 DEF AcceptedReached
  <1>9. ReceiptOnce'
    <2>1. kind \in {"codex", "desktop"} => \A q \in Routers : router[q].said # "accepted"
      BY DEF Snapshot, Queued, Wakes
    <2> QED
      BY <1>1, <2>1 DEF ReceiptOnce
  <1> QED
    BY <1>5, <1>6, <1>7, <1>8, <1>9

\* A wake is claimed by one sender, and a duplicate is told what is on record.
LEMMA ClaimMessages ==
    ASSUME Typed, MessageInv, NEW r \in Routers, InboxClaim(r) \/ WebClaim(r)
    PROVE  MessageInv'
  <1>p. PICK e \in Ids : e = router[r].ep
    BY Held DEF InboxClaim, WebClaim, ClaimWake, At, MessageInv, OffersBorn, Typed, Maybe
  <1>0. /\ kind \in {"claude", "kimi"} /\ router[r].pc = "claim" /\ e = router[r].ep
        /\ UNCHANGED <<kind, eps, born, arrived, unsure>>
    BY <1>p DEF InboxClaim, WebClaim, ClaimWake, At
  <1>1. CASE marks[e] # None
    <2>1. UNCHANGED marks
      BY <1>0, <1>1 DEF InboxClaim, WebClaim, ClaimWake
    <2>2. CASE kind = "claude"
      <3>1. Ends(r, "accepted")
        BY <1>0, <1>1, <2>2, OfferGoesOn DEF InboxClaim, WebClaim, ClaimWake, InboxDuplicate
      <3> QED
        BY <1>0, <2>1, <2>2, <3>1, OfferFrame
    <2>3. CASE kind = "kimi"
      <3>1. Ends(r, WakeOutcome(e))
        BY <1>0, <1>1, <2>3, OfferGoesOn DEF InboxClaim, WebClaim, ClaimWake
      <3>2. WakeOutcome(e) = "refused" \/ (WakeOutcome(e) = "accepted" /\ marks[e] = "queued")
        BY <1>0, <1>1 DEF WakeOutcome, Typed, Markers
      <3>3. marks[e] = "queued" => \E d \in Ids : arrived[d] > 0
        BY <1>0 DEF MessageInv, QueuedReached
      <3> QED
        BY <1>0, <2>1, <3>1, <3>2, <3>3, OfferFrame
    <2> QED
      BY <1>0, <2>2, <2>3
  <1>2. CASE marks[e] = None
    <2>1. Moves(r, "send") /\ marks' = [marks EXCEPT ![e] = "claimed"]
      BY <1>0, <1>2, OfferGoesOn DEF InboxClaim, WebClaim, ClaimWake
    <2>2. marks'[e] = "claimed" /\ \A d \in Ids \ {e} : marks'[d] = marks[d]
      BY <1>0, <2>1 DEF Typed, Markers
    <2>3. Sending(e)' = Sending(e) \cup {r} /\ \A d \in Ids \ {e} : Sending(d)' = Sending(d)
      BY <1>0, <2>1 DEF Moves, Sending
    <2>4. OffersBorn'
      BY <1>0, <2>1 DEF MessageInv, OffersBorn, Moves
    <2>5. MarkerJustified'
      <3> SUFFICES ASSUME NEW d \in Ids, marks'[d] # None, \A x \in Ids : arrived[x] = 0
                   PROVE  Sending(d)' # {} \/ d \in unsure
        BY <1>0 DEF MarkerJustified
      <3>1. CASE d = e
        BY <2>3, <3>1
      <3>2. CASE d # e
        BY <2>2, <2>3, <3>2 DEF MessageInv, MarkerJustified
      <3> QED
        BY <3>1, <3>2
    <2>6. QueuedReached'
      BY <1>0, <2>2 DEF MessageInv, QueuedReached
    <2>7. AcceptedReached' /\ PromptOnce' /\ ReceiptOnce'
      BY <1>0, <2>1 DEF MessageInv, AcceptedReached, PromptOnce, ReceiptOnce, Moves
    <2>8. InboxOnce'
      <3>1. kind = "claude" /\ e \notin unsure /\ eps[e] # None => Sending(e) = {} /\ ~(arrived[e] > 0)
        BY <1>0, <1>2 DEF MessageInv, InboxOnce
      <3>2. arrived[e] \in Nat
        BY <1>0 DEF Typed
      <3> SUFFICES ASSUME kind = "claude", NEW d \in Ids, d \notin unsure, eps[d] # None
                   PROVE  /\ \A p, q \in Sending(d)' : p = q
                          /\ Sending(d)' # {} => marks'[d] # None /\ arrived[d] = 0
                          /\ arrived[d] > 0 => marks'[d] # None
                          /\ arrived[d] <= 1
        BY <1>0 DEF InboxOnce
      <3>3. CASE d = e
        BY <2>2, <2>3, <3>1, <3>2, <3>3, NoneIs
      <3>4. CASE d # e
        BY <2>2, <2>3, <3>4 DEF MessageInv, InboxOnce
      <3> QED
        BY <3>3, <3>4
    <2> QED
      BY <2>4, <2>5, <2>6, <2>7, <2>8 DEF MessageInv
  <1> QED
    BY <1>1, <1>2

\* A send that certainly failed takes its marker along.
LEMMA RefusedMessages ==
    ASSUME Typed, MessageInv, NEW r \in Routers, SendRefused(r)
    PROVE  MessageInv'
  <1>p. PICK e \in Ids : e = router[r].ep
    BY Held DEF SendRefused, At, MessageInv, OffersBorn, Typed, Maybe
  <1>0. /\ router[r].pc = "send" /\ e = router[r].ep /\ Ends(r, "refused")
        /\ UNCHANGED <<kind, eps, born, arrived, unsure>>
    BY <1>p, OfferGoesOn DEF SendRefused, At
  <1>1. marks'[e] = None /\ \A d \in Ids \ {e} : marks'[d] = marks[d]
    BY <1>0 DEF SendRefused, Typed, Markers
  <1>2. r \in Sending(e) /\ Sending(e)' = Sending(e) \ {r}
    BY <1>0 DEF Sending, Ends
  <1>3. \A d \in Ids \ {e} : Sending(d)' = Sending(d)
    BY <1>0 DEF Sending, Ends
  <1>4. OffersBorn'
    BY <1>0 DEF MessageInv, OffersBorn, Ends
  <1>5. MarkerJustified'
    BY <1>0, <1>1, <1>3 DEF MessageInv, MarkerJustified
  <1>6. QueuedReached'
    BY <1>0, <1>1, NoneIs DEF MessageInv, QueuedReached
  <1>7. AcceptedReached' /\ PromptOnce'
    BY <1>0 DEF MessageInv, AcceptedReached, PromptOnce, Ends
  <1>8. ReceiptOnce'
    <2>1. \A d \in Ids : AtWork(d)' \subseteq AtWork(d)
      BY <1>0 DEF AtWork, Ends
    <2>2. \A q \in Routers : router[q].said = "accepted" => router'[q].said = "accepted"
      <3>1. router[r].said # "accepted"
        BY <1>0, NoneIs DEF MessageInv, OffersBorn
      <3> QED
        BY <1>0, <3>1 DEF Ends
    <2> QED
      BY <1>0, <2>1, <2>2 DEF MessageInv, ReceiptOnce
  <1>9. InboxOnce'
    <2>1. kind = "claude" /\ e \notin unsure /\ eps[e] # None =>
              Sending(e)' = {} /\ arrived[e] = 0
      BY <1>0, <1>2 DEF MessageInv, InboxOnce
    <2> SUFFICES ASSUME kind = "claude", NEW d \in Ids, d \notin unsure, eps[d] # None
                 PROVE  /\ \A p, q \in Sending(d)' : p = q
                        /\ Sending(d)' # {} => marks'[d] # None /\ arrived[d] = 0
                        /\ arrived[d] > 0 => marks'[d] # None
                        /\ arrived[d] <= 1
      BY <1>0 DEF InboxOnce
    <2>2. CASE d = e
      BY <2>1, <2>2
    <2>3. CASE d # e
      BY <1>1, <1>3, <2>3 DEF MessageInv, InboxOnce
    <2> QED
      BY <2>2, <2>3
  <1> QED
    BY <1>4, <1>5, <1>6, <1>7, <1>8, <1>9 DEF MessageInv

\* The client has the message: by its marker, prompt id or receipt, once.
LEMMA TakenMessages ==
    ASSUME Typed, MessageInv, NEW r \in Routers,
           InboxWritten(r) \/ PromptSubmitted(r) \/ QueueAdded(r) \/ DesktopSent(r)
    PROVE  MessageInv'
  <1>p. PICK e \in Ids : e = router[r].ep
    BY Held DEF InboxWritten, PromptSubmitted, QueueAdded, DesktopSent, Taken, At, MessageInv,
       OffersBorn, Typed, Maybe
  <1>t. Taken(r) /\ kind \in {"claude", "kimi", "codex", "desktop"}
    BY DEF InboxWritten, PromptSubmitted, QueueAdded, DesktopSent
  <1>0. /\ router[r].pc = "send" /\ e = router[r].ep /\ Ends(r, "accepted") /\ Reaches(e)
        /\ UNCHANGED <<kind, eps, born>>
    BY <1>p, <1>t, OfferGoesOn DEF Taken, At
  <1>1. /\ \A d \in Ids \ {e} : arrived'[d] = arrived[d]
        /\ arrived'[e] \in {arrived[e], arrived[e] + 1}
        /\ \E d \in Ids : arrived'[d] > 0
        /\ \A d \in Ids : arrived[d] \in Nat
    BY <1>0, ReachedIs DEF Typed
  <1>2. r \in Sending(e) /\ Sending(e)' = Sending(e) \ {r}
    BY <1>0 DEF Sending, Ends
  <1>3. \A d \in Ids \ {e} : Sending(d)' = Sending(d)
    BY <1>0 DEF Sending, Ends
  <1>4. OffersBorn'
    BY <1>0, <1>1 DEF MessageInv, OffersBorn, Ends
  <1>5. MarkerJustified' /\ QueuedReached' /\ AcceptedReached'
    <2>1. ~ \A d \in Ids : arrived'[d] = 0
      BY <1>1
    <2> QED
      BY <1>1, <2>1 DEF MarkerJustified, QueuedReached, AcceptedReached
  <1>6. InboxOnce'
    <2> SUFFICES ASSUME kind = "claude", NEW d \in Ids, d \notin unsure', eps[d] # None
                 PROVE  /\ \A p, q \in Sending(d)' : p = q
                        /\ Sending(d)' # {} => marks'[d] # None /\ arrived'[d] = 0
                        /\ arrived'[d] > 0 => marks'[d] # None
                        /\ arrived'[d] <= 1
      BY <1>0 DEF InboxOnce
    <2>1. UNCHANGED <<marks, unsure>>
      BY DEF InboxWritten, PromptSubmitted, QueueAdded, DesktopSent
    <2>2. CASE d = e
      <3>1. Sending(e)' = {} /\ marks[e] # None /\ arrived[e] = 0
        BY <1>2, <2>1, <2>2 DEF MessageInv, InboxOnce
      <3> QED
        BY <1>1, <2>1, <2>2, <3>1
    <2>3. CASE d # e
      BY <1>1, <1>3, <2>1, <2>3 DEF MessageInv, InboxOnce
    <2> QED
      BY <2>2, <2>3
  <1>7. ReceiptOnce'
    <2> SUFFICES ASSUME kind \in {"codex", "desktop"},
                        NEW d \in Ids, d \notin unsure', arrived'[d] > 0
                 PROVE  arrived'[d] = 1 /\ AtWork(d)' = {}
      BY <1>0 DEF ReceiptOnce, Ends
    <2>1. unsure' = unsure \cup Overlapping(r)
      BY DEF InboxWritten, PromptSubmitted, QueueAdded, DesktopSent
    <2>2. AtWork(d)' = {}
      BY <1>0, <2>1 DEF AtWork, Overlapping, Ends
    <2>3. CASE d = e
      <3>1. r \in AtWork(e)
        BY <1>0 DEF AtWork
      <3>2. ~(arrived[e] > 0)
        BY <2>1, <2>3, <3>1 DEF MessageInv, ReceiptOnce
      <3> QED
        BY <1>1, <2>2, <2>3, <3>2
    <2>4. CASE d # e
      BY <1>1, <2>1, <2>2, <2>4 DEF MessageInv, ReceiptOnce
    <2> QED
      BY <2>3, <2>4
  <1>8. PromptOnce'
    <2> SUFFICES ASSUME kind = "kimi", NEW d \in Ids PROVE arrived'[d] <= 1
      BY <1>0 DEF PromptOnce
    <2>1. arrived' = arrived \/ (arrived[e] = 0 /\ arrived'[e] = 1)
      BY <1>0, ReachedIs
    <2> QED
      BY <1>1, <2>1 DEF MessageInv, PromptOnce
  <1> QED
    BY <1>4, <1>5, <1>6, <1>7, <1>8 DEF MessageInv

\* No answer in time, or a sender that is killed: the endpoint is an unsure one.
LEMMA UnsureMessages ==
    ASSUME Typed, MessageInv, NEW r \in Routers,
           PromptUnanswered(r) \/ SendUnanswered(r) \/ SenderKilled(r)
    PROVE  MessageInv'
  <1>p. PICK e \in Ids : e = router[r].ep
    BY Held DEF PromptUnanswered, SendUnanswered, SenderKilled, Unanswered, At, MessageInv,
       OffersBorn, Typed, Maybe
  <1>0. /\ router[r].pc = "send" /\ (Reaches(e) \/ UNCHANGED arrived)
        /\ unsure' = unsure \cup {e} /\ UNCHANGED <<kind, eps, born>>
    BY <1>p DEF PromptUnanswered, SendUnanswered, SenderKilled, Unanswered, At
  <1>r. /\ router'[r].pc \in {"done", "idle"}
        /\ router'[r].pc # "idle" => router'[r].ep = router[r].ep
        /\ router'[r].said \in {None, "refused"} /\ (router'[r].said # None => router'[r].pc = "done")
        /\ \A q \in Routers \ {r} : router'[q] = router[q]
    <2>1. Ends(r, "refused") \/ router' = [router EXCEPT ![r] = Off]
      BY OfferGoesOn DEF PromptUnanswered, SendUnanswered, SenderKilled, Unanswered
    <2> QED
      BY <2>1 DEF Ends, Off, Typed
  <1>1. /\ \A d \in Ids \ {e} : arrived'[d] = arrived[d] /\ marks'[d] = marks[d]
        /\ marks'[e] = "queued" => marks[e] = "queued"
        /\ \A d \in Ids : arrived[d] \in Nat /\ arrived'[d] \in Nat /\ arrived'[d] >= arrived[d]
    <2>1. /\ \A d \in Ids \ {e} : marks'[d] = marks[d]
          /\ marks'[e] = "queued" => marks[e] = "queued"
      BY <1>p, NoneIs DEF PromptUnanswered, SendUnanswered, SenderKilled, Outcome, Typed, Markers
    <2> QED
      BY <1>0, <2>1, ReachedIs DEF Typed
  <1>2. \A d \in Ids \ {e} : Sending(d)' = Sending(d)
    BY <1>p, <1>0, <1>r DEF Sending
  <1>3. OffersBorn'
    <2>1. \A q \in Routers : router'[q].pc # "idle" => router'[q].ep # None /\ router'[q].ep <= Len(born)
      BY <1>0, <1>r DEF MessageInv, OffersBorn
    <2>2. \A q \in Routers : router'[q].said # None => router'[q].pc = "done"
      BY <1>r DEF MessageInv, OffersBorn
    <2>3. \A d \in Ids : arrived'[d] > 0 => d <= Len(born)
      BY <1>p, <1>0, <1>1 DEF MessageInv, OffersBorn
    <2> QED
      BY <1>0, <2>1, <2>2, <2>3 DEF OffersBorn
  <1>4. MarkerJustified'
    BY <1>0, <1>1, <1>2 DEF MessageInv, MarkerJustified
  <1>5. QueuedReached'
    BY <1>1 DEF MessageInv, QueuedReached
  <1>6. AcceptedReached'
    BY <1>0, <1>1, <1>r, NoneIs DEF MessageInv, AcceptedReached
  <1>7. InboxOnce'
    BY <1>0, <1>1, <1>2 DEF MessageInv, InboxOnce
  <1>8. ReceiptOnce'
    <2>1. \A d \in Ids : AtWork(d)' \subseteq AtWork(d)
      BY <1>0, <1>r DEF AtWork
    <2>2. \A q \in Routers : router[q].said = "accepted" => router'[q].said = "accepted"
      <3>1. router[r].said # "accepted"
        BY <1>0, NoneIs DEF MessageInv, OffersBorn
      <3> QED
        BY <1>r, <3>1
    <2> QED
      BY <1>0, <1>1, <2>1, <2>2 DEF MessageInv, ReceiptOnce
  <1>9. PromptOnce'
    BY <1>0, <1>1, ReachedIs DEF MessageInv, PromptOnce
  <1> QED
    BY <1>3, <1>4, <1>5, <1>6, <1>7, <1>8, <1>9 DEF MessageInv

(***************************************************************************)
(* The invariant.                                                          *)
(***************************************************************************)
\* A hook's step, and one of the environment, keep the messages' part.
LEMMA HookMessages ==
    ASSUME Typed, EndpointInv, MessageInv, HookStep \/ EnvironmentStep
    PROVE  MessageInv'
  <1>0. Len(born) \in Nat /\ born \in Births /\ eps \in Records /\ marks \in Markers
    BY DEF Typed, Births
  <1>n. \A e \in Ids : eps[e] # None => e <= Len(born)
    BY DEF EndpointInv, EndpointsBorn
  <1>1. ASSUME UNCHANGED <<kind, router, arrived, unsure, eps, born, marks>> PROVE MessageInv'
    BY <1>0, <1>1, RecordsFrame
  <1>2. ASSUME NEW e \in Ids, Remove(e), UNCHANGED <<kind, router, arrived, unsure, born>>
        PROVE  MessageInv'
    <2>1. \A d \in Ids : \/ eps'[d] = eps[d] /\ marks'[d] = marks[d]
                         \/ eps'[d] = None /\ marks'[d] = None
      BY <1>0, <1>2 DEF Remove, Records, Markers
    <2> QED
      BY <1>0, <1>2, <2>1, RecordsFrame
  <1>3. ASSUME Written, Fresh \in Ids, UNCHANGED <<kind, router, arrived, unsure>>
        PROVE  MessageInv'
    <2>1. Len(born') = Len(born) + 1 /\ Fresh = Len(born) + 1
      BY <1>0, <1>3, WrittenIs
    <2>2. Fresh \notin Swept
      BY <1>0, <1>3, <1>n, <2>1, SweptIs DEF Typed
    <2>3. \A d \in Ids : marks'[d] = IF d \in Swept THEN None ELSE marks[d]
      BY <1>3 DEF Written
    <2>4. \A d \in Ids : eps'[d] = IF d = Fresh THEN client.inc
                                   ELSE IF d \in Swept THEN None ELSE eps[d]
      BY <1>3 DEF Written
    <2>5. ASSUME NEW d \in Ids, eps'[d] # None
          PROVE  marks'[d] = marks[d] /\ (eps[d] # None \/ d > Len(born))
      BY <1>0, <2>1, <2>2, <2>3, <2>4, <2>5
    <2>6. \A d \in Ids : marks'[d] \in {marks[d], None}
      BY <2>3
    <2> QED
      BY <1>0, <1>3, <2>1, <2>5, <2>6, RecordsFrame
  <1>4. CASE HookStep
    <2>1. CASE Cleanup
      <3>1. hook.prior \in Ids
        BY <2>1, InHand DEF Cleanup, EndpointInv
      <3> QED
        BY <1>1, <1>2, <2>1, <3>1 DEF Cleanup
    <2>2. CASE Bind \/ LateWrites
      BY <1>3, <2>2 DEF Bind, LateWrites
    <2>3. CASE LateDiscard
      <3>1. late \in Ids \cup {0}
        BY <2>3 DEF LateDiscard, Typed, Maybe
      <3> QED
        BY <1>1, <1>2, <2>3, <3>1 DEF LateDiscard
    <2>4. CASE AnswerRefused
      <3>1. hook.ep \in Ids
        BY <2>4, InHand DEF AnswerRefused, EndpointInv
      <3> QED
        BY <1>2, <2>4, <3>1 DEF AnswerRefused
    <2>5. CASE HookBegin \/ Observe \/ Clear \/ BindRefused \/ BindTimesOut
      BY <1>1, <2>5 DEF HookBegin, Observe, Clear, BindRefused, BindTimesOut
    <2>6. CASE AnswerExpired \/ Answer \/ Publish \/ Recheck \/ Close
      BY <1>1, <2>6 DEF AnswerExpired, Answer, Publish, Recheck, Close
    <2> QED
      BY <1>4, <2>1, <2>2, <2>3, <2>4, <2>5, <2>6 DEF HookStep
  <1>5. CASE EnvironmentStep
    BY <1>1, <1>5 DEF EnvironmentStep, ClientRestarts, ClientExits, Flips, LeaseExpires,
       HookKilled, LateKilled
  <1> QED
    BY <1>4, <1>5

\* Every step of a sender keeps the messages' part.
LEMMA RouterMessages ==
    ASSUME Typed, EndpointInv, MessageInv, NEW r \in Routers, RouterStep(r) \/ SenderKilled(r)
    PROVE  MessageInv'
  <1> USE OfferGoesOn, OfferFrame
  <1>1. CASE Snapshot(r)
    BY <1>1, SnapshotMessages DEF EndpointInv
  <1>2. CASE VerifyExpired(r)
    BY <1>2 DEF VerifyExpired, At
  <1>3. CASE Refresh(r)
    BY <1>3 DEF Refresh, At
  <1>4. CASE LastLook(r)
    BY <1>4 DEF LastLook, At
  <1>5. CASE OfferVerifies(r)
    BY <1>5 DEF OfferVerifies, At
  <1>6. CASE InboxClaim(r) \/ WebClaim(r)
    BY <1>6, ClaimMessages
  <1>7. CASE QueueLook(r)
    BY <1>7 DEF QueueLook, At
  <1>8. CASE InboxWritten(r) \/ PromptSubmitted(r) \/ QueueAdded(r) \/ DesktopSent(r)
    BY <1>8, TakenMessages
  <1>9. CASE SendRefused(r)
    BY <1>9, RefusedMessages
  <1>10. CASE PromptUnanswered(r) \/ SendUnanswered(r) \/ SenderKilled(r)
    BY <1>10, UnsureMessages
  <1> QED
    BY <1>1, <1>2, <1>3, <1>4, <1>5, <1>6, <1>7, <1>8, <1>9, <1>10 DEF RouterStep

\* Every step of a sender, and every one of the environment's, keeps the
\* endpoints' part.
LEMMA RouterEndpoints ==
    ASSUME Typed, Typed', EndpointInv, NEW r \in Routers, RouterStep(r) \/ SenderKilled(r)
    PROVE  EndpointInv'
  <1>1. UNCHANGED <<kind, client, eps, born, hook, late, left>>
    BY DEF RouterStep, SenderKilled, Snapshot, VerifyExpired, Refresh, LastLook, OfferVerifies,
       InboxClaim, WebClaim, ClaimWake, QueueLook, InboxWritten, PromptSubmitted, QueueAdded,
       DesktopSent, Taken, SendRefused, PromptUnanswered, SendUnanswered, Unanswered
  <1>2. CASE Refresh(r)
    <2>1. \/ binding' = binding
          \/ /\ binding # None /\ binding' # None
             /\ binding'.ep = binding.ep /\ binding'.retired = binding.retired
      BY <1>2, BindingThere DEF Refresh, Live, Typed, Bindings, Maybe
    <2> QED
      BY <1>1, <2>1, EndpointFrame
  <1>3. CASE ~Refresh(r)
    <2>1. binding' = binding
      BY <1>3 DEF RouterStep, SenderKilled, Snapshot, VerifyExpired, LastLook, OfferVerifies,
         InboxClaim, WebClaim, ClaimWake, QueueLook, InboxWritten, PromptSubmitted, QueueAdded,
         DesktopSent, Taken, SendRefused, PromptUnanswered, SendUnanswered, Unanswered
    <2> QED
      BY <1>1, <2>1, EndpointFrame
  <1> QED
    BY <1>2, <1>3

\* Restarts, lost leases and killed hooks keep what is known of the endpoints.
LEMMA EnvironmentEndpoints ==
    ASSUME Typed, Typed', EndpointInv, EnvironmentStep
    PROVE  EndpointInv'
  <1>1. CASE ClientRestarts
    <2>1. client'.inc > client.inc
      BY <1>1, NativeAssumption DEF ClientRestarts, Typed, Clients
    <2> QED
      BY <1>1, <2>1, EndpointFrame DEF ClientRestarts
  <1>2. CASE ClientExits
    <2>1. client'.inc = client.inc /\ (client'.up => client.up)
      BY <1>2 DEF ClientExits, Typed, Clients
    <2> QED
      BY <1>2, <2>1, EndpointFrame DEF ClientExits
  <1>3. CASE Flips
    <2>1. client'.inc = client.inc /\ (client'.up => client.up)
      BY <1>3 DEF Flips, Typed, Clients
    <2> QED
      BY <1>3, <2>1, EndpointFrame DEF Flips
  <1>4. CASE LeaseExpires
    <2>1. /\ binding # None /\ binding' # None
          /\ binding'.ep = binding.ep /\ binding'.retired = binding.retired
      BY <1>4, BindingThere DEF LeaseExpires, Live, Typed, Bindings, Maybe
    <2> QED
      BY <1>4, <2>1, EndpointFrame DEF LeaseExpires
  <1>5. CASE HookKilled \/ LateKilled
    BY <1>5, HookKilledEndpoints, LateKilledEndpoints
  <1> QED
    BY <1>1, <1>2, <1>3, <1>4, <1>5 DEF EnvironmentStep

\* The hooks' steps keep it.
LEMMA HookEndpoints ==
    ASSUME Typed, EndpointInv, HookStep
    PROVE  EndpointInv'
  BY HookBeginEndpoints, ObserveEndpoints, ClearEndpoints, CleanupEndpoints, BindRefusedEndpoints,
     BindEndpoints, BindTimesOutEndpoints, LateWritesEndpoints, LateDiscardEndpoints,
     AnswerRefusedEndpoints, AnswerExpiredEndpoints, AnswerEndpoints, PublishEndpoints,
     RecheckEndpoints, CloseEndpoints DEF HookStep

\* The inductive invariant.
Inv == Typed /\ EndpointInv /\ MessageInv

\* The initial state satisfies the invariant.
LEMMA InitInv == Init => Inv
  <1> SUFFICES ASSUME Init PROVE Inv
    OBVIOUS
  <1>1. Typed
    BY InitTyped, TypedIs
  <1>2. EndpointInv
    BY NativeAssumption DEF Init, EndpointInv, EndpointsBorn, EndpointsHeld, PriorHeld,
       OldEndpointGone, AnswerKept, PublishedEndpointKept, EndpointsAccounted, Idle, Live, Ids
  <1>3. MessageInv
    BY NativeAssumption DEF Init, MessageInv, OffersBorn, MarkerJustified, QueuedReached,
       AcceptedReached, InboxOnce, ReceiptOnce, PromptOnce, Off, Sending
  <1> QED
    BY <1>1, <1>2, <1>3 DEF Inv

\* Every step keeps it.
LEMMA NextInv == Inv /\ [Next]_vars => Inv'
  <1> SUFFICES ASSUME Inv, [Next]_vars PROVE Inv'
    OBVIOUS
  <1> USE DEF Inv
  <1>e. EndpointsHeld /\ PriorHeld /\ OffersBorn
    BY DEF EndpointInv, MessageInv
  <1>1. CASE HookStep
    BY <1>1, <1>e, HookTyped, HookEndpoints, HookMessages
  <1>2. ASSUME NEW r \in Routers, RouterStep(r) \/ SenderKilled(r) PROVE Inv'
    BY <1>2, <1>e, RouterTyped, RouterEndpoints, RouterMessages
  <1>3. CASE EnvironmentStep
    BY <1>3, <1>e, EnvironmentTyped, EnvironmentEndpoints, HookMessages
  <1>4. CASE UNCHANGED vars
    <2>1. Typed'
      BY <1>4 DEF vars, Typed
    <2>2. EndpointInv'
      BY <1>4, <2>1, EndpointFrame DEF vars
    <2>3. MessageInv'
      BY <1>4, RecordsFrame DEF vars, Typed, Births
    <2> QED
      BY <2>1, <2>2, <2>3
  <1> QED
    BY <1>1, <1>2, <1>3, <1>4 DEF Next, EnvironmentStep

\* The invariant holds throughout.
LEMMA Invariant == Spec => []Inv
  BY InitInv, NextInv, PTL DEF Spec

\* Every variable keeps its type.
THEOREM TypeCorrect == Spec => []TypeOK
  <1>1. Inv => TypeOK
    BY TypedIs DEF Inv
  <1> QED
    BY <1>1, Invariant, PTL

\* What is recorded about the endpoints agrees with what is published.
THEOREM RecordsStayAgreed == Spec => []RecordsAgree
  <1>1. Inv => RecordsAgree
    BY DEF Inv, EndpointInv, MessageInv, RecordsAgree
  <1> QED
    BY <1>1, Invariant, PTL

\* A message arrives once, and as often as its senders are told.
THEOREM ArrivalsStayAsTold == Spec => []ArrivalsAsTold
  <1>1. Inv => ArrivalsAsTold
    <2> SUFFICES ASSUME Inv PROVE OneArrival
      BY DEF Inv, MessageInv, ArrivalsAsTold
    <2> SUFFICES ASSUME NEW e \in Ids, arrived[e] > 1
                 PROVE  kind # "kimi" /\ (e \in unsure \/ eps[e] = None)
      BY DEF OneArrival
    <2>1. kind \in {"claude", "kimi", "codex", "desktop"} /\ arrived[e] \in Nat
      BY NativeAssumption DEF Inv, Typed
    <2> QED
      BY <2>1 DEF Inv, MessageInv, InboxOnce, ReceiptOnce, PromptOnce
  <1> QED
    BY <1>1, Invariant, PTL

\* The steps that write the binding.
LEMMA BindingWriters ==
    ASSUME Next
    PROVE  \/ binding' = binding \/ Publish \/ \E e : ClearBinding(e)
           \/ LeaseExpires \/ \E r \in Routers : Refresh(r)
  <1>1. CASE HookStep
    <2>1. CASE Clear \/ Close
      BY <2>1 DEF Clear, Close
    <2>2. CASE ~(Clear \/ Close \/ Publish)
      BY <1>1, <2>2 DEF HookStep, HookBegin, Observe, Cleanup, BindRefused, Bind, BindTimesOut,
         LateWrites, LateDiscard, AnswerRefused, AnswerExpired, Answer, Recheck
    <2> QED
      BY <2>1, <2>2
  <1>2. ASSUME NEW r \in Routers, RouterStep(r) \/ SenderKilled(r), ~Refresh(r)
        PROVE  binding' = binding
    BY <1>2 DEF RouterStep, SenderKilled, Snapshot, VerifyExpired, LastLook, OfferVerifies,
       InboxClaim, WebClaim, ClaimWake, QueueLook, InboxWritten, PromptSubmitted, QueueAdded,
       DesktopSent, Taken, SendRefused, PromptUnanswered, SendUnanswered, Unanswered
  <1>3. CASE EnvironmentStep
    BY <1>3 DEF EnvironmentStep, ClientRestarts, ClientExits, Flips, HookKilled, LateKilled
  <1> QED
    BY <1>1, <1>2, <1>3 DEF Next, EnvironmentStep

\* A retirement is final: only a publication of another endpoint ends it.
THEOREM RetirementFinal == Spec => RetiredNeverRevived
  <1>1. ASSUME Inv, [Next]_vars, binding # None, binding.retired, ~binding'.retired
        PROVE  binding'.ep # binding.ep
    <2>1. CASE binding' = binding
      BY <1>1, <2>1
    <2>2. CASE Publish
      BY <1>1, <2>2 DEF Publish, Inv, EndpointInv, EndpointsHeld
    <2>3. CASE \E e : ClearBinding(e)
      BY <1>1, <2>3 DEF ClearBinding, Live
    <2>4. CASE LeaseExpires \/ \E r \in Routers : Refresh(r)
      BY <1>1, <2>4 DEF LeaseExpires, Refresh, Live
    <2> QED
      BY <1>1, <2>1, <2>2, <2>3, <2>4, BindingWriters DEF vars
  <1> QED
    BY <1>1, Invariant, PTL DEF Spec, RetiredNeverRevived

==============================================================================
