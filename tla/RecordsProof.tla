---------------------------- MODULE RecordsProof ----------------------------
(***************************************************************************)
(* Proofs about the three records that several processes read and advance: *)
(* the active journal's pair of slots, the receipt of a message, and the   *)
(* binding of a native conversation.                                       *)
(***************************************************************************)
EXTENDS ActiveJournal, Delivery, HookLifecycle, TLAPS, WellFoundedInduction

(***************************************************************************)
(* The active journal, for every number of readers, openers and            *)
(* generations.                                                            *)
(***************************************************************************)

\* What reader r read from slot 0 is still there, or has been replaced by a
\* record of a later generation (or by the first record, if there was none).
NotNewer(rec, now) ==
    \/ rec = now
    \/ rec = Missing /\ now # Missing
    \/ rec # Missing /\ now # Missing /\ rec.gen < now.gen

\* A reader between its reads: slot 0 only moves forward, so if it still is what
\* the reader read first, it was so when the reader read slot 1.
ReadsOrdered ==
    \A r \in Readers :
        /\ pc[r] = "second" => NotNewer(first[r], slot[0])
        /\ pc[r] = "confirm" =>
              /\ second[r] = witness[r][2]
              /\ Wellformed(witness[r][1], witness[r][2])
              /\ NotNewer(first[r], witness[r][1])
              /\ NotNewer(witness[r][1], slot[0])

JournalInv == JTypeOK /\ ReadsOrdered /\ StableReadIsAuthority

\* The initial state: no slot, no reader.
LEMMA JournalInit == JInit => JournalInv
  BY AttemptsAssumption
  DEF JInit, JournalInv, JTypeOK, ReadsOrdered, StableReadIsAuthority, Wellformed, InPlace

\* Slot 0 moving forward keeps the order of what was read before.
LEMMA NotNewerTransitive ==
  ASSUME NEW a \in Records \cup {Missing}, NEW b \in Records \cup {Missing},
         NEW c \in Records \cup {Missing}, NotNewer(a, b), NotNewer(b, c)
  PROVE  NotNewer(a, c)
  BY NoneAssumption DEF NotNewer, Records

\* A record that was read, is not older than itself and equals the record of
\* now has not been replaced in between.
LEMMA NotNewerAntisymmetric ==
  ASSUME NEW a \in Records \cup {Missing}, NEW b \in Records \cup {Missing},
         NotNewer(a, b), NotNewer(b, a)
  PROVE  a = b
  BY NoneAssumption DEF NotNewer, Records

-----------------------------------------------------------------------------
(* The two steps that change a slot.                                       *)

\* The slot of the next generation is the other one.
LEMMA ParityAlternates ==
  ASSUME NEW n \in Nat
  PROVE  /\ n % 2 = 0 => (n + 1) % 2 = 1
         /\ n % 2 = 1 => (n + 1) % 2 = 0
  OBVIOUS

\* A transition keeps the pair well-formed and moves slot 0 forward if it
\* touches it at all.
LEMMA AppendMovesForward ==
  ASSUME JTypeOK, NEW state \in {"idle", "open"},
         NEW tx \in Transactions \cup {Missing}, AppendTransition(state, tx)
  PROVE  /\ slot' \in [{0, 1} -> Records \cup {Missing}]
         /\ Wellformed(slot[0]', slot[1]')
         /\ NotNewer(slot[0], slot[0]')
         /\ Current' # Missing /\ Current'.gen >= Current.gen
<1> DEFINE new == [gen |-> Current.gen + 1, state |-> state, tx |-> tx,
                   prev |-> Current.gen]
<1>1. slot[0] \in Records \cup {Missing} /\ slot[1] \in Records \cup {Missing}
  BY DEF JTypeOK
<1>2. Current \in Records /\ Current.gen \in Nat /\ new \in Records
  BY <1>1 DEF AppendTransition, Current, Authority, Records
<1>3. new # Missing
  BY <1>2, NoneAssumption DEF Records
<1>4. CASE Current = slot[0]
  <2>1. slot[0] # Missing /\ slot[0].gen % 2 = 0 /\ (Current.gen + 1) % 2 = 1
    <3>1. slot[0] # Missing /\ slot[0].gen % 2 = 0
      BY <1>4 DEF JTypeOK, Wellformed, InPlace, AppendTransition
    <3>2. QED
      BY <3>1, <1>2, <1>4, ParityAlternates
  <2>2. slot' = [slot EXCEPT ![1] = new]
    BY <2>1 DEF AppendTransition
  <2>3. slot[0]' = slot[0] /\ slot[1]' = new
    BY <2>2 DEF JTypeOK
  <2>4. new.gen = slot[0].gen + 1 /\ new.prev = slot[0].gen /\ new.state # slot[0].state
    BY <1>4 DEF AppendTransition
  <2>5. InPlace(slot[0], 0) /\ InPlace(new, 1)
    BY <1>4, <2>1 DEF InPlace
  <2>6. Wellformed(slot[0]', slot[1]')
    BY <2>1, <2>3, <2>4, <2>5, <1>3 DEF Wellformed, Follows
  <2>7. Current' = new
    BY <2>1, <2>3, <1>2, <1>3, <1>4 DEF Current, Authority
  <2>8. QED
    BY <2>2, <2>3, <2>6, <2>7, <1>2, <1>3 DEF JTypeOK, NotNewer
<1>5. CASE Current = slot[1] /\ Current # slot[0]
  <2>1. /\ slot[0] # Missing /\ slot[1] # Missing
        /\ slot[1].gen % 2 = 1 /\ (Current.gen + 1) % 2 = 0
        /\ slot[0].gen < Current.gen
    <3>1. slot[0] # Missing /\ slot[1] # Missing
      BY <1>5 DEF Current, Authority, AppendTransition
    <3>2. slot[1].gen % 2 = 1
      BY <3>1 DEF JTypeOK, Wellformed, InPlace
    <3>3. slot[0].gen \in Nat /\ slot[1].gen \in Nat
      BY <3>1, <1>1 DEF Records
    <3>4. slot[0].gen <= slot[1].gen
      BY <3>1, <3>3, <1>5 DEF Current, Authority
    <3>5. slot[0].gen # slot[1].gen
      BY <3>1, <3>3 DEF JTypeOK, Wellformed, Follows
    <3>6. QED
      BY <3>1, <3>2, <3>3, <3>4, <3>5, <1>2, <1>5, ParityAlternates
  <2>2. slot' = [slot EXCEPT ![0] = new]
    BY <2>1 DEF AppendTransition
  <2>3. slot[0]' = new /\ slot[1]' = slot[1]
    BY <2>2 DEF JTypeOK
  <2>4. new.gen = slot[1].gen + 1 /\ new.prev = slot[1].gen /\ new.state # slot[1].state
    BY <1>5 DEF AppendTransition
  <2>5. InPlace(new, 0) /\ InPlace(slot[1], 1)
    BY <1>5, <2>1 DEF InPlace
  <2>6. Wellformed(slot[0]', slot[1]')
    BY <2>1, <2>3, <2>4, <2>5, <1>3 DEF Wellformed, Follows
  <2>7. Current' = new
    BY <2>1, <2>3, <1>2, <1>3, <1>5 DEF Current, Authority
  <2>8. QED
    BY <2>1, <2>2, <2>3, <2>6, <2>7, <1>1, <1>2, <1>3 DEF JTypeOK, NotNewer, Records
<1>6. QED
  BY <1>4, <1>5 DEF Current, Authority, AppendTransition

\* An opener only ever fills an empty store: it never touches a later record.
LEMMA OpenerMovesForward ==
  ASSUME JTypeOK, NEW o \in Openers, OpenerPublishes(o)
  PROVE  /\ slot' \in [{0, 1} -> Records \cup {Missing}]
         /\ Wellformed(slot[0]', slot[1]')
         /\ NotNewer(slot[0], slot[0]')
         /\ Current # Missing => Current' = Current
<1>1. Genesis \in Records /\ Genesis # Missing /\ Genesis.gen = 0 /\ Genesis.gen % 2 = 0
  BY NoneAssumption DEF Genesis, Records
<1>2. CASE slot[0] = Missing
  <2>1. slot[1] = Missing /\ Current = Missing
    BY <1>2 DEF JTypeOK, Wellformed, Current, Authority
  <2>2. slot[0]' = Genesis /\ slot[1]' = Missing
    BY <1>2, <2>1 DEF OpenerPublishes, JTypeOK
  <2>3. QED
    BY <1>1, <1>2, <2>1, <2>2
    DEF OpenerPublishes, JTypeOK, Wellformed, InPlace, NotNewer
<1>3. CASE slot[0] # Missing
  <2>1. slot' = slot
    BY <1>3 DEF OpenerPublishes, JTypeOK
  <2>2. QED
    BY <2>1 DEF JTypeOK, NotNewer, Current
<1>4. QED
  BY <1>2, <1>3

-----------------------------------------------------------------------------
(* The inductive invariant.                                                *)

\* A step that moves slot 0 forward and leaves the readers alone preserves it.
LEMMA ForwardPreserves ==
  ASSUME JournalInv, UNCHANGED readerVars,
         slot' \in [{0, 1} -> Records \cup {Missing}],
         Wellformed(slot[0]', slot[1]'), NotNewer(slot[0], slot[0]'),
         opener' \in [Openers -> {"start", "publish", "open"}]
  PROVE  JournalInv'
<1>1. JTypeOK'
  BY DEF JournalInv, JTypeOK, readerVars
<1>2. ReadsOrdered'
  <2> SUFFICES ASSUME NEW r \in Readers
               PROVE  /\ pc[r] = "second" => NotNewer(first[r], slot[0]')
                      /\ pc[r] = "confirm" => NotNewer(witness[r][1], slot[0]')
    BY DEF JournalInv, ReadsOrdered, readerVars
  <2>1. /\ first[r] \in Records \cup {Missing}
        /\ witness[r][1] \in Records \cup {Missing}
        /\ slot[0] \in Records \cup {Missing}
        /\ slot[0]' \in Records \cup {Missing}
    BY DEF JournalInv, JTypeOK
  <2>2. QED
    BY <2>1, NotNewerTransitive DEF JournalInv, ReadsOrdered
<1>3. StableReadIsAuthority'
  BY DEF JournalInv, StableReadIsAuthority, readerVars
<1>4. QED
  BY <1>1, <1>2, <1>3 DEF JournalInv

\* Every step preserves the invariant.
LEMMA JournalNext == JournalInv /\ [JNext]_jvars => JournalInv'
<1> SUFFICES ASSUME JournalInv, [JNext]_jvars
             PROVE  JournalInv'
  OBVIOUS
<1> USE DEF JournalInv
<1>1. ASSUME NEW o \in Openers, OpenerLooks(o)
      PROVE  JournalInv'
  BY <1>1 DEF OpenerLooks, JTypeOK, ReadsOrdered, StableReadIsAuthority, readerVars
<1>2. ASSUME NEW o \in Openers, OpenerPublishes(o)
      PROVE  JournalInv'
  <2>1. UNCHANGED readerVars /\ opener' \in [Openers -> {"start", "publish", "open"}]
    BY <1>2 DEF OpenerPublishes, JTypeOK
  <2>2. QED
    BY <1>2, <2>1, OpenerMovesForward, ForwardPreserves
<1>3. ASSUME NEW state \in {"idle", "open"}, NEW tx \in Transactions \cup {Missing},
             AppendTransition(state, tx)
      PROVE  JournalInv'
  <2>1. UNCHANGED readerVars /\ opener' \in [Openers -> {"start", "publish", "open"}]
    BY <1>3 DEF AppendTransition, JTypeOK
  <2>2. QED
    BY <1>3, <2>1, AppendMovesForward, ForwardPreserves
<1>4. ASSUME NEW r \in Readers, ReadFirst(r)
      PROVE  JournalInv'
  BY <1>4, AttemptsAssumption
  DEF ReadFirst, JTypeOK, ReadsOrdered, StableReadIsAuthority, NotNewer
<1>5. ASSUME NEW r \in Readers, ReadSecond(r)
      PROVE  JournalInv'
  BY <1>5 DEF ReadSecond, JTypeOK, ReadsOrdered, StableReadIsAuthority, NotNewer
<1>6. ASSUME NEW r \in Readers, ReadConfirm(r)
      PROVE  JournalInv'
  <2>1. /\ first[r] \in Records \cup {Missing}
        /\ second[r] \in Records \cup {Missing}
        /\ witness[r][1] \in Records \cup {Missing}
        /\ witness[r][2] \in Records \cup {Missing}
    BY DEF JTypeOK
    \* Equal reads: slot 0 cannot have gone forward and come back.
  <2>2. slot[0] = first[r] => first[r] = witness[r][1] /\ second[r] = witness[r][2]
    BY <1>6, <2>1, NotNewerAntisymmetric DEF ReadConfirm, ReadsOrdered
  <2>3. slot[0] = first[r] => Wellformed(first[r], second[r])
    BY <1>6, <2>2 DEF ReadConfirm, ReadsOrdered
  <2>4. Authority(first[r], second[r]) \in Records \cup {Missing}
    BY <2>1 DEF Authority
  <2>5. JTypeOK'
    BY <1>6, <2>4 DEF ReadConfirm, JTypeOK
  <2>6. ReadsOrdered'
    BY <1>6 DEF ReadConfirm, ReadsOrdered, JTypeOK
  <2>7. StableReadIsAuthority'
    BY <1>6, <2>2, <2>3 DEF ReadConfirm, StableReadIsAuthority, JTypeOK
  <2>8. QED
    BY <2>5, <2>6, <2>7
<1>7. ASSUME NEW r \in Readers, ReadAgain(r)
      PROVE  JournalInv'
  BY <1>7, AttemptsAssumption
  DEF ReadAgain, JTypeOK, ReadsOrdered, StableReadIsAuthority
<1>8. CASE UNCHANGED jvars
  BY <1>8 DEF jvars, readerVars, JTypeOK, ReadsOrdered, StableReadIsAuthority
<1>9. QED
  BY <1>1, <1>2, <1>3, <1>4, <1>5, <1>6, <1>7, <1>8
  DEF JNext, Activate, GoIdle, ReaderStep

\* The inductive invariant holds in every reachable state.
THEOREM JournalInvariant == JSpec => []JournalInv
<1>1. QED
  BY JournalInit, JournalNext, PTL DEF JSpec

-----------------------------------------------------------------------------
(* What follows from it.                                                   *)

\* The two slots are a pair selectAuthority accepts, at every instant.
THEOREM JournalTypeCorrect == JSpec => []JTypeOK
<1>1. JournalInv => JTypeOK
  BY DEF JournalInv
<1>2. QED
  BY <1>1, JournalInvariant, PTL

\* A lock-free reader never refuses a healthy journal and settles on what was
\* the authority at one instant of its read, for every number of readers and
\* of transitions in between.
THEOREM StableReads == JSpec => []StableReadIsAuthority
<1>1. JournalInv => StableReadIsAuthority
  BY DEF JournalInv
<1>2. QED
  BY <1>1, JournalInvariant, PTL

\* No step takes the authority back to an earlier generation.
THEOREM NoRollback == JSpec => AuthorityNeverRollsBack
<1> DEFINE Forward == Current # Missing => Current' # Missing /\ Current'.gen >= Current.gen
<1>1. ASSUME JournalInv, [JNext]_jvars
      PROVE  Forward
  <2> SUFFICES ASSUME Current # Missing
               PROVE  Current' # Missing /\ Current'.gen >= Current.gen
    OBVIOUS
  <2>1. Current \in Records /\ Current.gen \in Nat
    BY <1>1 DEF JournalInv, JTypeOK, Current, Authority, Records
  <2>2. ASSUME NEW o \in Openers, OpenerPublishes(o)
        PROVE  Current' = Current
    BY <1>1, <2>2, OpenerMovesForward DEF JournalInv
  <2>3. ASSUME NEW state \in {"idle", "open"}, NEW tx \in Transactions \cup {Missing},
               AppendTransition(state, tx)
        PROVE  Current' # Missing /\ Current'.gen >= Current.gen
    BY <1>1, <2>3, AppendMovesForward DEF JournalInv
  <2>4. CASE UNCHANGED slot
    BY <2>1, <2>4 DEF Current
  <2>5. QED
    BY <1>1, <2>1, <2>2, <2>3, <2>4
    DEF JNext, jvars, OpenerLooks, Activate, GoIdle, ReaderStep, ReadFirst,
        ReadSecond, ReadConfirm, ReadAgain
<1>2. JournalInv /\ [JNext]_jvars => [Forward]_jvars
  BY <1>1
<1>3. QED
  BY <1>2, JournalInvariant, PTL DEF JSpec, AuthorityNeverRollsBack

(***************************************************************************)
(* Receipts, for any messages, sessions, routers, hooks and budget: the    *)
(* state is typed, the event log agrees with the receipts, receipts only   *)
(* move forward, and, where no client is continued with ids alone, a       *)
(* receipt never claims an offer whose body did not cross.                 *)
(***************************************************************************)

\* The types of the parts that belong to messages.
MessageTypes ==
    /\ receipt \in [Messages -> ReceiptStates]
    /\ offer \in [Messages -> Offers \union {None}]
    /\ handed \subseteq Messages /\ shown \subseteq Messages
    /\ successes \in [Messages -> Nat] /\ again \in [Messages -> Nat]

\* Only a receipt that left "queued" has an offer.
QueuedUnoffered ==
    \A m \in Messages : receipt[m] \in {"none", "queued"} => offer[m] = None

\* A router or a hook at work has a message and a target.
TargetsKnown ==
    /\ \A r \in Routers :
         /\ router[r].pc # "idle" => router[r].m \in Messages
         /\ router[r].pc \notin {"idle", "receipt", "sessions"} => router[r].s \in Sessions
    /\ \A h \in Hooks : hook[h].pc # "idle" => hook[h].s \in Sessions

\* The inductive invariant of the receipts.
ReceiptInv == TypeOK /\ TargetsKnown /\ QueuedUnoffered /\ OffersMatchEvents

\* A body crosses before its offer is recorded.
CrossedFirst ==
    /\ \A r \in Routers : router[r].pc = "record" => router[r].m \in handed
    /\ \A h \in Hooks : hook[h].pc = "commit" => hook[h].offers \subseteq shown

\* recordOfferSucceeded keeps the receipts typed and in step with the events.
LEMMA OfferOnceStep ==
    ASSUME MessageTypes, QueuedUnoffered, OffersMatchEvents,
           NEW m \in Messages, NEW t \in Transports,
           OfferOnce(m, t), handed' = handed, shown' = shown, again' = again
    PROVE  MessageTypes' /\ QueuedUnoffered' /\ OffersMatchEvents'
<1> DEFINE new == [transport |-> t, due |-> FALSE, repeated |-> FALSE]
<1> USE DEF MessageTypes
<1>1. new \in Offers /\ new # None /\ new.repeated = FALSE
    <2>1. new \in Offers
        BY DEF Offers
    <2>2. new.repeated = FALSE
        OBVIOUS
    <2> QED
        BY <2>1, <2>2, DeliveryNoneAssumption
<1>2. CASE receipt[m] = "queued"
    <2>1. /\ receipt' = [receipt EXCEPT ![m] = "offered"]
          /\ offer' = [offer EXCEPT ![m] = new]
          /\ successes' = [successes EXCEPT ![m] = successes[m] + 1]
        BY <1>2 DEF OfferOnce
    <2>2. offer[m] = None /\ successes[m] = 0 /\ again[m] = 0
        BY <1>2 DEF QueuedUnoffered, OffersMatchEvents
    <2> HIDE DEF new
    <2>3. MessageTypes'
        BY <2>1, <1>1 DEF ReceiptStates
    <2>4. QueuedUnoffered'
        BY <2>1 DEF QueuedUnoffered
    <2>5. OffersMatchEvents'
        BY <2>1, <2>2, <1>1 DEF OffersMatchEvents
    <2> QED
        BY <2>3, <2>4, <2>5
<1>3. CASE receipt[m] # "queued"
    BY <1>3 DEF OfferOnce, QueuedUnoffered, OffersMatchEvents
<1> QED
    BY <1>2, <1>3

\* A repeat is recorded only where dueForRepeat holds under the writer.
LEMMA OfferAgainStep ==
    ASSUME MessageTypes, QueuedUnoffered, OffersMatchEvents,
           NEW m \in Messages, OfferAgain(m),
           receipt' = receipt, successes' = successes, handed' = handed, shown' = shown
    PROVE  MessageTypes' /\ QueuedUnoffered' /\ OffersMatchEvents'
<1> DEFINE new == [offer[m] EXCEPT !.repeated = TRUE]
<1> USE DEF MessageTypes
<1>1. CASE DueForRepeat(m)
    <2>1. offer[m] \in Offers /\ offer[m].transport = "native" /\ ~offer[m].repeated
        BY <1>1 DEF DueForRepeat, Offers, Transports
    <2>2. new \in Offers /\ new # None /\ new.repeated = TRUE /\ new.transport = "native"
        BY <2>1, DeliveryNoneAssumption DEF Offers
    <2>3. offer' = [offer EXCEPT ![m] = new] /\ again' = [again EXCEPT ![m] = again[m] + 1]
        BY <1>1 DEF OfferAgain
    <2>4. receipt[m] = "offered" /\ offer[m] # None /\ successes[m] = 1 /\ again[m] = 0
        BY <1>1, <2>1 DEF DueForRepeat, OffersMatchEvents
    <2> HIDE DEF new
    <2>5. MessageTypes'
        BY <2>2, <2>3
    <2>6. QueuedUnoffered'
        BY <2>3, <2>4 DEF QueuedUnoffered
    <2>7. OffersMatchEvents'
        BY <2>2, <2>3, <2>4 DEF OffersMatchEvents
    <2> QED
        BY <2>5, <2>6, <2>7
<1>2. CASE ~DueForRepeat(m)
    BY <1>2 DEF OfferAgain, QueuedUnoffered, OffersMatchEvents
<1> QED
    BY <1>1, <1>2

\* readInbox, acknowledgeMessage and replyToMessage only move receipts forward.
LEMMA AdvanceStep ==
    ASSUME MessageTypes, QueuedUnoffered, OffersMatchEvents,
           NEW ms, NEW state \in {"retrieved", "acknowledged"},
           Advance({m \in ms : receipt[m] # "none"}, state),
           offer' = offer, successes' = successes, again' = again,
           handed' = handed, shown' = shown
    PROVE  MessageTypes' /\ QueuedUnoffered' /\ OffersMatchEvents'
<1>1. \A m \in Messages :
        /\ receipt'[m] \in ReceiptStates
        /\ receipt'[m] = receipt[m] \/ receipt'[m] = state
    BY DEF Advance, MessageTypes, ReceiptStates
<1>2. MessageTypes'
    BY <1>1 DEF MessageTypes, Advance
<1>3. QueuedUnoffered' /\ OffersMatchEvents'
    BY <1>1 DEF QueuedUnoffered, OffersMatchEvents
<1> QED
    BY <1>2, <1>3

\* Every step keeps the receipts typed and in step with the events.
LEMMA MessageStep ==
    ReceiptInv /\ [Next]_vars => MessageTypes' /\ QueuedUnoffered' /\ OffersMatchEvents'
<1> SUFFICES ASSUME ReceiptInv, [Next]_vars
             PROVE  MessageTypes' /\ QueuedUnoffered' /\ OffersMatchEvents'
    OBVIOUS
<1>0. MessageTypes /\ QueuedUnoffered /\ OffersMatchEvents
    BY DEF ReceiptInv, TypeOK, MessageTypes
<1> DEFINE Messaging == <<receipt, offer, successes, again>>
<1>a. ASSUME UNCHANGED Messaging, handed' \subseteq Messages, shown' \subseteq Messages
      PROVE  MessageTypes' /\ QueuedUnoffered' /\ OffersMatchEvents'
    BY <1>0, <1>a DEF MessageTypes, QueuedUnoffered, OffersMatchEvents
<1>b. ASSUME UNCHANGED Messaging, handed' = handed, shown' = shown
      PROVE  MessageTypes' /\ QueuedUnoffered' /\ OffersMatchEvents'
    BY <1>0, <1>b, <1>a DEF MessageTypes
<1>1. ASSUME NEW s \in Sessions, SessionStep(s)
      PROVE  MessageTypes' /\ QueuedUnoffered' /\ OffersMatchEvents'
    <2>1. UNCHANGED Messaging /\ handed' = handed /\ shown' = shown
        BY <1>1 DEF SessionStep, OpenSession, ClientDies, ClientReturns, CloseSession,
                    Bind, Lapse, Unbind, history
    <2> QED
        BY <2>1, <1>b
<1>2. ASSUME NEW s \in Sessions, InboxStep(s)
      PROVE  MessageTypes' /\ QueuedUnoffered' /\ OffersMatchEvents'
    <2>1. offer' = offer /\ successes' = successes /\ again' = again
             /\ handed' = handed /\ shown' = shown
        BY <1>2 DEF InboxStep, ReadInbox, Acknowledge, Reply, history
    <2>2. CASE ReadInbox(s)
        <3>1. PICK ms : Advance({m \in ms : receipt[m] # "none"}, "retrieved")
            BY <2>2 DEF ReadInbox
        <3> QED
            BY <3>1, <2>1, <1>0, AdvanceStep
    <2>3. ASSUME NEW m \in Messages, Acknowledge(s, m) \/ Reply(s, m)
          PROVE  MessageTypes' /\ QueuedUnoffered' /\ OffersMatchEvents'
        <3>1. receipt[m] # "none" /\ Advance({m}, "acknowledged")
            BY <2>3 DEF Acknowledge, Reply
        <3>2. {n \in {m} : receipt[n] # "none"} = {m}
            BY <3>1
        <3>3. Advance({n \in {m} : receipt[n] # "none"}, "acknowledged")
            BY <3>1, <3>2
        <3> QED
            BY <3>3, <2>1, <1>0, AdvanceStep
    <2> QED
        BY <1>2, <2>2, <2>3 DEF InboxStep
<1>3. ASSUME NEW r \in Routers, RouterStep(r)
      PROVE  MessageTypes' /\ QueuedUnoffered' /\ OffersMatchEvents'
    <2>1. ASSUME NEW m \in Messages, Record(r, m)
          PROVE  MessageTypes' /\ QueuedUnoffered' /\ OffersMatchEvents'
        BY <2>1, <1>0 DEF Record, history, MessageTypes, ReceiptStates, QueuedUnoffered,
                         OffersMatchEvents
    <2>2. CASE \/ ReadReceipt(r) \/ FindTarget(r) \/ FindBinding(r) \/ Refresh(r)
               \/ RecheckTarget(r) \/ RecheckBinding(r) \/ TransportFails(r)
               \/ RouterKilled(r)
        <3>1. UNCHANGED Messaging /\ handed' = handed /\ shown' = shown
            BY <2>2 DEF ReadReceipt, FindTarget, FindBinding, Refresh, RecheckTarget,
                        RecheckBinding, TransportFails, RouterKilled, history
        <3> QED
            BY <3>1, <1>b
    <2>3. CASE TransportAccepts(r)
        <3>1. router[r].m \in Messages
            BY <2>3 DEF ReceiptInv, TargetsKnown, TransportAccepts, At
        <3>2. UNCHANGED Messaging /\ handed' \subseteq Messages /\ shown' \subseteq Messages
            BY <2>3, <3>1, <1>0 DEF TransportAccepts, MessageTypes
        <3> QED
            BY <3>2, <1>a
    <2>4. CASE RecordLive(r)
        <3>1. router[r].m \in Messages /\ "native" \in Transports
            BY <2>4 DEF ReceiptInv, TargetsKnown, RecordLive, At, Transports
        <3>2. handed' = handed /\ shown' = shown /\ again' = again
            BY <2>4 DEF RecordLive
        <3>3. CASE OfferOnce(router[r].m, "native")
            BY <3>1, <3>2, <3>3, <1>0, OfferOnceStep
        <3>4. CASE UNCHANGED <<receipt, offer, successes>>
            BY <3>2, <3>4, <1>b
        <3> QED
            BY <2>4, <3>3, <3>4 DEF RecordLive
    <2> QED
        BY <1>3, <2>1, <2>2, <2>3, <2>4 DEF RouterStep
<1>4. ASSUME NEW h \in Hooks, HookStep(h)
      PROVE  MessageTypes' /\ QueuedUnoffered' /\ OffersMatchEvents'
    <2>1. CASE HookEnds(h) \/ \E s \in Sessions, stop \in BOOLEAN : Select(h, s, stop)
        <3>1. UNCHANGED Messaging /\ handed' = handed /\ shown' = shown
            BY <2>1 DEF HookEnds, Select, history
        <3> QED
            BY <3>1, <1>b
    <2>2. CASE WriteOutput(h)
        <3>1. hook[h].offers \subseteq Messages
            BY DEF ReceiptInv, TypeOK
        <3>2. UNCHANGED Messaging /\ handed' \subseteq Messages /\ shown' \subseteq Messages
            BY <2>2, <3>1, <1>0 DEF WriteOutput, MessageTypes
        <3> QED
            BY <3>2, <1>a
    <2>3. CASE Commit(h)
        <3>1. hook[h].offers \subseteq Messages
            BY DEF ReceiptInv, TypeOK
        <3>2. handed' = handed /\ shown' = shown
            BY <2>3 DEF Commit
        <3>3. ASSUME NEW m \in Messages, OfferAgain(m), UNCHANGED <<receipt, successes>>
              PROVE  MessageTypes' /\ QueuedUnoffered' /\ OffersMatchEvents'
            BY <3>2, <3>3, <1>0, OfferAgainStep
        <3>4. ASSUME NEW m \in Messages, OfferOnce(m, "next-turn"), UNCHANGED again
              PROVE  MessageTypes' /\ QueuedUnoffered' /\ OffersMatchEvents'
            <4>1. "next-turn" \in Transports
                BY DEF Transports
            <4> QED
                BY <4>1, <3>2, <3>4, <1>0, OfferOnceStep
        <3>5. CASE UNCHANGED <<receipt, offer, successes, again>>
            BY <3>2, <3>5, <1>b
        <3>6. \/ \E m \in Messages : OfferAgain(m) /\ UNCHANGED <<receipt, successes>>
              \/ \E m \in Messages : OfferOnce(m, "next-turn") /\ UNCHANGED again
              \/ UNCHANGED <<receipt, offer, successes, again>>
            BY <2>3, <3>1 DEF Commit
        <3> QED
            BY <3>3, <3>4, <3>5, <3>6
    <2> QED
        BY <1>4, <2>1, <2>2, <2>3 DEF HookStep, Turn
<1>5. ASSUME NEW m \in Messages, Age(m)
      PROVE  MessageTypes' /\ QueuedUnoffered' /\ OffersMatchEvents'
    <2> DEFINE new == [offer[m] EXCEPT !.due = TRUE]
    <2>1. offer[m] \in Offers
        BY <1>5, <1>0 DEF Age, MessageTypes
    <2>2. /\ new \in Offers /\ new.repeated = offer[m].repeated
          /\ new.transport = offer[m].transport
        BY <2>1 DEF Offers
    <2>3. new # None /\ offer[m] # None
        BY <2>1, <2>2, DeliveryNoneAssumption
    <2>4. offer' = [offer EXCEPT ![m] = new]
        BY <1>5 DEF Age
    <2>5. UNCHANGED <<receipt, successes, again, handed, shown>>
        BY <1>5 DEF Age, history
    <2> HIDE DEF new
    <2> QED
        BY <2>2, <2>3, <2>4, <2>5, <1>0
        DEF MessageTypes, QueuedUnoffered, OffersMatchEvents
<1>6. CASE UNCHANGED vars
    BY <1>6, <1>b DEF vars
<1> QED
    BY <1>1, <1>2, <1>3, <1>4, <1>5, <1>6 DEF Next

\* The types of the parts that belong to processes.
ProcessTypes ==
    /\ session \in [Sessions -> {"new", "open", "gone", "closed"}]
    /\ binding \in [Sessions -> {"none", "live", "lapsed"}]
    /\ router \in [Routers ->
         [pc : {"idle", "receipt", "sessions", "binding", "refresh", "recheck",
                "current", "transport", "record"},
          m : Messages \union {None}, s : Sessions \union {None}]]
    /\ hook \in [Hooks ->
         [pc : {"idle", "print", "commit"}, s : Sessions \union {None}, stop : BOOLEAN,
          offers : SUBSET Messages, repeats : SUBSET Messages]]

\* Every step keeps the processes typed, with a message and a target.
LEMMA ProcessStep == ReceiptInv /\ [Next]_vars => ProcessTypes' /\ TargetsKnown'
<1> SUFFICES ASSUME ReceiptInv, [Next]_vars PROVE ProcessTypes' /\ TargetsKnown'
    OBVIOUS
<1>0. ProcessTypes /\ TargetsKnown
    BY DEF ReceiptInv, TypeOK, ProcessTypes
<1>a. CASE UNCHANGED <<session, binding, router, hook>>
    BY <1>0, <1>a DEF ProcessTypes, TargetsKnown
<1>1. ASSUME NEW s \in Sessions, SessionStep(s) PROVE ProcessTypes' /\ TargetsKnown'
    <2>1. router' = router /\ hook' = hook
        BY <1>1 DEF SessionStep, OpenSession, ClientDies, ClientReturns, CloseSession,
                    Bind, Lapse, Unbind
    <2>2. /\ session' \in [Sessions -> {"new", "open", "gone", "closed"}]
          /\ binding' \in [Sessions -> {"none", "live", "lapsed"}]
        BY <1>0, <1>1 DEF ProcessTypes, SessionStep, OpenSession, ClientDies, ClientReturns,
                          CloseSession, Bind, Lapse, Unbind
    <2> QED
        BY <1>0, <2>1, <2>2 DEF ProcessTypes, TargetsKnown
<1>2. ASSUME NEW s \in Sessions, InboxStep(s) PROVE ProcessTypes' /\ TargetsKnown'
    BY <1>2, <1>a DEF InboxStep, ReadInbox, Acknowledge, Reply
<1>3. ASSUME NEW r \in Routers, RouterStep(r) PROVE ProcessTypes' /\ TargetsKnown'
    <2>1. session' = session /\ hook' = hook
        BY <1>3 DEF RouterStep, Record, ReadReceipt, FindTarget, FindBinding, Refresh,
                    RecheckTarget, RecheckBinding, TransportFails, TransportAccepts,
                    RecordLive, RouterKilled
    <2>2. binding' \in [Sessions -> {"none", "live", "lapsed"}]
        <3>1. CASE Refresh(r)
            BY <1>0, <3>1 DEF Refresh, ProcessTypes
        <3>2. CASE ~Refresh(r)
            BY <1>0, <1>3, <3>2
            DEF ProcessTypes, RouterStep, Record, ReadReceipt, FindTarget, FindBinding,
                RecheckTarget, RecheckBinding, TransportFails, TransportAccepts,
                RecordLive, RouterKilled
        <3> QED
            BY <3>1, <3>2
    <2>3. ASSUME NEW new,
                 new \in [pc : {"idle", "receipt", "sessions", "binding", "refresh", "recheck",
                                "current", "transport", "record"},
                          m : Messages \union {None}, s : Sessions \union {None}],
                 new.pc # "idle" => new.m \in Messages,
                 new.pc \notin {"idle", "receipt", "sessions"} => new.s \in Sessions,
                 router' = [router EXCEPT ![r] = new]
          PROVE  ProcessTypes' /\ TargetsKnown'
        BY <1>0, <2>1, <2>2, <2>3 DEF ProcessTypes, TargetsKnown
    <2>4. CASE RouterEnds(r)
        <3>1. router' = [router EXCEPT ![r] = IdleRouter]
            BY <2>4 DEF RouterEnds
        <3> QED
            BY <3>1, <2>3 DEF IdleRouter
    <2>5. ASSUME NEW m \in Messages, Record(r, m) PROVE ProcessTypes' /\ TargetsKnown'
        <3>1. CASE m \in Direct
            <4>1. router' = [router EXCEPT ![r] = [pc |-> "receipt", m |-> m, s |-> None]]
                BY <2>5, <3>1 DEF Record
            <4> QED
                BY <4>1, <2>3
        <3>2. CASE m \notin Direct
            <4>1. router' = router
                BY <1>0, <2>5, <3>2 DEF Record, ProcessTypes
            <4> QED
                BY <4>1, <1>0, <2>1, <2>2 DEF ProcessTypes, TargetsKnown
        <3> QED
            BY <3>1, <3>2
    <2>6. ASSUME At(r, "sessions"), NEW s \in Sessions,
                 router' = [router EXCEPT ![r] = [pc |-> "binding", m |-> router[r].m, s |-> s]]
          PROVE  ProcessTypes' /\ TargetsKnown'
        <3>1. router[r].m \in Messages
            BY <1>0, <2>6 DEF TargetsKnown, At
        <3> QED
            BY <3>1, <2>3, <2>6
    <2>7. ASSUME NEW p \in {"sessions", "refresh", "recheck", "current", "transport", "record"},
                 router[r].pc # "idle",
                 p # "sessions" => router[r].pc \notin {"receipt", "sessions"},
                 RouterGoes(r, p)
          PROVE  ProcessTypes' /\ TargetsKnown'
        <3> DEFINE new == [router[r] EXCEPT !.pc = p]
        <3>1. router' = [router EXCEPT ![r] = new]
            BY <1>0, <2>7 DEF ProcessTypes, RouterGoes
        <3>2. new \in [pc : {"idle", "receipt", "sessions", "binding", "refresh", "recheck",
                             "current", "transport", "record"},
                       m : Messages \union {None}, s : Sessions \union {None}]
            BY <1>0, <2>7 DEF ProcessTypes
        <3>3. /\ new.pc = p
              /\ new.m \in Messages
              /\ p # "sessions" => new.s \in Sessions
            BY <1>0, <2>7 DEF ProcessTypes, TargetsKnown
        <3> HIDE DEF new
        <3> QED
            BY <3>1, <3>2, <3>3, <2>3, <2>7
    <2>8. CASE ReadReceipt(r)
        BY <2>8, <2>4, <2>7 DEF ReadReceipt, At
    <2>9. CASE FindTarget(r)
        BY <2>9, <2>4, <2>6 DEF FindTarget, LiveSessions
    <2>10. CASE FindBinding(r)
        BY <2>10, <2>4, <2>7 DEF FindBinding, At
    <2>11. CASE Refresh(r)
        BY <2>11, <2>4, <2>7 DEF Refresh, At
    <2>12. CASE RecheckTarget(r) \/ RecheckBinding(r)
        BY <2>12, <2>4, <2>7 DEF RecheckTarget, RecheckBinding, At
    <2>13. CASE TransportAccepts(r)
        BY <2>13, <2>4, <2>7 DEF TransportAccepts, At
    <2>14. CASE TransportFails(r) \/ RecordLive(r) \/ RouterKilled(r)
        BY <2>14, <2>4 DEF TransportFails, RecordLive, RouterKilled
    <2> QED
        BY <1>3, <2>5, <2>8, <2>9, <2>10, <2>11, <2>12, <2>13, <2>14 DEF RouterStep
<1>4. ASSUME NEW h \in Hooks, HookStep(h) PROVE ProcessTypes' /\ TargetsKnown'
    <2>1. UNCHANGED <<session, binding, router>>
        BY <1>4 DEF HookStep, Turn, Select, WriteOutput, Commit, HookEnds
    <2>2. ASSUME NEW new,
                 new \in [pc : {"idle", "print", "commit"}, s : Sessions \union {None},
                          stop : BOOLEAN, offers : SUBSET Messages, repeats : SUBSET Messages],
                 new.pc # "idle" => new.s \in Sessions,
                 hook' = [hook EXCEPT ![h] = new]
          PROVE  ProcessTypes' /\ TargetsKnown'
        BY <1>0, <2>1, <2>2 DEF ProcessTypes, TargetsKnown
    <2>3. CASE hook' = [hook EXCEPT ![h] = IdleHook]
        BY <2>3, <2>2 DEF IdleHook
    <2>4. ASSUME NEW s \in Sessions, NEW stop \in BOOLEAN, Select(h, s, stop)
          PROVE  ProcessTypes' /\ TargetsKnown'
        <3>1. Queued \union Repeats(stop) \subseteq Messages
            BY DEF Queued, Repeats
        <3>2. PICK offers \in SUBSET (Queued \union Repeats(stop)) :
                hook' = [hook EXCEPT ![h] =
                  [pc |-> "print", s |-> s, stop |-> stop,
                   offers |-> offers, repeats |-> offers \intersect Repeats(stop)]]
            BY <2>4 DEF Select
        <3> QED
            BY <3>1, <3>2, <2>2
    <2>5. CASE WriteOutput(h)
        <3> DEFINE new == [hook[h] EXCEPT !.pc = "commit"]
        <3>1. hook' = [hook EXCEPT ![h] = new]
            BY <1>0, <2>5 DEF WriteOutput, ProcessTypes
        <3>2. new \in [pc : {"idle", "print", "commit"}, s : Sessions \union {None},
                       stop : BOOLEAN, offers : SUBSET Messages, repeats : SUBSET Messages]
            BY <1>0 DEF ProcessTypes
        <3>3. new.s \in Sessions
            BY <1>0, <2>5 DEF ProcessTypes, TargetsKnown, WriteOutput
        <3> HIDE DEF new
        <3> QED
            BY <3>1, <3>2, <3>3, <2>2
    <2>6. CASE Commit(h)
        <3>1. \/ hook' = [hook EXCEPT ![h] = IdleHook]
              \/ \E m \in hook[h].offers : hook' = [hook EXCEPT ![h] =
                   [hook[h] EXCEPT !.offers = hook[h].offers \ {m},
                                   !.repeats = hook[h].repeats \ {m}]]
            BY <2>6 DEF Commit
        <3>2. ASSUME NEW m \in hook[h].offers,
                     hook' = [hook EXCEPT ![h] =
                       [hook[h] EXCEPT !.offers = hook[h].offers \ {m},
                                       !.repeats = hook[h].repeats \ {m}]]
              PROVE  ProcessTypes' /\ TargetsKnown'
            <4> DEFINE new == [hook[h] EXCEPT !.offers = hook[h].offers \ {m},
                                              !.repeats = hook[h].repeats \ {m}]
            <4>1. new \in [pc : {"idle", "print", "commit"}, s : Sessions \union {None},
                           stop : BOOLEAN, offers : SUBSET Messages, repeats : SUBSET Messages]
                <5>1. hook[h] \in [pc : {"idle", "print", "commit"}, s : Sessions \union {None},
                                   stop : BOOLEAN, offers : SUBSET Messages,
                                   repeats : SUBSET Messages]
                    BY <1>0 DEF ProcessTypes
                <5> QED
                    BY <5>1
            <4>2. new.s \in Sessions
                BY <1>0, <2>6 DEF ProcessTypes, TargetsKnown, Commit
            <4>3. hook' = [hook EXCEPT ![h] = new]
                BY <3>2
            <4> HIDE DEF new
            <4> QED
                BY <4>1, <4>2, <4>3, <2>2
        <3> QED
            BY <3>1, <3>2, <2>3
    <2>7. CASE HookEnds(h)
        BY <2>7, <2>3 DEF HookEnds
    <2> QED
        BY <1>4, <2>4, <2>5, <2>6, <2>7 DEF HookStep, Turn
<1>5. ASSUME NEW m \in Messages, Age(m) PROVE ProcessTypes' /\ TargetsKnown'
    BY <1>5, <1>a DEF Age
<1>6. CASE UNCHANGED vars
    BY <1>6, <1>a DEF vars
<1> QED
    BY <1>1, <1>2, <1>3, <1>4, <1>5, <1>6 DEF Next

\* The invariant holds initially and is inductive.
LEMMA ReceiptInit == Init => ReceiptInv
<1> SUFFICES ASSUME Init PROVE ReceiptInv
    OBVIOUS
<1>1. TypeOK
    BY DEF Init, TypeOK, ReceiptStates, IdleRouter, IdleHook
<1>2. TargetsKnown /\ QueuedUnoffered /\ OffersMatchEvents
    BY DeliveryNoneAssumption
    DEF Init, TargetsKnown, QueuedUnoffered, OffersMatchEvents, IdleRouter, IdleHook
<1> QED
    BY <1>1, <1>2 DEF ReceiptInv

\* Every step keeps it.
LEMMA ReceiptKept == ReceiptInv /\ [Next]_vars => ReceiptInv'
BY MessageStep, ProcessStep DEF ReceiptInv, TypeOK, MessageTypes, ProcessTypes

\* The state is typed, and every process at work has a message and a target.
THEOREM ReceiptInvariant == Spec => []ReceiptInv
<1>1. Init => ReceiptInv
    BY ReceiptInit
<1>2. ReceiptInv /\ [Next]_vars => ReceiptInv'
    BY ReceiptKept
<1> QED
    BY <1>1, <1>2, PTL DEF Spec

\* Every variable has its type.
THEOREM ReceiptTypeCorrect == Spec => []TypeOK
<1>1. ReceiptInv => TypeOK
    BY DEF ReceiptInv
<1> QED
    BY <1>1, ReceiptInvariant, PTL

\* The event log agrees with the receipts: recordOfferSucceeded records one
\* success and at most one repeat of a message, whoever commits.
THEOREM EventsAgree == Spec => []OffersMatchEvents
<1>1. ReceiptInv => OffersMatchEvents
    BY DEF ReceiptInv
<1> QED
    BY <1>1, ReceiptInvariant, PTL

\* A step that records no offer keeps OfferCrossed, since history only grows.
LEMMA HistoryGrows ==
    ASSUME OfferCrossed, offer' = offer, handed \subseteq handed', shown \subseteq shown'
    PROVE  OfferCrossed'
BY DEF OfferCrossed, NextTurnOfferShown

\* An offer recorded after its body crossed keeps OfferCrossed.
LEMMA OfferOnceCrossed ==
    ASSUME MessageTypes, OfferCrossed, NEW m \in Messages, NEW t \in Transports,
           OfferOnce(m, t), handed' = handed, shown' = shown,
           t = "native" => m \in handed, t = "next-turn" => m \in shown
    PROVE  OfferCrossed'
<1> DEFINE new == [transport |-> t, due |-> FALSE, repeated |-> FALSE]
<1>1. CASE offer' = offer
    BY <1>1, HistoryGrows
<1>2. CASE offer' = [offer EXCEPT ![m] = new]
    <2>1. new.transport = t /\ new.repeated = FALSE
        OBVIOUS
    <2> HIDE DEF new
    <2>2. \A n \in Messages : offer'[n] = IF n = m THEN new ELSE offer[n]
        BY <1>2 DEF MessageTypes
    <2> QED
        BY <2>1, <2>2 DEF OfferCrossed, NextTurnOfferShown, Transports
<1> QED
    BY <1>1, <1>2 DEF OfferOnce

\* A repeat recorded after its body was printed keeps OfferCrossed.
LEMMA OfferAgainCrossed ==
    ASSUME MessageTypes, OfferCrossed, NEW m \in Messages, OfferAgain(m),
           handed' = handed, shown' = shown, m \in shown
    PROVE  OfferCrossed'
<1> DEFINE new == [offer[m] EXCEPT !.repeated = TRUE]
<1>1. CASE ~DueForRepeat(m)
    BY <1>1, HistoryGrows DEF OfferAgain
<1>2. CASE DueForRepeat(m)
    <2>1. offer[m] \in Offers /\ offer[m] # None
        BY <1>2 DEF DueForRepeat, MessageTypes
    <2>2. new.transport = offer[m].transport
        BY <2>1 DEF Offers
    <2>3. offer' = [offer EXCEPT ![m] = new]
        BY <1>2 DEF OfferAgain
    <2> HIDE DEF new
    <2>4. \A n \in Messages : offer'[n] = IF n = m THEN new ELSE offer[n]
        BY <2>3 DEF MessageTypes
    <2> QED
        BY <2>1, <2>2, <2>4 DEF OfferCrossed, NextTurnOfferShown
<1> QED
    BY <1>1, <1>2

\* What crossed before it was recorded stays so, and bodies cross first, unless a
\* client is continued with ids alone.
LEMMA CrossedStep ==
    ASSUME IdStops = {}, ReceiptInv, CrossedFirst, OfferCrossed, [Next]_vars
    PROVE  CrossedFirst' /\ OfferCrossed'
<1>0. MessageTypes
    BY DEF ReceiptInv, TypeOK, MessageTypes
<1>r. ASSUME NEW r \in Routers PROVE router[r].pc # "idle" => router[r].m \in Messages
    BY <1>r DEF ReceiptInv, TargetsKnown
<1>t. /\ router \in [Routers -> [pc : {"idle", "receipt", "sessions", "binding", "refresh",
                                       "recheck", "current", "transport", "record"},
                                 m : Messages \union {None}, s : Sessions \union {None}]]
      /\ hook \in [Hooks -> [pc : {"idle", "print", "commit"}, s : Sessions \union {None},
                             stop : BOOLEAN, offers : SUBSET Messages,
                             repeats : SUBSET Messages]]
    BY DEF ReceiptInv, TypeOK
<1>a. CASE UNCHANGED <<offer, router, hook, handed, shown>>
    BY <1>a, HistoryGrows DEF CrossedFirst
<1>1. ASSUME NEW s \in Sessions, SessionStep(s) \/ InboxStep(s)
      PROVE  CrossedFirst' /\ OfferCrossed'
    BY <1>1, <1>a
    DEF SessionStep, OpenSession, ClientDies, ClientReturns, CloseSession, Bind, Lapse,
        Unbind, InboxStep, ReadInbox, Acknowledge, Reply, history
<1>2. ASSUME NEW r \in Routers, RouterStep(r) PROVE CrossedFirst' /\ OfferCrossed'
    <2>1. hook' = hook /\ shown' = shown
        BY <1>2 DEF RouterStep, Record, ReadReceipt, FindTarget, FindBinding, Refresh,
                    RecheckTarget, RecheckBinding, TransportFails, TransportAccepts,
                    RecordLive, RouterKilled, history
    <2>2. CASE \/ \E m \in Messages : Record(r, m)
               \/ ReadReceipt(r) \/ FindTarget(r) \/ FindBinding(r) \/ Refresh(r)
               \/ RecheckTarget(r) \/ RecheckBinding(r) \/ TransportFails(r)
               \/ RouterKilled(r)
        <3>1. offer' = offer /\ handed' = handed
            BY <2>2 DEF Record, ReadReceipt, FindTarget, FindBinding, Refresh, RecheckTarget,
                        RecheckBinding, TransportFails, RouterKilled, history
        <3>2. /\ \A q \in Routers : q # r => router'[q] = router[q]
              /\ router'[r].pc # "record" \/ router'[r] = router[r]
            BY <1>t, <2>2 DEF Record, ReadReceipt, FindTarget, FindBinding, Refresh,
                        RecheckTarget, RecheckBinding, TransportFails, RouterKilled,
                        RouterGoes, RouterEnds, IdleRouter, At
        <3> QED
            BY <2>1, <3>1, <3>2, HistoryGrows DEF CrossedFirst
    <2>3. CASE TransportAccepts(r)
        <3>1. offer' = offer /\ handed \subseteq handed'
            BY <2>3 DEF TransportAccepts
        <3>2. /\ \A q \in Routers : q # r => router'[q] = router[q]
              /\ router'[r].pc = "record" => router'[r].m \in handed'
            BY <1>t, <2>3 DEF TransportAccepts, RouterGoes, RouterEnds, IdleRouter
        <3> QED
            BY <2>1, <3>1, <3>2, HistoryGrows DEF CrossedFirst
    <2>4. CASE RecordLive(r)
        <3>1. router[r].m \in Messages /\ router[r].m \in handed /\ "native" \in Transports
            BY <2>4, <1>r DEF RecordLive, At, CrossedFirst, Transports
        <3>2. handed' = handed
            BY <2>4 DEF RecordLive
        <3>3. OfferCrossed'
            <4>1. CASE OfferOnce(router[r].m, "native")
                BY <4>1, <3>1, <3>2, <2>1, <1>0, OfferOnceCrossed
            <4>2. CASE offer' = offer
                BY <4>2, <3>2, <2>1, HistoryGrows
            <4> QED
                BY <2>4, <4>1, <4>2 DEF RecordLive
        <3>4. CrossedFirst'
            BY <1>t, <2>1, <2>4, <3>2 DEF RecordLive, RouterEnds, IdleRouter, CrossedFirst
        <3> QED
            BY <3>3, <3>4
    <2> QED
        BY <1>2, <2>2, <2>3, <2>4 DEF RouterStep
<1>3. ASSUME NEW h \in Hooks, HookStep(h) PROVE CrossedFirst' /\ OfferCrossed'
    <2>1. router' = router /\ handed' = handed
        BY <1>3 DEF HookStep, Turn, Select, WriteOutput, Commit, HookEnds, history
    <2>2. CASE HookEnds(h) \/ \E s \in Sessions, stop \in BOOLEAN : Select(h, s, stop)
        <3>1. offer' = offer /\ shown' = shown
            BY <2>2 DEF HookEnds, Select, history
        <3>2. /\ \A g \in Hooks : g # h => hook'[g] = hook[g]
              /\ hook'[h].pc # "commit"
            BY <1>t, <2>2 DEF HookEnds, Select, IdleHook
        <3> QED
            BY <2>1, <3>1, <3>2, HistoryGrows DEF CrossedFirst
    <2>3. CASE WriteOutput(h)
        <3>1. offer' = offer /\ shown' = shown \union hook[h].offers
            BY <2>3, IdStops = {} DEF WriteOutput
        <3>2. /\ \A g \in Hooks : g # h => hook'[g] = hook[g]
              /\ hook'[h].offers = hook[h].offers
            BY <1>t, <2>3 DEF WriteOutput
        <3> QED
            BY <2>1, <3>1, <3>2, HistoryGrows DEF CrossedFirst
    <2>4. CASE Commit(h)
        <3>1. PICK m \in hook[h].offers :
                \/ OfferAgain(m)
                \/ OfferOnce(m, "next-turn")
                \/ offer' = offer
            BY <2>4 DEF Commit
        <3>2. m \in Messages /\ m \in shown /\ shown' = shown /\ "next-turn" \in Transports
            BY <1>t, <2>4 DEF Commit, CrossedFirst, Transports
        <3>3. OfferCrossed'
            BY <1>0, <2>1, <3>1, <3>2, OfferAgainCrossed, OfferOnceCrossed, HistoryGrows
        <3>4. \/ hook' = [hook EXCEPT ![h] = IdleHook]
              \/ \E n \in hook[h].offers : hook' = [hook EXCEPT ![h] =
                   [hook[h] EXCEPT !.offers = hook[h].offers \ {n},
                                   !.repeats = hook[h].repeats \ {n}]]
            BY <2>4 DEF Commit
        <3>5. /\ \A g \in Hooks : g # h => hook'[g] = hook[g]
              /\ hook'[h].offers \subseteq hook[h].offers
            <4>1. CASE hook' = [hook EXCEPT ![h] = IdleHook]
                BY <1>t, <4>1 DEF IdleHook
            <4>2. ASSUME NEW n \in hook[h].offers,
                         hook' = [hook EXCEPT ![h] =
                           [hook[h] EXCEPT !.offers = hook[h].offers \ {n},
                                           !.repeats = hook[h].repeats \ {n}]]
                  PROVE  /\ \A g \in Hooks : g # h => hook'[g] = hook[g]
                         /\ hook'[h].offers \subseteq hook[h].offers
                <5>1. hook'[h].offers = hook[h].offers \ {n}
                    BY <1>t, <4>2
                <5> QED
                    BY <1>t, <4>2, <5>1
            <4> QED
                BY <3>4, <4>1, <4>2
        <3>6. CrossedFirst'
            BY <2>1, <2>4, <3>2, <3>5 DEF CrossedFirst, Commit
        <3> QED
            BY <3>3, <3>6
    <2> QED
        BY <1>3, <2>2, <2>3, <2>4 DEF HookStep, Turn
<1>4. ASSUME NEW m \in Messages, Age(m) PROVE CrossedFirst' /\ OfferCrossed'
    <2> DEFINE new == [offer[m] EXCEPT !.due = TRUE]
    <2>1. offer[m] \in Offers /\ offer[m] # None
        BY <1>0, <1>4 DEF Age, MessageTypes
    <2>2. new.transport = offer[m].transport /\ new.repeated = offer[m].repeated
        BY <2>1 DEF Offers
    <2>3. offer' = [offer EXCEPT ![m] = new]
        BY <1>4 DEF Age
    <2> HIDE DEF new
    <2>4. \A n \in Messages : offer'[n] = IF n = m THEN new ELSE offer[n]
        BY <1>0, <2>3 DEF MessageTypes
    <2>5. UNCHANGED <<router, hook, handed, shown>>
        BY <1>4 DEF Age, history
    <2> QED
        BY <2>1, <2>2, <2>4, <2>5 DEF OfferCrossed, NextTurnOfferShown, CrossedFirst
<1>5. CASE UNCHANGED vars
    BY <1>5, <1>a DEF vars
<1> QED
    BY <1>1, <1>2, <1>3, <1>4, <1>5 DEF Next

\* Where every continuation carries the bodies, a receipt never claims an offer
\* whose body did not cross: the transport comes before recordOfferSucceeded.
THEOREM Crossed ==
    ASSUME IdStops = {}
    PROVE  Spec => []OfferCrossed
<1>1. Init => CrossedFirst /\ OfferCrossed
    BY DEF Init, CrossedFirst, OfferCrossed, NextTurnOfferShown, IdleRouter, IdleHook
<1>2. ReceiptInv /\ CrossedFirst /\ OfferCrossed /\ [Next]_vars => CrossedFirst' /\ OfferCrossed'
    BY IdStops = {}, CrossedStep
<1> QED
    BY <1>1, <1>2, ReceiptInvariant, PTL DEF Spec

\* A receipt only moves forward, and no late commit records an offer of a message
\* the recipient has retrieved or answered.
THEOREM Settled == Spec => SettledStaysSettled
<1> DEFINE Step == \A m \in Messages :
         /\ Rank[receipt[m]] <= Rank[receipt'[m]]
         /\ receipt[m] \in {"retrieved", "acknowledged"} =>
              /\ successes'[m] = successes[m]
              /\ again'[m] = again[m]
<1>1. ReceiptInv /\ [Next]_vars => [Step]_vars
    <2> SUFFICES ASSUME ReceiptInv, Next PROVE Step
        OBVIOUS
    <2>0. MessageTypes /\ MessageTypes'
        BY MessageStep DEF ReceiptInv, TypeOK, MessageTypes
    <2>a. CASE UNCHANGED <<receipt, successes, again>>
        BY <2>0, <2>a DEF MessageTypes, Rank, ReceiptStates
    <2>b. ASSUME NEW ms, NEW state \in {"retrieved", "acknowledged"}, Advance(ms, state),
                 UNCHANGED <<successes, again>>
          PROVE  Step
        BY <2>0, <2>b DEF Advance, MessageTypes, Rank, ReceiptStates
    <2>c. ASSUME NEW m \in Messages, NEW t, OfferOnce(m, t), again' = again PROVE Step
        BY <2>0, <2>c DEF OfferOnce, MessageTypes, Rank, ReceiptStates
    <2>d. ASSUME NEW m \in Messages, OfferAgain(m), UNCHANGED <<receipt, successes>>
          PROVE  Step
        BY <2>0, <2>d DEF OfferAgain, DueForRepeat, MessageTypes, Rank, ReceiptStates
    <2> HIDE DEF Step
    <2>1. ASSUME NEW s \in Sessions, SessionStep(s) PROVE Step
        BY <2>1, <2>a DEF SessionStep, OpenSession, ClientDies, ClientReturns, CloseSession,
                          Bind, Lapse, Unbind, history
    <2>2. ASSUME NEW s \in Sessions, InboxStep(s) PROVE Step
        BY <2>2, <2>b DEF InboxStep, ReadInbox, Acknowledge, Reply, history
    <2>3. ASSUME NEW r \in Routers, RouterStep(r) PROVE Step
        <3>1. ASSUME NEW m \in Messages, Record(r, m) PROVE Step
            BY <2>0, <3>1 DEF Record, history, MessageTypes, Rank, ReceiptStates, Step
        <3>2. CASE RecordLive(r)
            <4>1. router[r].m \in Messages
                BY <3>2 DEF RecordLive, At, ReceiptInv, TargetsKnown
            <4> QED
                BY <3>2, <4>1, <2>a, <2>c DEF RecordLive
        <3> QED
            BY <2>3, <3>1, <3>2, <2>a
            DEF RouterStep, ReadReceipt, FindTarget, FindBinding, Refresh, RecheckTarget,
                RecheckBinding, TransportFails, TransportAccepts, RouterKilled, history
    <2>4. ASSUME NEW h \in Hooks, HookStep(h) PROVE Step
        <3>1. CASE Commit(h)
            <4>1. hook[h].offers \subseteq Messages
                BY DEF ReceiptInv, TypeOK
            <4> QED
                BY <3>1, <4>1, <2>a, <2>c, <2>d DEF Commit
        <3> QED
            BY <2>4, <3>1, <2>a
            DEF HookStep, Turn, Select, WriteOutput, HookEnds, history
    <2>5. ASSUME NEW m \in Messages, Age(m) PROVE Step
        BY <2>5, <2>a DEF Age, history
    <2> QED
        BY <2>1, <2>2, <2>3, <2>4, <2>5 DEF Next
<1> QED
    BY <1>1, ReceiptInvariant, PTL DEF Spec, SettledStaysSettled

(***************************************************************************)
(* The hooks of one conversation, for any number of mishaps and clients:   *)
(* it has one open session at most, and its binding names it.              *)
(***************************************************************************)

\* What the variables range over.
Steps == {"drop", "turn", "beat", "end", "close", "unbind", "probe", "check", "resume",
          "allocate", "open", "store"}
Owners == [id : Ids, gen : {1}, pid : Nat]
Owned == [st : {"absent", "open", "closed", "gone"}, gen : {1, 2}, pid : Nat, room : Rooms]
Holders == [pc : Steps, kind : Lifecycle, client : Nat, seen : Owners \cup {NoFile}, found : Nat,
            late : BOOLEAN, new : Nat]

LifecycleTyped ==
    /\ bind \in [Rooms -> Owners \cup {NoFile}]
    /\ sess \in [Ids -> Owned]
    /\ holder \in [Rooms -> Holders \cup {Idle}]
    /\ client \in Nat /\ started \in Nat

\* The lock's holder knows the binding, whose id nobody else changes; what it is
\* about to open is not there, and nothing that is open is given up.
Knows(w) ==
    /\ holder[w].pc \notin {"open", "store"} =>
          IF Seen(w) = NoFile THEN bind[w] = NoFile
                              ELSE bind[w] # NoFile /\ bind[w].id = Seen(w).id
    /\ holder[w].pc \in {"open", "store"} =>
          bind[w] # NoFile /\ bind[w].id = holder[w].new /\ holder[w].new \in Ids
    /\ holder[w].pc \in {"check", "resume", "close", "unbind"} => Seen(w) # NoFile
    /\ holder[w].pc \in {"allocate", "open", "unbind"} => \A i \in Ids : ~HookOpen(i)
    /\ holder[w].pc = "open" => sess[holder[w].new] = Absent

\* Nobody chose a room yet.
Unrouted ==
    /\ room = NoFile /\ routed = {}
    /\ \A v \in Rooms : holder[v] = Idle /\ bind[v] = NoFile
    /\ \A i \in Ids : sess[i] = Absent

\* The conversation keeps to the room w that was chosen first.
RoutedTo(w) ==
    /\ room = w /\ routed = {w}
    /\ \A v \in Rooms \ {w} : holder[v] = Idle /\ bind[v] = NoFile
    /\ \A i \in Ids : sess[i] # Absent => sess[i].room = w
    /\ \A i \in Ids : HookOpen(i) => bind[w] # NoFile /\ bind[w].id = i
    /\ \A i \in Ids : sess[i].gen = 2 => sess[i].pid = 0
    /\ holder[w] # Idle => Knows(w)

\* The inductive invariant of the hooks of a conversation.
LifecycleInv == LifecycleTyped /\ (Unrouted \/ \E w \in Rooms : RoutedTo(w))

\* No record is the absent one, and no hook at work the idle one.
LEMMA NoFileIs ==
    /\ NoFile \notin Rooms
    /\ \A b \in Owners : b # NoFile
    /\ \A h \in Holders : h # Idle
    /\ \A i \in Ids : i \in Nat
  <1>1. \A i \in Ids : i \in Nat
    BY LifecycleAssumption DEF Ids
  <1>2. ASSUME NEW b \in Owners PROVE b \in [id : Nat, gen : {1}, pid : Nat]
    BY <1>1 DEF Owners
  <1>3. \A h \in Holders : h # Idle
    BY DEF Holders, Idle, Steps
  <1> QED
    BY <1>1, <1>2, <1>3, LifecycleAssumption DEF Rooms

\* A holder's fields.
LEMMA HolderIs ==
    ASSUME LifecycleTyped, NEW w \in Rooms, holder[w].pc # "idle" \/ holder[w] # Idle
    PROVE  /\ holder[w] \in Holders /\ holder[w] # Idle
           /\ Seen(w) \in Owners \cup {NoFile} /\ Found(w) \in Nat
           /\ Seen(w) # NoFile => Seen(w).id \in Ids /\ Seen(w).gen = 1 /\ Seen(w) \in Owners
  <1>1. holder[w] \in Holders
    BY DEF LifecycleTyped, Idle
  <1> QED
    BY <1>1, NoFileIs DEF Holders, Seen, Found, Owners

\* A hook that goes on keeps what it saw.
LEMMA HolderGoes ==
    ASSUME LifecycleTyped, NEW w \in Rooms, holder[w] # Idle, NEW p \in Steps, Goes(w, p)
    PROVE  /\ holder' \in [Rooms -> Holders \cup {Idle}]
           /\ holder'[w] = [holder[w] EXCEPT !.pc = p] /\ holder'[w] \in Holders
           /\ holder'[w].pc = p /\ holder'[w].seen = holder[w].seen
           /\ holder'[w].new = holder[w].new /\ holder'[w].found = holder[w].found
           /\ \A v \in Rooms \ {w} : holder'[v] = holder[v]
  <1>1. holder[w] \in Holders
    BY HolderIs
  <1>2. [holder[w] EXCEPT !.pc = p] \in Holders
    BY <1>1 DEF Holders
  <1>3. holder' = [holder EXCEPT ![w] = [holder[w] EXCEPT !.pc = p]]
    BY DEF Goes
  <1>4. holder' \in [Rooms -> Holders \cup {Idle}] /\ holder'[w] = [holder[w] EXCEPT !.pc = p]
    BY <1>2, <1>3 DEF LifecycleTyped
  <1> QED
    BY <1>1, <1>2, <1>3, <1>4 DEF Holders, LifecycleTyped

\* A hook that is over holds nothing.
LEMMA HolderEnds ==
    ASSUME LifecycleTyped, NEW w \in Rooms, Ends(w)
    PROVE  /\ holder' \in [Rooms -> Holders \cup {Idle}] /\ holder'[w] = Idle
           /\ \A v \in Rooms \ {w} : holder'[v] = holder[v]
  BY DEF Ends, LifecycleTyped

\* With the lock, whatever the hooks opened is what the binding names.
LEMMA OwnerSeen ==
    ASSUME LifecycleTyped, NEW w \in Rooms, RoutedTo(w), holder[w] # Idle,
           holder[w].pc \notin {"open", "store"}, NEW i \in Ids, HookOpen(i)
    PROVE  Seen(w) # NoFile /\ Seen(w).id = i /\ Open(Seen(w))
  <1>1. bind[w] # NoFile /\ bind[w].id = i /\ Knows(w)
    BY DEF RoutedTo
  <1>2. Seen(w) # NoFile /\ Seen(w).id = i
    BY <1>1 DEF Knows
  <1> QED
    BY <1>2, HolderIs DEF Open, HookOpen

\* A step of the holder that writes neither the binding nor a session.
LEMMA HolderFrame ==
    ASSUME LifecycleTyped, NEW w \in Rooms, RoutedTo(w),
           UNCHANGED <<room, routed, bind, sess>>,
           holder' \in [Rooms -> Holders \cup {Idle}],
           \A v \in Rooms \ {w} : holder'[v] = holder[v],
           client' \in Nat, started' \in Nat,
           holder'[w] # Idle => Knows(w)'
    PROVE  LifecycleTyped' /\ RoutedTo(w)'
  BY DEF LifecycleTyped, RoutedTo, HookOpen

\* The holder goes on with what it saw.
LEMMA HolderKeeps ==
    ASSUME LifecycleTyped, NEW w \in Rooms, RoutedTo(w), holder[w] # Idle,
           holder[w].pc \notin {"open", "store"},
           UNCHANGED <<room, routed, bind, sess, client, started>>,
           holder' \in [Rooms -> Holders \cup {Idle}],
           \A v \in Rooms \ {w} : holder'[v] = holder[v],
           \/ holder'[w] = Idle
           \/ /\ holder'[w].seen = holder[w].seen /\ holder'[w].pc \notin {"open", "store"}
              /\ holder'[w].pc \in {"check", "resume", "close", "unbind"} => Seen(w) # NoFile
              /\ holder'[w].pc \in {"allocate", "unbind"} => Seen(w) = NoFile \/ ~Open(Seen(w))
    PROVE  LifecycleTyped' /\ RoutedTo(w)'
  <1>1. Knows(w)
    BY DEF RoutedTo
  <1>2. ASSUME holder'[w] # Idle PROVE Knows(w)'
    <2>1. holder'[w].pc \in {"allocate", "unbind"} => \A i \in Ids : ~HookOpen(i)
      BY <1>2, OwnerSeen
    <2> QED
      BY <1>1, <1>2, <2>1 DEF Knows, Seen, HookOpen
  <1> QED
    BY <1>2, HolderFrame DEF LifecycleTyped

\* The steps at which a hook looks and decides.
LEMMA TurnSettled ==
    ASSUME LifecycleTyped, NEW w \in Rooms, RoutedTo(w),
           \/ TurnStarts(w) \/ TurnPasses(w) \/ Heartbeat(w) \/ Check(w) \/ EndLook(w)
           \/ \E p \in Pids : TurnRestarts(w, p) \/ Probe(w, p)
    PROVE  LifecycleTyped' /\ RoutedTo(w)'
  <1>0. /\ UNCHANGED <<room, routed, bind, sess, client, started>>
        /\ holder[w].pc \in {"turn", "beat", "check", "end", "probe"}
    BY DEF TurnStarts, TurnPasses, Heartbeat, Check, EndLook, TurnRestarts, Probe, HolderAt,
       Routing, World
  <1>h. holder[w] # Idle /\ holder[w] \in Holders
    BY <1>0, HolderIs
  <1>k. Knows(w)
    BY <1>h DEF RoutedTo
  <1>g. ASSUME NEW p \in Steps, Goes(w, p), p \notin {"open", "store", "allocate"},
               p \in {"check", "resume", "close", "unbind"} => Seen(w) # NoFile,
               p = "unbind" => ~Open(Seen(w))
        PROVE  LifecycleTyped' /\ RoutedTo(w)'
    BY <1>0, <1>h, <1>g, HolderGoes, HolderKeeps
  <1>e. ASSUME Ends(w) PROVE LifecycleTyped' /\ RoutedTo(w)'
    BY <1>0, <1>h, <1>e, HolderEnds, HolderKeeps
  <1>1. CASE TurnStarts(w)
    BY <1>1, <1>g DEF TurnStarts, Steps
  <1>2. CASE TurnPasses(w)
    BY <1>2, <1>e DEF TurnPasses
  <1>3. CASE Heartbeat(w)
    BY <1>3, <1>g, <1>e DEF Heartbeat, Steps
  <1>4. CASE Check(w)
    <2>1. Seen(w) # NoFile
      BY <1>4, <1>k DEF Check, HolderAt, Knows
    <2> QED
      BY <1>4, <1>g, <1>e, <2>1 DEF Check, Steps
  <1>5. CASE EndLook(w)
    BY <1>5, <1>g, <1>e DEF EndLook, Steps
  <1>6. ASSUME NEW p \in Pids, TurnRestarts(w, p) PROVE LifecycleTyped' /\ RoutedTo(w)'
    <2>1. p \in Nat
      BY <1>6 DEF Pids
    <2>2. [holder[w] EXCEPT !.pc = "drop", !.late = TRUE, !.found = p] \in Holders
      BY <1>h, <2>1 DEF Holders, Steps
    <2>3. holder' = [holder EXCEPT ![w] =
              [holder[w] EXCEPT !.pc = "drop", !.late = TRUE, !.found = p]]
      BY <1>6 DEF TurnRestarts
    <2>4. /\ holder' \in [Rooms -> Holders \cup {Idle}]
          /\ holder'[w] = [holder[w] EXCEPT !.pc = "drop", !.late = TRUE, !.found = p]
          /\ \A v \in Rooms \ {w} : holder'[v] = holder[v]
      BY <2>2, <2>3 DEF LifecycleTyped
    <2>5. holder'[w].seen = holder[w].seen /\ holder'[w].pc = "drop"
      BY <1>h, <2>4 DEF Holders
    <2> QED
      BY <1>0, <1>h, <2>4, <2>5, HolderKeeps
  <1>7. ASSUME NEW p \in Pids, Probe(w, p) PROVE LifecycleTyped' /\ RoutedTo(w)'
    <2> DEFINE next == IF Seen(w) = NoFile THEN "allocate"
                       ELSE IF holder[w].kind = "beforeTurn" THEN "check" ELSE "resume"
               h == [holder[w] EXCEPT !.found = p, !.pc = next]
    <2>1. p \in Nat /\ next \in Steps
      BY <1>7 DEF Pids, Steps
    <2>2. h \in Holders
      <3> HIDE DEF next
      <3> QED
        BY <1>h, <2>1 DEF Holders
    <2>3. holder' = [holder EXCEPT ![w] = h]
      BY <1>7 DEF Probe
    <2>4. /\ holder' \in [Rooms -> Holders \cup {Idle}] /\ holder'[w] = h
          /\ \A v \in Rooms \ {w} : holder'[v] = holder[v]
      <3> HIDE DEF h
      <3> QED
        BY <2>2, <2>3 DEF LifecycleTyped
    <2>5. holder'[w].seen = holder[w].seen /\ holder'[w].pc = next
      <3> HIDE DEF next
      <3> QED
        BY <1>h, <2>4 DEF Holders
    <2> QED
      BY <1>0, <1>h, <2>4, <2>5, HolderKeeps
  <1> QED
    BY <1>1, <1>2, <1>3, <1>4, <1>5, <1>6, <1>7

\* A hook enters with the binding as it is, a registration where there is none.
LEMMA EnterSettled ==
    ASSUME LifecycleTyped, NEW w \in Rooms, RoutedTo(w),
           NEW kind \in Events \cap Lifecycle, NEW c \in 1 .. started, Enter(w, kind, c)
    PROVE  LifecycleTyped' /\ RoutedTo(w)'
  <1> DEFINE h == [pc |-> Handler(kind), kind |-> kind, client |-> c,
                   seen |-> IF kind = "register" THEN NoFile ELSE bind[w],
                   found |-> IF kind = "register" THEN c ELSE 0, late |-> FALSE, new |-> 0]
  <1>1. Handler(kind) \in {"drop", "turn", "beat", "end"} /\ c \in Nat
    BY DEF Handler, Lifecycle, LifecycleTyped
  <1>2. /\ h \in Holders /\ h.seen = bind[w] /\ h.pc \in {"drop", "turn", "beat", "end"}
    <2>1. (IF kind = "register" THEN NoFile ELSE bind[w]) = bind[w]
      BY DEF Enter, Known
    <2>2. bind[w] \in Owners \cup {NoFile}
      BY DEF LifecycleTyped
    <2> QED
      BY <1>1, <2>1, <2>2 DEF Holders, Steps
  <1>3. /\ holder' \in [Rooms -> Holders \cup {Idle}] /\ holder'[w] = h
        /\ \A v \in Rooms \ {w} : holder'[v] = holder[v]
    BY <1>2 DEF LifecycleTyped, Enter
  <1>4. UNCHANGED <<room, routed, bind, sess, client, started>>
    BY DEF Enter, Routing
  <1>5. Knows(w)'
    <2>1. holder'[w].seen = bind[w] /\ holder'[w].pc \in {"drop", "turn", "beat", "end"}
      BY <1>2, <1>3
    <2> QED
      BY <1>4, <2>1 DEF Knows, Seen
  <1> QED
    BY <1>3, <1>4, <1>5, HolderFrame DEF LifecycleTyped

\* A hook that is cut leaves the lock.
LEMMA CutSettled ==
    ASSUME LifecycleTyped, NEW w \in Rooms, RoutedTo(w), Cut(w)
    PROVE  LifecycleTyped' /\ RoutedTo(w)'
  <1>1. UNCHANGED <<room, routed, bind, sess, client, started>>
    BY DEF Cut, Routing
  <1> QED
    BY <1>1, HolderEnds, HolderFrame DEF Cut, LifecycleTyped

\* The holder writes the binding of its room, and with it nobody's session is lost.
LEMMA BindFrame ==
    ASSUME LifecycleTyped, NEW w \in Rooms, RoutedTo(w),
           UNCHANGED <<room, routed, sess, client, started>>,
           NEW b \in Owners \cup {NoFile}, bind' = [bind EXCEPT ![w] = b],
           holder' \in [Rooms -> Holders \cup {Idle}],
           \A v \in Rooms \ {w} : holder'[v] = holder[v],
           \A i \in Ids : HookOpen(i) => b # NoFile /\ b.id = i,
           holder'[w] # Idle => Knows(w)'
    PROVE  LifecycleTyped' /\ RoutedTo(w)'
  <1>1. bind'[w] = b /\ \A v \in Rooms \ {w} : bind'[v] = bind[v]
    BY DEF LifecycleTyped
  <1>2. LifecycleTyped'
    BY DEF LifecycleTyped
  <1> QED
    BY <1>1, <1>2 DEF RoutedTo, HookOpen

\* Dropping the client's facts keeps the binding's id.
LEMMA DropSettled ==
    ASSUME LifecycleTyped, NEW w \in Rooms, RoutedTo(w), Drop(w)
    PROVE  LifecycleTyped' /\ RoutedTo(w)'
  <1>0. /\ UNCHANGED <<room, routed, sess, client, started>>
        /\ holder[w].pc = "drop" /\ Goes(w, "probe") /\ "probe" \in Steps
    BY DEF Drop, HolderAt, Routing, World, Steps
  <1>h. holder[w] # Idle /\ Knows(w)
    BY <1>0, HolderIs DEF RoutedTo
  <1>1. CASE Seen(w) = NoFile
    <2>1. bind' = bind
      BY <1>1 DEF Drop
    <2> QED
      BY <1>0, <1>h, <1>1, <2>1, HolderGoes, HolderKeeps
  <1>2. CASE Seen(w) # NoFile
    <2> DEFINE b == Binding(Seen(w).id, 0)
    <2>1. b \in Owners /\ b # NoFile /\ b.id = Seen(w).id
      BY <1>h, <1>2, HolderIs, NoFileIs DEF Binding, Owners
    <2>2. bind' = [bind EXCEPT ![w] = b] /\ bind'[w] = b
      BY <1>2 DEF Drop, LifecycleTyped
    <2>3. \A i \in Ids : HookOpen(i) => b.id = i
      BY <1>0, <1>h, <2>1, OwnerSeen
    <2>4. Knows(w)'
      <3>1. holder'[w].pc = "probe" /\ holder'[w].seen = holder[w].seen
        BY <1>0, <1>h, HolderGoes
      <3> QED
        BY <1>2, <2>1, <2>2, <3>1 DEF Knows, Seen
    <2> HIDE DEF b
    <2> QED
      BY <1>0, <1>h, <2>1, <2>2, <2>3, <2>4, HolderGoes, BindFrame
  <1> QED
    BY <1>1, <1>2

\* The id that is given out is a new one.
LEMMA NewIdIs == NewIds # {} => NewId \in NewIds
  <1> SUFFICES ASSUME NewIds # {} PROVE \E i \in NewIds : \A j \in NewIds : i <= j
    BY DEF NewId
  <1>1. NewIds \subseteq Nat
    BY NoFileIs DEF NewIds
  <1> DEFINE Less == {ss \in Nat \X Nat : ss[1] < ss[2]}
  <1>2. IsWellFoundedOn(Less, Nat)
    BY NatLessThanWellFounded DEF OpToRel
  <1> HIDE DEF Less
  <1>3. PICK i \in NewIds : \A j \in NewIds : <<j, i>> \notin Less
    BY <1>1, <1>2, WFMin
  <1>4. \A j \in NewIds : ~(j < i)
    BY <1>1, <1>3 DEF Less
  <1> QED
    BY <1>1, <1>4

\* A new id is bound before its session is opened, when none is open.
LEMMA AllocateSettled ==
    ASSUME LifecycleTyped, NEW w \in Rooms, RoutedTo(w), Allocate(w)
    PROVE  LifecycleTyped' /\ RoutedTo(w)'
  <1>0. /\ UNCHANGED <<room, routed, sess, client, started>>
        /\ holder[w].pc = "allocate"
    BY DEF Allocate, HolderAt, Routing, World
  <1>h. holder[w] # Idle /\ holder[w] \in Holders /\ Knows(w)
    BY <1>0, HolderIs DEF RoutedTo
  <1>n. PICK n \in Ids : n = NewId /\ sess[n] = Absent /\ n \in Nat
    BY NewIdIs, NoFileIs DEF Allocate, NewIds
  <1> DEFINE b == Binding(n, 0)
             h == [holder[w] EXCEPT !.new = n, !.pc = "open"]
  <1>1. b \in Owners /\ b # NoFile /\ b.id = n
    BY NoFileIs DEF Binding, Owners
  <1>2. bind' = [bind EXCEPT ![w] = b] /\ bind'[w] = b
    BY <1>n DEF Allocate, LifecycleTyped
  <1>3. h \in Holders /\ h.pc = "open" /\ h.new = n
    BY <1>h, <1>n DEF Holders, Steps
  <1>4. /\ holder' \in [Rooms -> Holders \cup {Idle}] /\ holder'[w] = h
        /\ \A v \in Rooms \ {w} : holder'[v] = holder[v]
    <2>1. holder' = [holder EXCEPT ![w] = h]
      BY <1>n DEF Allocate
    <2> HIDE DEF h
    <2> QED
      BY <1>3, <2>1 DEF LifecycleTyped
  <1>5. \A i \in Ids : ~HookOpen(i)
    BY <1>0, <1>h DEF Knows
  <1>6. Knows(w)'
    BY <1>0, <1>n, <1>1, <1>2, <1>3, <1>4, <1>5 DEF Knows, HookOpen
  <1> HIDE DEF b, h
  <1> QED
    BY <1>0, <1>1, <1>2, <1>4, <1>5, <1>6, BindFrame

\* The binding is stored with the client's facts and the id it had.
LEMMA StoreSettled ==
    ASSUME LifecycleTyped, NEW w \in Rooms, RoutedTo(w), Store(w)
    PROVE  LifecycleTyped' /\ RoutedTo(w)'
  <1>0. /\ UNCHANGED <<room, routed, sess, client, started>>
        /\ holder[w].pc = "store" /\ Ends(w)
    BY DEF Store, HolderAt, Routing, World
  <1>h. holder[w] # Idle /\ Knows(w) /\ Found(w) \in Nat
    BY <1>0, HolderIs DEF RoutedTo
  <1> DEFINE b == Binding(holder[w].new, Found(w))
  <1>1. b \in Owners /\ b.id = bind[w].id /\ b # NoFile
    BY <1>0, <1>h, NoFileIs DEF Knows, Binding, Owners
  <1>2. bind' = [bind EXCEPT ![w] = b]
    BY DEF Store
  <1>3. \A i \in Ids : HookOpen(i) => b.id = i
    BY <1>1 DEF RoutedTo
  <1> HIDE DEF b
  <1> QED
    BY <1>0, <1>1, <1>2, <1>3, HolderEnds, BindFrame

\* A binding is given up when its session is not open.
LEMMA UnbindSettled ==
    ASSUME LifecycleTyped, NEW w \in Rooms, RoutedTo(w), EndUnbind(w)
    PROVE  LifecycleTyped' /\ RoutedTo(w)'
  <1>0. /\ UNCHANGED <<room, routed, sess, client, started>>
        /\ holder[w].pc = "unbind" /\ Ends(w) /\ bind' = [bind EXCEPT ![w] = NoFile]
    BY DEF EndUnbind, HolderAt, Routing, World
  <1>h. \A i \in Ids : ~HookOpen(i)
    BY <1>0, HolderIs DEF RoutedTo, Knows
  <1> QED
    BY <1>0, <1>h, HolderEnds, BindFrame

\* The record of session i becomes s.
Rewrites(i, s) ==
    /\ sess' \in [Ids -> Owned] /\ sess'[i] = s
    /\ \A j \in Ids \ {i} : sess'[j] = sess[j]

\* How the record of one session changes.
LEMMA RewritesIs ==
    ASSUME LifecycleTyped, NEW i \in Ids, NEW s \in Owned, sess' = [sess EXCEPT ![i] = s]
    PROVE  Rewrites(i, s)
  BY DEF Rewrites, LifecycleTyped

\* One session changes, and none is opened beside the one the binding names.
LEMMA SessionFrame ==
    ASSUME LifecycleTyped, NEW w \in Rooms, RoutedTo(w),
           UNCHANGED <<room, routed, bind, client, started>>,
           NEW i \in Ids, NEW s \in Owned, Rewrites(i, s),
           s # Absent => s.room = w,
           s.st = "open" /\ s.gen = 1 => bind[w] # NoFile /\ bind[w].id = i,
           s.gen = 2 => s.pid = 0,
           holder' \in [Rooms -> Holders \cup {Idle}],
           \A v \in Rooms \ {w} : holder'[v] = holder[v],
           holder'[w] # Idle => Knows(w)'
    PROVE  LifecycleTyped' /\ RoutedTo(w)'
  <1>1. sess'[i] = s /\ \A j \in Ids \ {i} : sess'[j] = sess[j]
    BY DEF Rewrites
  <1>2. LifecycleTyped'
    BY DEF LifecycleTyped, Rewrites
  <1> QED
    BY <1>1, <1>2 DEF RoutedTo, HookOpen

\* A resumption is of the open session that the binding names; otherwise none
\* is open, and a new one may be allocated.
LEMMA ResumeSettled ==
    ASSUME LifecycleTyped, NEW w \in Rooms, RoutedTo(w), Resume(w)
    PROVE  LifecycleTyped' /\ RoutedTo(w)'
  <1>0. /\ UNCHANGED <<room, routed, bind, client, started>>
        /\ holder[w].pc = "resume"
    BY DEF Resume, HolderAt, Routing, World
  <1>h. holder[w] # Idle /\ holder[w] \in Holders /\ Knows(w) /\ Found(w) \in Nat
    BY <1>0, HolderIs DEF RoutedTo
  <1>s. Seen(w) # NoFile /\ Seen(w).id \in Ids /\ Seen(w).gen = 1 /\ bind[w] # NoFile
        /\ bind[w].id = Seen(w).id
    BY <1>0, <1>h, HolderIs DEF Knows
  <1>1. CASE ~Open(Seen(w))
    <2>1. sess' = sess /\ Goes(w, "allocate") /\ "allocate" \in Steps
      BY <1>1 DEF Resume, Resumable, Steps
    <2> QED
      BY <1>0, <1>h, <1>1, <2>1, HolderGoes, HolderKeeps
  <1>2. CASE Open(Seen(w))
    <2>n. PICK n \in Ids : n = Seen(w).id /\ n \in Nat
      BY <1>s, NoFileIs
    <2> DEFINE s == [sess[n] EXCEPT !.pid = Found(w)]
               h == [holder[w] EXCEPT !.new = n, !.pc = "store"]
    <2>1. /\ sess' = [sess EXCEPT ![n] = s] /\ holder' = [holder EXCEPT ![w] = h]
      BY <1>2, <2>n DEF Resume, Resumable
    <2>2. /\ s \in Owned /\ s.gen = 1 /\ s.st = "open" /\ s.room = sess[n].room
          /\ sess[n].st = "open"
      BY <1>2, <1>s, <1>h, <2>n DEF LifecycleTyped, Owned, Open
    <2>3. s.room = w
      BY <2>2 DEF RoutedTo, Absent
    <2>4. h \in Holders /\ h.pc = "store" /\ h.new = n
      BY <1>h, <2>n DEF Holders, Steps
    <2>5. /\ holder' \in [Rooms -> Holders \cup {Idle}] /\ holder'[w] = h
          /\ \A v \in Rooms \ {w} : holder'[v] = holder[v]
      <3> HIDE DEF h
      <3> QED
        BY <2>1, <2>4 DEF LifecycleTyped
    <2>6. Knows(w)'
      BY <1>0, <1>s, <2>n, <2>4, <2>5 DEF Knows
    <2> HIDE DEF s, h
    <2>7. Rewrites(n, s)
      BY <2>1, <2>2, RewritesIs
    <2> QED
      BY <1>0, <1>s, <2>n, <2>2, <2>3, <2>5, <2>6, <2>7, SessionFrame
  <1> QED
    BY <1>1, <1>2

\* The session that is opened is the one the binding names.
LEMMA OpenSettled ==
    ASSUME LifecycleTyped, NEW w \in Rooms, RoutedTo(w), OpenOwned(w)
    PROVE  LifecycleTyped' /\ RoutedTo(w)'
  <1>0. /\ UNCHANGED <<room, routed, bind, client, started>>
        /\ holder[w].pc = "open" /\ Goes(w, "store") /\ "store" \in Steps
    BY DEF OpenOwned, HolderAt, Routing, World, Steps
  <1>h. holder[w] # Idle /\ Knows(w) /\ Found(w) \in Nat
    BY <1>0, HolderIs DEF RoutedTo
  <1>n. PICK n \in Ids : n = holder[w].new /\ bind[w] # NoFile /\ bind[w].id = n
    BY <1>0, <1>h DEF Knows
  <1> DEFINE s == [st |-> "open", gen |-> 1, pid |-> Found(w), room |-> w]
  <1>1. s \in Owned /\ s.room = w /\ s.gen = 1
    BY <1>h DEF Owned
  <1>2. sess' = [sess EXCEPT ![n] = s]
    BY <1>n DEF OpenOwned
  <1>3. Knows(w)'
    <2>1. holder'[w].pc = "store" /\ holder'[w].new = n
      BY <1>0, <1>h, <1>n, HolderGoes
    <2> QED
      BY <1>0, <1>n, <2>1 DEF Knows
  <1> HIDE DEF s
  <1>4. Rewrites(n, s)
    BY <1>1, <1>2, RewritesIs
  <1>5. /\ holder' \in [Rooms -> Holders \cup {Idle}]
        /\ \A v \in Rooms \ {w} : holder'[v] = holder[v]
    BY <1>0, <1>h, HolderGoes
  <1> QED
    BY <1>0, <1>n, <1>1, <1>3, <1>4, <1>5, SessionFrame

\* A session that closes, or that its user replaces, stops being the hooks'.
LEMMA LostFrame ==
    ASSUME LifecycleTyped, NEW w \in Rooms, RoutedTo(w),
           UNCHANGED <<room, routed, bind, client, started>>,
           NEW i \in Ids, NEW s \in Owned, Rewrites(i, s),
           sess[i] # Absent, s.room = sess[i].room, s.st # "open" \/ s.gen = 2,
           s.gen = 2 => s.pid = 0,
           holder' = holder
    PROVE  LifecycleTyped' /\ RoutedTo(w)'
  <1>1. sess'[i] = s /\ \A j \in Ids \ {i} : sess'[j] = sess[j]
    BY DEF Rewrites
  <1>2. s.room = w
    BY DEF RoutedTo
  <1>3. \A j \in Ids : HookOpen(j)' => HookOpen(j)
    BY <1>1 DEF HookOpen
  <1>4. ASSUME holder[w] # Idle PROVE Knows(w)'
    <2>1. Knows(w)
      BY <1>4 DEF RoutedTo
    <2>2. holder[w].pc = "open" => holder[w].new \in Ids /\ sess'[holder[w].new] = Absent
      BY <1>1, <2>1 DEF Knows
    <2> QED
      BY <1>3, <2>1, <2>2 DEF Knows, Seen
  <1>5. holder' \in [Rooms -> Holders \cup {Idle}] /\ \A v \in Rooms \ {w} : holder'[v] = holder[v]
    BY DEF LifecycleTyped
  <1> QED
    BY <1>2, <1>4, <1>5, SessionFrame

\* What a closed session keeps.
LEMMA ClosingIs ==
    ASSUME LifecycleTyped, NEW i \in Ids, Closing(i)
    PROVE  \E s \in Owned : /\ sess' = [sess EXCEPT ![i] = s] /\ s.st # "open"
                            /\ s.room = sess[i].room /\ s.gen = sess[i].gen /\ s.pid = sess[i].pid
  <1>1. PICK st \in {"closed", "gone"} : sess' = [sess EXCEPT ![i].st = st]
    BY DEF Closing
  <1>2. [sess[i] EXCEPT !.st = st] \in Owned
    BY DEF LifecycleTyped, Owned
  <1>3. sess' = [sess EXCEPT ![i] = [sess[i] EXCEPT !.st = st]]
    BY <1>1
  <1> QED
    BY <1>2, <1>3 DEF LifecycleTyped, Owned

\* A session that its hook closes was the only open one.
LEMMA EndCloseSettled ==
    ASSUME LifecycleTyped, NEW w \in Rooms, RoutedTo(w), EndClose(w)
    PROVE  LifecycleTyped' /\ RoutedTo(w)'
  <1>0. /\ UNCHANGED <<room, routed, bind, client, started>>
        /\ holder[w].pc = "close"
    BY DEF EndClose, HolderAt, Routing, World
  <1>h. holder[w] # Idle /\ Knows(w)
    BY <1>0, HolderIs DEF RoutedTo
  <1>1. CASE ~Open(Seen(w))
    <2>1. sess' = sess /\ Ends(w)
      BY <1>1 DEF EndClose
    <2> QED
      BY <1>0, <1>h, <2>1, HolderEnds, HolderKeeps
  <1>2. CASE Open(Seen(w))
    <2>n. PICK n \in Ids : n = Seen(w).id /\ sess[n].st = "open" /\ sess[n].gen = 1
      BY <1>0, <1>2, <1>h, HolderIs DEF Knows, Open
    <2>1. Closing(n) /\ Goes(w, "unbind") /\ "unbind" \in Steps
      BY <1>2, <2>n DEF EndClose, Steps
    <2>2. PICK s \in Owned : /\ sess' = [sess EXCEPT ![n] = s] /\ s.st # "open"
                             /\ s.room = sess[n].room /\ s.gen = sess[n].gen
      BY <2>1, ClosingIs
    <2>3. s.room = w /\ s.gen = 1
      BY <2>n, <2>2 DEF RoutedTo, Absent
    <2>4. holder'[w].pc = "unbind" /\ holder'[w].seen = holder[w].seen
      BY <1>h, <2>1, HolderGoes
    <2>5. \A i \in Ids : ~HookOpen(i)'
      <3>1. \A i \in Ids : HookOpen(i) => i = n
        BY <1>0, <1>h, <2>n, OwnerSeen
      <3>2. sess'[n] = s /\ \A j \in Ids \ {n} : sess'[j] = sess[j]
        BY <2>2 DEF LifecycleTyped
      <3> QED
        BY <2>2, <3>1, <3>2 DEF HookOpen
    <2>6. Knows(w)'
      <3>1. Seen(w)' = Seen(w) /\ Seen(w) # NoFile /\ bind[w] # NoFile /\ bind[w].id = Seen(w).id
        BY <1>0, <1>h, <2>4 DEF Knows, Seen
      <3> QED
        BY <1>0, <2>4, <2>5, <3>1 DEF Knows
    <2>7. Rewrites(n, s)
      BY <2>2, RewritesIs
    <2>8. /\ holder' \in [Rooms -> Holders \cup {Idle}]
          /\ \A v \in Rooms \ {w} : holder'[v] = holder[v]
      BY <1>h, <2>1, HolderGoes
    <2> QED
      BY <1>0, <2>2, <2>3, <2>6, <2>7, <2>8, SessionFrame
  <1> QED
    BY <1>1, <1>2

\* The user closes or replaces a session.
LEMMA UserSettled ==
    ASSUME LifecycleTyped, NEW w \in Rooms, RoutedTo(w), NEW i \in Ids, Detach(i) \/ Replace(i)
    PROVE  LifecycleTyped' /\ RoutedTo(w)'
  <1>0. UNCHANGED <<room, routed, bind, holder, client, started>>
    BY DEF Detach, Replace, Routing
  <1>1. CASE Detach(i)
    <2>1. PICK s \in Owned : /\ sess' = [sess EXCEPT ![i] = s] /\ s.st # "open"
                             /\ s.room = sess[i].room /\ s.gen = sess[i].gen /\ s.pid = sess[i].pid
      BY <1>1, ClosingIs DEF Detach
    <2>2. sess[i] # Absent
      BY <1>1 DEF Detach, Absent
    <2>3. s.gen = 2 => s.pid = 0
      BY <2>1 DEF RoutedTo
    <2> QED
      BY <1>0, <2>1, <2>2, <2>3, RewritesIs, LostFrame
  <1>2. CASE Replace(i)
    <2> DEFINE s == [sess[i] EXCEPT !.st = "open", !.gen = 2, !.pid = 0]
    <2>1. s \in Owned /\ s.gen = 2 /\ s.pid = 0 /\ s.room = sess[i].room
      BY DEF LifecycleTyped, Owned
    <2>2. sess' = [sess EXCEPT ![i] = s] /\ sess[i] # Absent
      BY <1>2 DEF Replace
    <2> HIDE DEF s
    <2> QED
      BY <1>0, <2>1, <2>2, RewritesIs, LostFrame
  <1> QED
    BY <1>1, <1>2

\* The first hook's room is everybody's.
LEMMA ChooseSettles ==
    ASSUME LifecycleTyped, Unrouted \/ \E v \in Rooms : RoutedTo(v), NEW w \in Rooms, Choose(w)
    PROVE  LifecycleInv'
  <1>0. UNCHANGED <<bind, sess, holder, client, started>>
    BY DEF Choose, World
  <1>1. LifecycleTyped'
    BY <1>0 DEF LifecycleTyped
  <1>2. CASE Unrouted
    <2>1. room' = w /\ routed' = {w}
      BY <1>2 DEF Choose, Chosen, Unrouted
    <2>2. \A i \in Ids : ~HookOpen(i) /\ sess[i].gen = 1
      BY <1>2 DEF Unrouted, HookOpen, Absent
    <2>3. RoutedTo(w)'
      BY <1>0, <1>2, <2>1, <2>2 DEF Unrouted, RoutedTo, HookOpen
    <2> QED
      BY <1>1, <2>3 DEF LifecycleInv
  <1>3. ASSUME NEW v \in Rooms, RoutedTo(v) PROVE LifecycleInv'
    <2>1. room' = v /\ routed' = {v}
      BY <1>3, NoFileIs DEF Choose, Chosen, RoutedTo
    <2>2. RoutedTo(v)'
      BY <1>0, <1>3, <2>1 DEF RoutedTo, HookOpen, Knows, Seen
    <2> QED
      BY <1>1, <2>2 DEF LifecycleInv
  <1> QED
    BY <1>2, <1>3

\* Clients come and go, and hooks arrive, without touching the records.
LEMMA WorldSettled ==
    ASSUME LifecycleInv,
           ClientExits \/ ClientStarts \/ (\E w \in Rooms : Arrive(w)) \/ UNCHANGED hvars
    PROVE  LifecycleInv'
  <1>0. UNCHANGED <<room, routed, bind, sess, holder>> /\ client' \in Nat /\ started' \in Nat
    BY DEF ClientExits, ClientStarts, Arrive, Routing, World, hvars, LifecycleInv, LifecycleTyped
  <1>1. LifecycleTyped'
    BY <1>0 DEF LifecycleInv, LifecycleTyped
  <1>2. CASE Unrouted
    BY <1>0, <1>1, <1>2 DEF LifecycleInv, Unrouted
  <1>3. ASSUME NEW w \in Rooms, RoutedTo(w) PROVE RoutedTo(w)'
    BY <1>0, <1>3 DEF RoutedTo, HookOpen, Knows, Seen
  <1> QED
    BY <1>1, <1>2, <1>3 DEF LifecycleInv

\* Every step keeps the invariant.
LEMMA LifecycleNext == LifecycleInv /\ [HNext]_hvars => LifecycleInv'
  <1> SUFFICES ASSUME LifecycleInv, [HNext]_hvars PROVE LifecycleInv'
    OBVIOUS
  <1>t. LifecycleTyped /\ (Unrouted \/ \E w \in Rooms : RoutedTo(w))
    BY DEF LifecycleInv
  <1>1. CASE ClientExits \/ ClientStarts \/ (\E w \in Rooms : Arrive(w)) \/ UNCHANGED hvars
    BY <1>1, WorldSettled
  <1>2. ASSUME NEW w \in Rooms, Choose(w) PROVE LifecycleInv'
    BY <1>2, <1>t, ChooseSettles
  <1>3. ASSUME NEW w \in Rooms,
               \/ HolderStep(w) \/ Cut(w)
               \/ \E kind \in Events \cap Lifecycle, c \in 1 .. started : Enter(w, kind, c)
        PROVE  LifecycleInv'
    <2>1. holder[w] # Idle \/ w \in routed
      <3>1. CASE HolderStep(w)
        <4>1. \E p \in Steps : HolderAt(w, p)
          BY <3>1 DEF HolderStep, Steps, TurnStarts, TurnRestarts, TurnPasses, Heartbeat, Drop,
             Probe, Check, Resume, Allocate, OpenOwned, Store, EndLook, EndClose, EndUnbind
        <4> QED
          BY <4>1 DEF HolderAt, Idle, Steps
      <3> QED
        BY <1>3, <3>1 DEF Cut, Enter
    <2>2. RoutedTo(w)
      BY <1>t, <2>1 DEF Unrouted, RoutedTo
    <2>3. LifecycleTyped' /\ RoutedTo(w)'
      BY <1>3, <1>t, <2>2, TurnSettled, DropSettled, ResumeSettled, AllocateSettled, OpenSettled,
         StoreSettled, EndCloseSettled, UnbindSettled, CutSettled, EnterSettled DEF HolderStep
    <2> QED
      BY <2>3 DEF LifecycleInv
  <1>4. ASSUME NEW i \in Ids, Detach(i) \/ Replace(i) PROVE LifecycleInv'
    <2>1. sess[i] # Absent
      BY <1>4 DEF Detach, Replace, Absent
    <2>2. PICK w \in Rooms : RoutedTo(w)
      BY <1>t, <2>1 DEF Unrouted
    <2> QED
      BY <1>4, <1>t, <2>2, UserSettled DEF LifecycleInv
  <1> QED
    BY <1>1, <1>2, <1>3, <1>4 DEF HNext

\* Nothing is routed, bound or open at first.
LEMMA LifecycleInit == HInit => LifecycleInv
  <1> SUFFICES ASSUME HInit PROVE LifecycleInv
    OBVIOUS
  <1>1. LifecycleTyped
    BY DEF HInit, LifecycleTyped, Absent, Owned, Rooms
  <1>2. Unrouted
    BY DEF HInit, Unrouted
  <1> QED
    BY <1>1, <1>2 DEF LifecycleInv

\* However hooks race, die and are repeated, the conversation has one open
\* session at most, which its binding names, and no hook takes over the session
\* that a user attached in its place.
THEOREM OneOwnerStays == HSpec => []OneOwner
  <1>1. LifecycleInv => OneOwner
    <2>1. ASSUME LifecycleTyped, Unrouted PROVE OneOwner
      BY <2>1 DEF Unrouted, OneOwner, HookOpen, Absent
    <2>2. ASSUME LifecycleTyped, NEW w \in Rooms, RoutedTo(w) PROVE OneOwner
      <3>1. \A i \in Ids : HookOpen(i) => sess[i].room = w
        BY <2>2 DEF RoutedTo, HookOpen, Absent
      <3> QED
        BY <2>2, <3>1 DEF RoutedTo, OneOwner
    <2> QED
      BY <2>1, <2>2 DEF LifecycleInv
  <1> QED
    BY <1>1, LifecycleInit, LifecycleNext, PTL DEF HSpec

=============================================================================
