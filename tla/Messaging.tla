----------------------------- MODULE Messaging ------------------------------
(***************************************************************************)
(* One guest and one hotel's staff: guest messages from the provider's     *)
(* webhook through the inbound queues to the shared pipeline, and staff    *)
(* replies with their delayed, undoable send                               *)
(* (controllers/whatsapp.controller.ts, controllers/instagram.controller.ts,*)
(* workers/whatsappInbound.worker.ts, workers/instagram.worker.ts,         *)
(* workers/outboundSend.worker.ts, services/message.service.ts,            *)
(* controllers/message.controller.ts), with what the provider reports and  *)
(* mirrors back and what history sync imports (services/history.service.ts,*)
(* services/echoPersist.service.ts, workers/historyMedia.worker.ts).       *)
(*                                                                         *)
(* Every await is a step.  The bot is a choice between an answer, silence  *)
(* and a failure: module Flow is what it does, and module Channel what     *)
(* becomes of what it sends.  All that is sent is sent within one 24-hour  *)
(* conversation window.                                                    *)
(***************************************************************************)
EXTENDS Integers, FiniteSets, Channel

CONSTANTS
    Messages,      \* messages the guest may send
    Replies,       \* replies the staff may send
    Uploads,       \* the replies that are media, sent from the dashboard
    Phone,         \* the replies that are typed on the hotel's phone
    Chunks,        \* webhooks of the history sync
    Final,          \* the one that ends it
    Synced,        \* Synced[c]: the message in chunk c
    Worlds,        \* bound: what may come up together, in which hotel, which of the
                   \* acts delete, read, undo and report (the provider's) there
                   \* are, and how many crashes, stalls and failed calls
    Instagram,     \* messages and replies over Instagram, the others over WhatsApp
    Media,         \* the messages that are media
    Payloads,      \* what a flow may send itself
    RateLimit,     \* staff replies to a guest within a minute
    Workers,       \* slots of the two inbound workers
    Senders,       \* slots of the outbound worker
    MaxDeliveries, \* bound: deliveries of one message
    MaxAttempts    \* attempts of a job
ASSUME MessagingAssumption ==
    /\ Instagram \subseteq Messages \cup Replies /\ Media \subseteq Messages \ Instagram
    /\ Uploads \subseteq Replies \ Instagram /\ Phone \subseteq Replies \ Uploads
    /\ Messages \cap Replies = {} /\ Workers \cap Senders = {}
    /\ Final \in Chunks /\ Synced \in [Chunks -> Messages \ Instagram]
    /\ \A w \in Worlds : w.items \subseteq Messages \cup Replies \cup Chunks /\ w.faults \in Nat
    /\ \A w \in Worlds : w.acts \subseteq {"delete", "read", "undo", "report"}
    /\ MaxDeliveries \in Nat /\ MaxAttempts \in Nat \ {0}

VARIABLES
    world,         \* what comes up
    deliveries,    \* deliveries[m]: webhooks of m so far
    acked,         \* messages the provider read a 200 for
    intake,        \* Instagram webhooks acknowledged and not yet recorded
    event,         \* event[m]: the WebhookEvent row
    job,           \* job[i]: the job of a message or of a delayed reply
    held,          \* held[k]: what a worker is doing
    row,           \* row[m]: the guest's message in the database
    byStaff,       \* Guest.lastHandledByStaff
    reply,         \* reply[r]: status of the staff's message row
    compose,       \* compose[r]: where sendManualReply is
    undo,          \* undo[r]: where undoSend is
    undone,        \* replies whose undo was answered with success
    sent,          \* sent[i]: times the guest was sent reply i, or the bot's reply to i;
                   \* the attempts within one channel call count as one
    counted,       \* conversations metered
    unnoted,       \* messages whose rich answer was sent and then failed to be noted
    rate,          \* the rate counter of the guest, and whether it expires
    named,         \* items whose own row bears the provider's message id
    reports,       \* reports[r]: status webhooks that have read row r
    echo,          \* echo[i]: what the provider mirrors back of item i
    wiping,        \* items whose deletion has begun
    wiped,         \* items marked as deleted
    seen,          \* messages marked as read
    sync,          \* Hotel.historySyncStatus
    chunk,         \* chunk[c]: where processHistoryWebhook is
    backfill,      \* backfill[m]: the media job of an imported message
    letters,       \* dead letters
    unrecorded,    \* losses that left nothing but a line in the log
    faults

vars == <<world, deliveries, acked, intake, event, job, held, row, byStaff, reply, compose,
          undo, undone, sent, counted, unnoted, rate, named, reports, echo, wiping, wiped, seen,
          sync, chunk, backfill, letters, unrecorded, faults>>
hook == <<deliveries, acked, intake, event>>
staff == <<byStaff, reply, compose, undo, undone>>
guest == <<row, sent, counted, unnoted>>
mirror == <<named, reports, echo>>
aside == <<rate, mirror, wiping, wiped, seen, sync, chunk, backfill>>
pipeline == <<world, hook, job, held, byStaff, compose, undo, undone, sent, counted, unnoted>>
failures == <<letters, unrecorded, faults>>

Items == Messages \cup Replies
Runners == Workers \cup Senders
NoItem == "none"
NoRunner == "nobody"

JobState == {"none", "waiting", "active", "finished", "dead"}
NoJob == [state |-> "none", made |-> 0, holder |-> NoRunner, stalled |-> FALSE]
Idle == [pc |-> "idle", item |-> NoItem, off |-> FALSE]

At(k, pc) == held[k].pc = pc
Item(k) == held[k].item
Goto(k, pc) == held' = [held EXCEPT ![k].pc = pc]
Fault == faults < world.faults /\ faults' = faults + 1

\* A call with one of `outcomes`; that it fails where it need not is a fault.
Calls(i, outcomes, o) ==
    /\ o \in outcomes
    /\ sent' = [sent EXCEPT ![i] = IF Reaches(o) THEN @ + 1 ELSE @]
    /\ IF Fails(o) /\ outcomes # {o} THEN Fault ELSE UNCHANGED faults

\* Over Instagram a text may take two chunks.
Text(i) == SendChannelMessage(world.hotel, i \in Instagram, 2)

-----------------------------------------------------------------------------
(* The queues *)

\* An add whose jobId is still known is ignored.
Enqueue(i) == job' = [job EXCEPT ![i] = IF @.state = "none" THEN [NoJob EXCEPT !.state = "waiting"] ELSE @]

Serves(k, i) == (k \in Workers) <=> (i \in Messages)

\* A delayed job is due whenever it is taken; which of the free slots takes a
\* job makes no difference.
Free(i) == {k \in Runners : At(k, "idle") /\ Serves(k, i)}
Take(k, i) ==
    /\ job[i].state = "waiting" /\ k \in Free(i) /\ k = CHOOSE free \in Free(i) : TRUE
    /\ job' = [job EXCEPT ![i].state = "active", ![i].holder = k]
    /\ held' = [held EXCEPT ![k] = [Idle EXCEPT !.item = i,
                  !.pc = IF i \in Replies THEN "claim send" ELSE IF i \in Instagram THEN "claim" ELSE "lookup"]]
    /\ UNCHANGED <<world, aside, hook, staff, guest, failures>>

\* The end of an attempt counts only for the runner that still holds the job.
Mine(k) == job[Item(k)].state = "active" /\ job[Item(k)].holder = k
Finish(k) ==
    /\ held' = [held EXCEPT ![k] = Idle]
    /\ job' = IF Mine(k) THEN [job EXCEPT ![Item(k)].state = "finished"] ELSE job

Retried_OneMore(j) == [j EXCEPT !.state = IF j.made < MaxAttempts THEN "waiting" ELSE "dead", !.made = @ + 1]
Retried_Dropped(j) == [j EXCEPT !.state = "finished"]

Retried(j) ==
    IF j.made + 1 < MaxAttempts THEN [j EXCEPT !.state = "waiting", !.made = @ + 1]
    ELSE [j EXCEPT !.state = "dead", !.made = @ + 1]

\* A thrown attempt: retried while attempts are left.  The failed handler of
\* WhatsApp and of the sender writes a dead letter after every attempt,
\* Instagram's after the last; a letter that cannot be written is logged.
Throws(k) ==
    /\ held' = [held EXCEPT ![k] = Idle]
    /\ IF Mine(k)
       THEN /\ job' = [job EXCEPT ![Item(k)] = Retried(@)]
            /\ IF Item(k) \in Instagram /\ job'[Item(k)].state # "dead"
               THEN UNCHANGED <<letters, unrecorded>>
               ELSE \/ letters' = letters \cup {Item(k)} /\ UNCHANGED unrecorded
                    \/ unrecorded' = unrecorded \cup {Item(k)} /\ UNCHANGED letters
       ELSE UNCHANGED <<job, letters, unrecorded>>

Stalled_Dropped(j) == IF j.state = "active" THEN [j EXCEPT !.state = "finished"] ELSE j

\* maxStalledCount: 1.  A job whose runner is gone is run again, once.
Stalled(j) ==
    IF j.state # "active" THEN j
    ELSE IF j.stalled THEN [j EXCEPT !.state = "dead"]
    ELSE [j EXCEPT !.state = "waiting", !.stalled = TRUE]

\* Jobs that failed by stalling, and what only the log tells besides.  The
\* failed handler of WhatsApp and of the sender writes a letter, if it can;
\* Instagram's counts the attempts, finds some left, and logs a retry to come.
GaveUp(items, logged) ==
    \E written \in SUBSET (items \ Instagram) :
        /\ letters' = letters \cup written
        /\ unrecorded' = unrecorded \cup (items \ written) \cup logged

\* The lock of a job is lost to the stalled check while its runner goes on.
Stall(i) ==
    /\ job[i].state = "active" /\ Fault
    /\ job' = [job EXCEPT ![i] = Stalled(@)]
    /\ GaveUp({n \in {i} : job'[n].state = "dead"}, {})
    /\ UNCHANGED <<world, aside, hook, held, staff, guest>>

\* The one process that serves requests and runs the workers restarts.
Crash ==
    /\ Fault
    /\ job' = [i \in Items |-> Stalled(job[i])]
    /\ GaveUp({i \in Items : job[i].state = "active" /\ job'[i].state = "dead"}, intake)
    /\ held' = [k \in Runners |-> Idle]
    /\ compose' = [r \in Replies |-> IF compose[r] = "idle" THEN "idle" ELSE "over"]
    /\ undo' = [r \in Replies |-> "idle"]
    /\ intake' = {}
    /\ reports' = [r \in Replies |-> {}] /\ wiping' = {}
    /\ echo' = [i \in Items |-> IF echo[i] # "read" THEN echo[i] ELSE IF i \in Instagram THEN "none" ELSE "known"]
    /\ chunk' = [c \in Chunks |-> IF chunk[c] = "none" THEN "none" ELSE "over"]
    /\ backfill' = [m \in Messages |-> IF backfill[m] = "fetch" THEN "waiting" ELSE backfill[m]]
    /\ UNCHANGED <<world, deliveries, acked, event, byStaff, reply, undone, guest,
                   rate, named, wiped, seen, sync>>

\* removeOnComplete, removeOnFail: later jobs push this one out.
Forget(i) ==
    /\ job[i].state \in {"finished", "dead"}
    /\ job' = [job EXCEPT ![i] = NoJob]
    /\ UNCHANGED <<world, aside, hook, held, staff, guest, failures>>

-----------------------------------------------------------------------------
(* The webhooks *)

Delivered(m) ==
    /\ m \in world.items /\ deliveries[m] < MaxDeliveries
    /\ deliveries' = [deliveries EXCEPT ![m] = @ + 1]

\* WhatsApp: the job is added before the 200.
DeliverWhatsApp(m) ==
    /\ m \notin Instagram /\ Delivered(m)
    /\ Enqueue(m) /\ acked' = acked \cup {m}
    /\ UNCHANGED <<world, aside, intake, event, held, staff, guest, failures>>

\* The add fails: 500, and Meta delivers again.
DeliverFails(m) ==
    /\ m \notin Instagram /\ Delivered(m) /\ Fault
    /\ UNCHANGED <<world, aside, acked, intake, event, job, held, staff, guest, letters, unrecorded>>

\* Instagram: 200 first, then a row that may exist already, then the job.
DeliverInstagram(m) ==
    /\ m \in Instagram /\ Delivered(m) /\ m \notin intake
    /\ acked' = acked \cup {m} /\ intake' = intake \cup {m}
    /\ UNCHANGED <<world, aside, event, job, held, staff, guest, failures>>

RecordEvent(m) ==
    /\ m \in intake /\ event[m] = "none"
    /\ event' = [event EXCEPT ![m] = "open"]
    /\ UNCHANGED <<world, aside, deliveries, acked, intake, job, held, staff, guest, failures>>

EnqueueEvent(m) ==
    /\ m \in intake /\ event[m] # "none"
    /\ Enqueue(m) /\ intake' = intake \ {m}
    /\ UNCHANGED <<world, aside, deliveries, acked, event, held, staff, guest, failures>>

\* What fails after the 200 is logged, and nobody delivers again.
IntakeFails(m) ==
    /\ m \in intake /\ Fault
    /\ intake' = intake \ {m} /\ unrecorded' = unrecorded \cup {m}
    /\ UNCHANGED <<world, aside, deliveries, acked, event, job, held, staff, guest, letters>>

-----------------------------------------------------------------------------
(* logIncomingMessage *)

\* Instagram: the claim marks nothing, it only turns away what is processed.
Claim(k) ==
    /\ At(k, "claim")
    /\ IF event[Item(k)] = "open" THEN Goto(k, "lookup") /\ UNCHANGED job ELSE Finish(k)
    /\ UNCHANGED <<world, aside, hook, staff, guest, failures>>

\* Where the worker goes when logIncomingMessage returns.
After(i) == IF i \in Media THEN "download" ELSE IF i \in Instagram THEN "mark" ELSE "done"

\* The guest, and the message if it is there; lastHandledByStaff is read now.
Lookup(k) ==
    /\ At(k, "lookup")
    /\ held' = [held EXCEPT ![k].off = byStaff,
                            ![k].pc = IF row[Item(k)] = "none" THEN "persist" ELSE After(Item(k))]
    /\ UNCHANGED <<world, aside, hook, job, staff, guest, failures>>

Persist_NoKey(k) ==
    /\ At(k, "persist")
    /\ row' = [row EXCEPT ![Item(k)] = IF Item(k) \in Media THEN "pending" ELSE "stored"]
    /\ Goto(k, IF Item(k) \in Media THEN "download" ELSE "meter")
    /\ UNCHANGED <<world, aside, hook, job, staff, sent, counted, unnoted, failures>>

\* (hotelId, wamid) is unique: the second of two creates throws.
Persist(k) ==
    /\ At(k, "persist")
    /\ IF row[Item(k)] = "none"
       THEN /\ row' = [row EXCEPT ![Item(k)] = IF Item(k) \in Media THEN "pending" ELSE "stored"]
            /\ Goto(k, IF Item(k) \in Media THEN "download" ELSE "meter")
            /\ UNCHANGED <<job, letters, unrecorded>>
       ELSE Throws(k) /\ UNCHANGED row
    /\ UNCHANGED <<world, aside, hook, staff, sent, counted, unnoted, faults>>

\* The provider's echo of item i has made a row of its own.
Mirrored(i) == echo[i] = "stored"

\* Other rows of this guest: a prior message, the staff's or the bot's.
Others(m) == (\E n \in Messages \ {m} : row[n] # "none") \/ (\E r \in Replies : reply[r] \notin {"none", "gone"})

\* A hotel that is not suspended is metered for the first message of a window;
\* the increment is not awaited and its failure is logged.  A suspended or
\* exhausted hotel's bot, and one the staff took over from, is off.
Meter(k, suspended, off) ==
    /\ At(k, "meter")
    /\ suspended => off
    /\ counted' = IF suspended \/ Others(Item(k)) THEN counted ELSE counted + 1
    /\ held' = [held EXCEPT ![k].pc = IF off \/ held[k].off THEN "notify" ELSE "bot"]
    /\ UNCHANGED <<world, aside, hook, job, row, staff, sent, unnoted, failures>>

Notify(k) ==
    /\ At(k, "notify")
    /\ Goto(k, After(Item(k)))
    /\ UNCHANGED <<world, aside, hook, job, staff, row, sent, counted, unnoted, failures>>

\* botProcess: a text to send, or nothing, ...
Bot(k) ==
    /\ At(k, "bot")
    /\ Goto(k, "send") \/ Goto(k, After(Item(k)))
    /\ UNCHANGED <<world, aside, hook, job, staff, guest, failures>>

\* ... or what it sends itself, through sendOutbound: when that cannot be sent,
\* or fails, the caller's text is sent instead.
SendOutbound(k, p) ==
    /\ At(k, "bot")
    /\ LET outcomes == Rendered(world.hotel, Item(k) \in Instagram, p) IN
       \E o \in outcomes :
          /\ Calls(Item(k), outcomes, o)
          /\ unnoted' = IF o = "lost" THEN unnoted \cup {Item(k)} ELSE unnoted
          /\ Goto(k, IF ~Accepted(o) THEN "send" ELSE IF SelfPersisted(p) THEN After(Item(k)) ELSE "save")
    /\ UNCHANGED <<world, aside, hook, job, staff, row, counted, letters, unrecorded>>

\* Its row, written only now.  A row that cannot be written counts as a failure
\* of the send, and so does one that the echo of the send has written first.
SaveOutbound(k) ==
    /\ At(k, "save")
    /\ \/ /\ ~Mirrored(Item(k))
          /\ named' = named \cup {Item(k)} /\ Goto(k, After(Item(k))) /\ UNCHANGED <<unnoted, faults>>
       \/ /\ IF Mirrored(Item(k)) THEN UNCHANGED faults ELSE Fault
          /\ unnoted' = unnoted \cup {Item(k)} /\ Goto(k, "send") /\ UNCHANGED named
    /\ UNCHANGED <<world, hook, job, staff, row, sent, counted, letters, unrecorded,
                   rate, reports, echo, wiping, wiped, seen, sync, chunk, backfill>>

\* A send that fails is recorded as FAILED and not tried again.
Send(k) ==
    /\ At(k, "send") /\ Goto(k, "record")
    /\ \E o \in Outcome : Calls(Item(k), Text(Item(k)), o)
    /\ UNCHANGED <<world, aside, hook, job, staff, row, counted, unnoted, letters, unrecorded>>

\* The OUT row; over Instagram the echo of the send may have written it first,
\* and then the create throws.
Record(k) ==
    /\ At(k, "record")
    /\ IF Mirrored(Item(k)) THEN Throws(k) /\ UNCHANGED named
       ELSE /\ Goto(k, After(Item(k))) /\ named' = named \cup {Item(k)}
            /\ UNCHANGED <<job, letters, unrecorded>>
    /\ UNCHANGED <<world, hook, staff, guest, faults,
                   rate, reports, echo, wiping, wiped, seen, sync, chunk, backfill>>

\* downloadAndStoreMedia: the row that still waits for this media ...
FindPending(k) ==
    /\ At(k, "download")
    /\ Goto(k, IF row[Item(k)] = "pending" THEN "fetch" ELSE "done")
    /\ UNCHANGED <<world, aside, hook, job, staff, guest, failures>>

\* ... gets it, whatever has become of the row meanwhile.  A media that cannot
\* be had stays pending, and the job is done.
Download(k) ==
    /\ At(k, "fetch")
    /\ \/ row' = [row EXCEPT ![Item(k)] = "stored"] /\ UNCHANGED faults
       \/ Fault /\ UNCHANGED row
    /\ Goto(k, "done")
    /\ UNCHANGED <<world, aside, hook, job, staff, sent, counted, unnoted, letters, unrecorded>>

Mark(k) ==
    /\ At(k, "mark")
    /\ event' = [event EXCEPT ![Item(k)] = "processed"] /\ Goto(k, "done")
    /\ UNCHANGED <<world, aside, deliveries, acked, intake, job, staff, guest, failures>>

Done(k) ==
    /\ At(k, "done") /\ Finish(k)
    /\ UNCHANGED <<world, aside, hook, staff, guest, failures>>

\* A query, the bot or a channel call throws out of the worker.
Breaks(k) ==
    /\ held[k].pc \notin {"idle", "done", "notify", "save", "send", "deliver"} /\ Fault /\ Throws(k)
    /\ UNCHANGED <<world, aside, hook, staff, guest>>

-----------------------------------------------------------------------------
(* Staff replies *)

\* manualReply counts the guest's replies of the minute: the first sets the
\* counter's expiry, in a call of its own.
CountReply(r) ==
    /\ r \in world.items \ (Uploads \cup Phone) /\ compose[r] = "idle"
    /\ rate' = [rate EXCEPT !.count = @ + 1]
    /\ compose' = [compose EXCEPT ![r] =
         IF rate'.count = 1 THEN "expiry" ELSE IF rate'.count > RateLimit THEN "over" ELSE "take over"]
    /\ UNCHANGED <<world, hook, job, held, byStaff, reply, undo, undone, guest, failures,
                   mirror, wiping, wiped, seen, sync, chunk, backfill>>

SetExpiry(r) ==
    /\ compose[r] = "expiry"
    /\ rate' = [rate EXCEPT !.expires = TRUE] /\ compose' = [compose EXCEPT ![r] = "take over"]
    /\ UNCHANGED <<world, hook, job, held, byStaff, reply, undo, undone, guest, failures,
                   mirror, wiping, wiped, seen, sync, chunk, backfill>>

MinuteOver ==
    /\ rate.expires /\ rate' = [count |-> 0, expires |-> FALSE]
    /\ UNCHANGED <<pipeline, row, reply, failures, mirror, wiping, wiped, seen, sync, chunk, backfill>>

\* sendManualReply: the guest is the staff's from here on.
TakeOver(r) ==
    /\ compose[r] = "take over"
    /\ byStaff' = TRUE /\ compose' = [compose EXCEPT ![r] = "row"]
    /\ UNCHANGED <<world, aside, hook, job, held, reply, undo, undone, guest, failures>>

\* sendMedia, sendMediaFromUrl: the same, without the counter; the PENDING row
\* is written for every upload.
TakeOverUpload(r) ==
    /\ r \in world.items \cap Uploads /\ compose[r] = "idle"
    /\ byStaff' = TRUE /\ compose' = [compose EXCEPT ![r] = "row"]
    /\ UNCHANGED <<world, aside, hook, job, held, reply, undo, undone, guest, failures>>

\* setBotEnabled(true)
EnableBot ==
    /\ byStaff /\ byStaff' = FALSE
    /\ UNCHANGED <<world, aside, hook, job, held, reply, compose, undo, undone, guest, failures>>

\* messageDelayEnabled: a PENDING row, and then its delayed job ...
CreatePending(r) ==
    /\ compose[r] = "row"
    /\ reply' = [reply EXCEPT ![r] = "PENDING"]
    /\ compose' = [compose EXCEPT ![r] = IF r \in Uploads THEN "upload" ELSE "schedule"]
    /\ UNCHANGED <<world, aside, hook, job, held, byStaff, undo, undone, guest, failures>>

Schedule(r) ==
    /\ compose[r] = "schedule"
    /\ Enqueue(r) /\ compose' = [compose EXCEPT ![r] = "over"]
    /\ UNCHANGED <<world, aside, hook, held, byStaff, reply, undo, undone, guest, failures>>

\* ... or an add that fails, which leaves the row PENDING.
ScheduleFails(r) ==
    /\ compose[r] = "schedule" /\ Fault
    /\ compose' = [compose EXCEPT ![r] = "over"]
    /\ UNCHANGED <<world, aside, hook, job, held, byStaff, reply, undo, undone, guest, letters, unrecorded>>

\* No delay: the channel call, and then the row of what became of it.
SendNow(r) ==
    /\ compose[r] = "row" /\ r \notin Uploads
    /\ \E o \in Outcome :
          /\ Calls(r, Text(r), o)
          /\ compose' = [compose EXCEPT ![r] = IF Accepted(o) THEN "sent" ELSE "failed"]
    /\ UNCHANGED <<world, aside, hook, job, held, byStaff, reply, undo, undone, row, counted, unnoted,
                   letters, unrecorded>>

\* The row bears the message id of what was sent.
Named(i) == named' = IF sent[i] > 0 THEN named \cup {i} ELSE named

\* A row of that id throws, and the staff are told that the reply failed.
RecordNow(r) ==
    /\ compose[r] \in {"sent", "failed"} /\ r \notin Uploads
    /\ IF Mirrored(r) THEN UNCHANGED <<reply, named>>
       ELSE reply' = [reply EXCEPT ![r] = IF compose[r] = "sent" THEN "SENT" ELSE "FAILED"] /\ Named(r)
    /\ compose' = [compose EXCEPT ![r] = "over"]
    /\ UNCHANGED <<world, hook, job, held, byStaff, undo, undone, guest, failures,
                   rate, reports, echo, wiping, wiped, seen, sync, chunk, backfill>>

\* An upload is sent whether its row is still there or not ...
SendUpload(r) ==
    /\ compose[r] = "upload"
    /\ \E o \in Outcome :
          /\ Calls(r, SendMediaMessage(world.hotel, [public |-> TRUE]), o)
          /\ compose' = [compose EXCEPT ![r] = IF Accepted(o) THEN "sent" ELSE "failed"]
    /\ UNCHANGED <<world, aside, hook, job, held, byStaff, reply, undo, undone, row, counted, unnoted,
                   letters, unrecorded>>

\* ... and the update of a row that is gone throws.
RecordUpload(r) ==
    /\ compose[r] \in {"sent", "failed"} /\ r \in Uploads
    /\ IF reply[r] = "gone" THEN UNCHANGED <<reply, named>>
       ELSE reply' = [reply EXCEPT ![r] = IF compose[r] = "sent" THEN "SENT" ELSE "FAILED"] /\ Named(r)
    /\ compose' = [compose EXCEPT ![r] = "over"]
    /\ UNCHANGED <<world, hook, job, held, byStaff, undo, undone, guest, failures,
                   rate, reports, echo, wiping, wiped, seen, sync, chunk, backfill>>

\* executeDelayedSend: PENDING becomes SENT in one statement, or the job is over.
ClaimSend(k) ==
    /\ At(k, "claim send")
    /\ IF reply[Item(k)] = "PENDING"
       THEN reply' = [reply EXCEPT ![Item(k)] = "SENT"] /\ Goto(k, "deliver") /\ UNCHANGED job
       ELSE Finish(k) /\ UNCHANGED reply
    /\ UNCHANGED <<world, aside, hook, byStaff, compose, undo, undone, guest, failures>>

\* The text is read from the row: none is left of a deleted one.
Deliver(k) ==
    /\ At(k, "deliver")
    /\ \E o \in Outcome :
          /\ Calls(Item(k), IF Item(k) \in wiped THEN {"refused"} ELSE Text(Item(k)), o)
          /\ Goto(k, IF Accepted(o) THEN "status sent" ELSE "status failed")
    /\ UNCHANGED <<world, aside, hook, job, staff, row, counted, unnoted, letters, unrecorded>>

\* As in RecordNow, but the job throws, and finds nothing PENDING when it is retried.
SetStatus(k) ==
    /\ held[k].pc \in {"status sent", "status failed"}
    /\ IF Mirrored(Item(k)) THEN Throws(k) /\ UNCHANGED <<reply, named>>
       ELSE /\ reply' = [reply EXCEPT ![Item(k)] = IF At(k, "status sent") THEN "SENT" ELSE "FAILED"]
            /\ Named(Item(k)) /\ Goto(k, "done") /\ UNCHANGED <<job, letters, unrecorded>>
    /\ UNCHANGED <<world, hook, byStaff, compose, undo, undone, guest, faults,
                   rate, reports, echo, wiping, wiped, seen, sync, chunk, backfill>>

\* undoSend: a row that exists; the job, unless a runner has it; the row while
\* it is PENDING.  Anything else is a 409.
UndoRead(r) ==
    /\ "undo" \in world.acts /\ undo[r] = "idle" /\ reply[r] \notin {"none", "gone"}
    /\ undo' = [undo EXCEPT ![r] = "cancel"]
    /\ UNCHANGED <<world, aside, hook, job, held, byStaff, reply, compose, undone, guest, failures>>

UndoCancel(r) ==
    /\ undo[r] = "cancel" /\ undo' = [undo EXCEPT ![r] = "delete"]
    /\ job' = [job EXCEPT ![r] = IF @.state = "active" THEN @ ELSE NoJob]
    /\ UNCHANGED <<world, aside, hook, held, byStaff, reply, compose, undone, guest, failures>>

UndoDelete_Unguarded(r) ==
    /\ undo[r] = "delete" /\ undo' = [undo EXCEPT ![r] = "over"]
    /\ reply' = [reply EXCEPT ![r] = "gone"] /\ undone' = undone \cup {r}
    /\ UNCHANGED <<world, aside, hook, job, held, byStaff, compose, guest, failures>>

UndoDelete(r) ==
    /\ undo[r] = "delete" /\ undo' = [undo EXCEPT ![r] = "over"]
    /\ IF reply[r] = "PENDING"
       THEN reply' = [reply EXCEPT ![r] = "gone"] /\ undone' = undone \cup {r}
       ELSE UNCHANGED <<reply, undone>>
    /\ UNCHANGED <<world, aside, hook, job, held, byStaff, compose, guest, failures>>

-----------------------------------------------------------------------------
(* What the provider reports and mirrors *)

STATUS_RANK == [PENDING |-> 0, SENT |-> 1, DELIVERED |-> 2, READ |-> 3, FAILED |-> 4]

\* A status webhook finds the row by its message id and compares the ranks ...
ReadStatus(r, status) ==
    /\ "report" \in world.acts /\ r \in named \ Instagram /\ reply[r] \in DOMAIN STATUS_RANK
    /\ STATUS_RANK[status] > STATUS_RANK[reply[r]] /\ status \notin reports[r]
    /\ reports' = [reports EXCEPT ![r] = @ \cup {status}]
    /\ UNCHANGED <<pipeline, row, reply, failures, rate, named, echo, wiping, wiped, seen, sync, chunk, backfill>>

\* ... and then writes, whatever another one has written meanwhile.
WriteStatus(r, status) ==
    /\ status \in reports[r]
    /\ reply' = [reply EXCEPT ![r] = status] /\ reports' = [reports EXCEPT ![r] = @ \ {status}]
    /\ UNCHANGED <<pipeline, row, failures, rate, named, echo, wiping, wiped, seen, sync, chunk, backfill>>

\* The hotel answers from its phone.
PhoneReply(r) ==
    /\ r \in world.items \cap Phone /\ sent[r] = 0
    /\ sent' = [sent EXCEPT ![r] = 1]
    /\ UNCHANGED <<world, aside, hook, job, held, staff, row, counted, unnoted, failures>>

\* What was sent over Instagram or from the phone comes back as an echo.
ReadEcho(i) ==
    /\ i \in Instagram \cup Phone /\ sent[i] > 0 /\ echo[i] = "none"
    /\ echo' = [echo EXCEPT ![i] = "read"]
    /\ UNCHANGED <<pipeline, row, reply, failures, rate, named, reports, wiping, wiped, seen, sync, chunk, backfill>>

\* persistEchoedOutboundMessage: a row of its own unless there is one of that
\* id.  The bot stays on.
StoreEcho(i) ==
    /\ echo[i] = "read"
    /\ echo' = [echo EXCEPT ![i] = IF i \in named THEN "known" ELSE "stored"]
    /\ reply' = IF i \in Phone THEN [reply EXCEPT ![i] = "SENT"] ELSE reply
    /\ UNCHANGED <<pipeline, row, failures, rate, named, reports, wiping, wiped, seen, sync, chunk, backfill>>

-----------------------------------------------------------------------------
(* Messages marked as deleted or read *)

Exists(i) == IF i \in Messages THEN row[i] # "none" ELSE reply[i] \notin {"none", "gone"}

ReadDeleted(i) ==
    /\ "delete" \in world.acts /\ Exists(i) /\ i \notin wiped \cup wiping
    /\ wiping' = wiping \cup {i}
    /\ UNCHANGED <<pipeline, row, reply, failures, rate, mirror, wiped, seen, sync, chunk, backfill>>

\* The tombstone: text and media are wiped.  A row undone meanwhile throws.
WriteDeleted(i) ==
    /\ i \in wiping /\ wiping' = wiping \ {i}
    /\ wiped' = IF Exists(i) THEN wiped \cup {i} ELSE wiped
    /\ row' = IF i \in Messages THEN [row EXCEPT ![i] = "blank"] ELSE row
    /\ UNCHANGED <<pipeline, reply, failures, rate, mirror, seen, sync, chunk, backfill>>

MarkMessagesRead ==
    /\ "read" \in world.acts /\ seen' = {m \in Messages : row[m] # "none"}
    /\ UNCHANGED <<pipeline, row, reply, failures, rate, mirror, wiping, wiped, sync, chunk, backfill>>

-----------------------------------------------------------------------------
(* History sync *)

\* The chunk is acknowledged first, and its handling is not awaited.
ReceiveChunk(c) ==
    /\ c \in world.items /\ chunk[c] = "none"
    /\ chunk' = [chunk EXCEPT ![c] = "guard"]
    /\ UNCHANGED <<pipeline, row, reply, failures, rate, mirror, wiping, wiped, seen, sync, backfill>>

\* A sync that is complete skips the chunk.
GuardChunk(c) ==
    /\ chunk[c] = "guard"
    /\ chunk' = [chunk EXCEPT ![c] = IF sync = "complete" THEN "over" ELSE "status"]
    /\ UNCHANGED <<pipeline, row, reply, failures, rate, mirror, wiping, wiped, seen, sync, backfill>>

SyncStatus(c) ==
    /\ chunk[c] = "status" /\ chunk' = [chunk EXCEPT ![c] = "thread"]
    /\ sync' = IF c = Final THEN "complete" ELSE "in_progress"
    /\ UNCHANGED <<pipeline, row, reply, failures, rate, mirror, wiping, wiped, seen, backfill>>

\* processThread: an upsert by message id, which leaves a row alone; no bot and
\* no metering.  A media is fetched by a job of its own.
ImportMessage(c) ==
    /\ chunk[c] = "thread" /\ chunk' = [chunk EXCEPT ![c] = "over"]
    /\ LET m == Synced[c] IN
          /\ row' = IF row[m] # "none" THEN row ELSE [row EXCEPT ![m] = IF m \in Media THEN "pending" ELSE "stored"]
          /\ backfill' = IF m \in Media /\ backfill[m] = "none" THEN [backfill EXCEPT ![m] = "waiting"] ELSE backfill
    /\ UNCHANGED <<pipeline, reply, failures, rate, mirror, wiping, wiped, seen, sync>>

\* A chunk that fails is logged, and the rest of it is lost.
ChunkFails(c) ==
    /\ chunk[c] \notin {"none", "over"} /\ Fault
    /\ chunk' = [chunk EXCEPT ![c] = "over"]
    /\ UNCHANGED <<pipeline, row, reply, letters, unrecorded, rate, mirror, wiping, wiped, seen, sync, backfill>>

\* The media job of an imported message: a row that no longer waits needs none ...
FindImported(m) ==
    /\ backfill[m] = "waiting"
    /\ backfill' = [backfill EXCEPT ![m] = IF row[m] = "pending" THEN "fetch" ELSE "finished"]
    /\ UNCHANGED <<pipeline, row, reply, failures, rate, mirror, wiping, wiped, seen, sync, chunk>>

\* ... and one that cannot be had stays pending: the job is done.
FetchImported(m) ==
    /\ backfill[m] = "fetch" /\ backfill' = [backfill EXCEPT ![m] = "finished"]
    /\ \/ row' = [row EXCEPT ![m] = "stored"] /\ UNCHANGED faults
       \/ Fault /\ UNCHANGED row
    /\ UNCHANGED <<pipeline, reply, letters, unrecorded, rate, mirror, wiping, wiped, seen, sync, chunk>>

-----------------------------------------------------------------------------
Init ==
    /\ world \in Worlds
    /\ deliveries = [m \in Messages |-> 0] /\ acked = {} /\ intake = {}
    /\ event = [m \in Messages |-> "none"]
    /\ job = [i \in Items |-> NoJob] /\ held = [k \in Runners |-> Idle]
    /\ row = [m \in Messages |-> "none"] /\ byStaff = FALSE
    /\ reply = [r \in Replies |-> "none"] /\ compose = [r \in Replies |-> "idle"]
    /\ undo = [r \in Replies |-> "idle"] /\ undone = {}
    /\ sent = [i \in Items |-> 0] /\ counted = 0 /\ unnoted = {}
    /\ rate = [count |-> 0, expires |-> FALSE] /\ named = {}
    /\ reports = [r \in Replies |-> {}] /\ echo = [i \in Items |-> "none"]
    /\ wiping = {} /\ wiped = {} /\ seen = {}
    /\ sync = "none" /\ chunk = [c \in Chunks |-> "none"] /\ backfill = [m \in Messages |-> "none"]
    /\ letters = {} /\ unrecorded = {} /\ faults = 0

Intake(m) == RecordEvent(m) \/ EnqueueEvent(m)
Inbound(k) ==
    \/ Claim(k) \/ Lookup(k) \/ Persist(k) \/ \E suspended, off \in BOOLEAN : Meter(k, suspended, off)
    \/ Notify(k) \/ Bot(k) \/ (\E p \in Payloads : SendOutbound(k, p)) \/ SaveOutbound(k)
    \/ Send(k) \/ Record(k) \/ FindPending(k) \/ Download(k) \/ Mark(k) \/ Done(k)
Outbound(k) == ClaimSend(k) \/ Deliver(k) \/ SetStatus(k) \/ Done(k)
Composing(r) ==
    \/ SetExpiry(r) \/ TakeOver(r) \/ CreatePending(r) \/ Schedule(r) \/ SendNow(r) \/ RecordNow(r)
    \/ SendUpload(r) \/ RecordUpload(r)
Undoing(r) == UndoCancel(r) \/ UndoDelete(r)

Next ==
    \/ \E m \in Messages : DeliverWhatsApp(m) \/ DeliverFails(m) \/ DeliverInstagram(m) \/ Intake(m) \/ IntakeFails(m)
    \/ \E k \in Runners, i \in Items : Take(k, i)
    \/ \E k \in Workers : Inbound(k)
    \/ \E k \in Senders : Outbound(k)
    \/ \E k \in Runners : Breaks(k)
    \/ \E r \in Replies :
          \/ CountReply(r) \/ TakeOverUpload(r) \/ Composing(r) \/ ScheduleFails(r) \/ UndoRead(r) \/ Undoing(r)
          \/ PhoneReply(r)
          \/ \E status \in {"DELIVERED", "READ", "FAILED"} : ReadStatus(r, status) \/ WriteStatus(r, status)
    \/ EnableBot \/ MinuteOver \/ MarkMessagesRead \/ Crash
    \/ \E i \in Items : Stall(i) \/ Forget(i) \/ ReadEcho(i) \/ StoreEcho(i) \/ ReadDeleted(i) \/ WriteDeleted(i)
    \/ \E c \in Chunks : ReceiveChunk(c) \/ GuardChunk(c) \/ SyncStatus(c) \/ ImportMessage(c) \/ ChunkFails(c)
    \/ \E m \in Messages : FindImported(m) \/ FetchImported(m)

Spec == Init /\ [][Next]_vars

\* Handlers and workers that have begun go on, and an idle worker takes a job.
FairSpec ==
    /\ Spec
    /\ \A m \in Messages : WF_vars(Intake(m))
    /\ \A k \in Workers : WF_vars(Inbound(k))
    /\ \A k \in Senders : WF_vars(Outbound(k))
    /\ \A i \in Items : WF_vars(\E k \in Runners : Take(k, i))
    /\ \A r \in Replies : WF_vars(Composing(r)) /\ WF_vars(Undoing(r))

-----------------------------------------------------------------------------
(* Properties *)

\* The variables have their types: a queued job has attempts left and a running
\* one a holder, and one conversation window is metered once, whatever order its
\* messages, replies and retries come in (message.service.ts:161-188).
TypeOK ==
    /\ \A i \in Items : job[i].state \in JobState /\ job[i].made \in 0 .. MaxAttempts
    /\ \A i \in Items : job[i].state = "waiting" => job[i].made < MaxAttempts
    /\ \A i \in Items : job[i].state = "active" => job[i].holder \in Runners
    /\ \A r \in Replies : reply[r] \in {"none", "gone"} \cup DOMAIN STATUS_RANK
    /\ \A m \in Messages : row[m] \in {"none", "stored", "blank"} \cup (IF m \in Media THEN {"pending"} ELSE {})
    /\ \A m \in seen : row[m] # "none"
    /\ undone \subseteq Replies /\ counted \in 0 .. 1

\* A guest is answered at most once by the bot for a message, however often it
\* is delivered, retried, imported or run beside a stalled runner, and whether
\* the flow sends the answer or the pipeline does; twice only when a rich answer
\* was sent and then failed to be noted.  What the provider is posted again
\* within one call, after no answer in time, counts as once.
AnsweredOnce == \A m \in Messages : sent[m] <= IF m \in unnoted THEN 2 ELSE 1

\* A staff reply reaches the guest at most once, and a text never after an undo
\* that was answered with success.
UndoneMeansUnsent == \A r \in Replies : sent[r] <= IF r \in undone \ Uploads THEN 0 ELSE 1

\* An acknowledged message is stored in the end, or its job is given up.
AckedIsStored ==
    \A m \in Messages :
        m \in acked ~> (row[m] # "none" \/ m \in letters \cup unrecorded)

\* A reply whose delayed job was accepted does not stay PENDING: it is sent,
\* has failed, was taken back, or its job was removed or given up.
ScheduledIsSettled ==
    \A r \in Replies :
        job[r].state \in {"waiting", "active"}
            ~> (reply[r] # "PENDING" \/ undo[r] # "idle" \/ job[r].state \in {"none", "dead"})

=============================================================================
