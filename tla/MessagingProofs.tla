-------------------------- MODULE MessagingProofs ---------------------------
(***************************************************************************)
(* What Messaging keeps, proved for any number of messages, replies,       *)
(* runners, deliveries, attempts and failures: the types, that a guest is  *)
(* answered once, that a reply taken back was never sent, and that what    *)
(* was acknowledged is stored, in hand or given up aloud.                  *)
(***************************************************************************)
EXTENDS Messaging, TLAPS

-----------------------------------------------------------------------------
(* The inductive invariant                                                 *)

Waits == {"none", "stored", "blank", "pending"}
Status == {"none", "gone", "PENDING", "SENT", "DELIVERED", "READ", "FAILED"}
InPhase == {"claim", "lookup", "persist", "meter", "notify", "bot", "save", "send", "record",
            "download", "fetch", "mark"}
OutPhase == {"claim send", "deliver", "status sent", "status failed"}
Phase == InPhase \cup OutPhase \cup {"idle", "done"}
Stage == {"idle", "expiry", "take over", "row", "schedule", "upload", "sent", "failed", "over"}

\* A job that waits or runs has attempts left, and a running one its runner.
JobRows == [state : JobState, made : 0 .. MaxAttempts, holder : Runners \cup {NoRunner}, stalled : BOOLEAN]
JobOK(j) ==
    /\ j \in JobRows
    /\ j.state \in {"waiting", "active"} => j.made < MaxAttempts
    /\ j.state = "active" => j.holder \in Runners

\* What an upload sends needs no job.
JobsOK == DOMAIN job = Items /\ \A i \in Items : JobOK(job[i]) /\ (i \in Uploads => job[i].state = "none")

\* A runner deals with a message where it handles messages, and with a text
\* where it handles replies.
HeldRows == [pc : Phase, item : Items \cup {NoItem}, off : BOOLEAN]
HeldOK(h) ==
    /\ h \in HeldRows
    /\ h.pc \in InPhase => h.item \in Messages
    /\ h.pc \in OutPhase => h.item \in Replies \ Uploads
    /\ h.pc = "done" => h.item \in Items
RunnersOK == DOMAIN held = Runners /\ \A k \in Runners : HeldOK(held[k])

RowsOK ==
    /\ row \in [Messages -> Waits] /\ (\A m \in Messages : row[m] = "pending" => m \in Media)
    /\ \A m \in seen : row[m] # "none"
    /\ byStaff \in BOOLEAN /\ sent \in [Items -> Nat]

\* The bot is at a message: only the runner whose row it is gets here, and with
\* it what may have been sent so far.
Answering == {"meter", "bot", "save", "send"}
AnswerOK(h) ==
    /\ h.pc \in Answering => row[h.item] # "none"
    /\ h.pc \in {"meter", "bot"} => sent[h.item] = 0
    /\ h.pc = "save" => sent[h.item] <= 1
    /\ h.pc = "send" => sent[h.item] <= IF h.item \in unnoted THEN 1 ELSE 0
Answers ==
    /\ \A k \in Runners : AnswerOK(held[k])
    /\ \A k, l \in Runners :
          held[k].pc \in Answering /\ held[l].pc \in Answering /\ held[k].item = held[l].item => k = l
    /\ \A m \in Messages : row[m] = "none" => sent[m] = 0
    /\ AnsweredOnce

\* Whose message opened the window is past the meter, and its row is there.
Metered ==
    /\ counted \in 0 .. 1
    /\ counted = 1 => \E m \in Messages : row[m] # "none" /\ \A k \in Runners : ~(held[k].pc = "meter" /\ held[k].item = m)

\* Where a reply of the staff is, what its row says and what was sent.
Composed == {"schedule", "over"}
ReplyOK(r, stage, status, times, back) ==
    /\ stage \in Stage /\ status \in Status
    /\ times <= 1
    /\ r \in Phone => stage = "idle" /\ status # "PENDING"
    /\ stage \in {"expiry", "take over", "row"} \/ (stage = "idle" /\ r \notin Phone) => times = 0 /\ status = "none"
    /\ stage \in {"sent", "failed"} /\ r \notin Uploads => status = "none"
    /\ stage = "upload" => times = 0 /\ r \in Uploads
    /\ stage = "schedule" => r \notin Uploads
    /\ status = "PENDING" /\ r \notin Uploads => stage \in Composed /\ times = 0
    /\ back /\ r \notin Uploads => stage \in Composed /\ times = 0 /\ status = "gone"
RepliesOK ==
    /\ DOMAIN reply = Replies /\ DOMAIN compose = Replies /\ undone \subseteq Replies
    /\ \A r \in Replies : ReplyOK(r, compose[r], reply[r], sent[r], r \in undone)
    /\ DOMAIN reports = Replies
    /\ \A r \in Replies : r \in named \/ reports[r] # {} => sent[r] > 0
    /\ \A r \in Replies : reports[r] # {} => reply[r] # "none"

\* A delayed send: one runner has the claim.
Sending == {"deliver", "status sent", "status failed"}
SendOK(h) ==
    /\ h.pc \in Sending => reply[h.item] \notin {"none", "gone", "PENDING"} /\ compose[h.item] \in Composed
    /\ h.pc = "deliver" => sent[h.item] = 0
Sends ==
    /\ \A k \in Runners : SendOK(held[k])
    /\ \A k, l \in Runners :
          held[k].pc \in Sending /\ held[l].pc \in Sending /\ held[k].item = held[l].item => k = l

IInv == JobsOK /\ RunnersOK /\ RowsOK /\ Answers /\ Metered /\ RepliesOK /\ Sends

-----------------------------------------------------------------------------
(* What a step may leave alone.                                            *)

\* Only runner k moves.
Only(k) == DOMAIN held' = Runners /\ \A l \in Runners : l # k => held'[l] = held[l]

\* No row goes away.
Grow == \A m \in Messages : row[m] # "none" => row'[m] # "none"

LEMMA Given ==
  /\ MaxAttempts \in Nat \ {0}
  /\ Uploads \subseteq Replies /\ Phone \subseteq Replies \ Uploads
  /\ Media \subseteq Messages /\ Messages \cap Replies = {}
BY MessagingAssumption

\* A job put in the place of another.
LEMMA JobStep ==
  ASSUME NEW i \in Items, NEW j, JobsOK, JobOK(j), i \in Uploads => j.state = "none",
         job' = [job EXCEPT ![i] = j]
  PROVE  JobsOK'
BY DEF JobsOK

LEMMA Enqueued ==
  ASSUME NEW i \in Items \ Uploads, JobsOK, Enqueue(i)
  PROVE  JobsOK'
<1>1. JobOK([NoJob EXCEPT !.state = "waiting"])
  <2>1. NoJob \in JobRows /\ NoJob.made = 0
    BY Given DEF NoJob, JobRows, JobState
  <2> HIDE DEF NoJob
  <2> QED BY <2>1, Given DEF JobOK, JobRows, JobState
<1>2. JobOK(job[i])
  BY DEF JobsOK
<1> QED BY <1>1, <1>2 DEF Enqueue, JobsOK

\* What the end of an attempt makes of a job that runs.
LEMMA Ended ==
  ASSUME NEW j, JobOK(j), j.state = "active"
  PROVE  JobOK(Retried(j)) /\ JobOK(Stalled(j)) /\ JobOK([j EXCEPT !.state = "finished"])
<1>1. j \in JobRows /\ j.made \in Nat /\ j.made < MaxAttempts /\ j.holder \in Runners
  BY Given DEF JobOK, JobRows
<1>2. JobOK([j EXCEPT !.state = "finished"])
  BY <1>1 DEF JobOK, JobRows, JobState
<1>3. JobOK([j EXCEPT !.state = "dead"])
  BY <1>1 DEF JobOK, JobRows, JobState
<1>4. PICK n \in 0 .. MaxAttempts : n = j.made + 1
  BY <1>1, Given
<1>5. JobOK([j EXCEPT !.state = "dead", !.made = n])
  BY <1>1 DEF JobOK, JobRows, JobState
<1>6. n < MaxAttempts => JobOK([j EXCEPT !.state = "waiting", !.made = n])
  BY <1>1 DEF JobOK, JobRows, JobState
<1>7. JobOK([j EXCEPT !.state = "waiting", !.stalled = TRUE])
  BY <1>1 DEF JobOK, JobRows, JobState
<1> QED BY <1>2, <1>3, <1>4, <1>5, <1>6, <1>7 DEF Retried, Stalled

LEMMA StalledOK ==
  ASSUME NEW j, JobOK(j)
  PROVE  JobOK(Stalled(j)) /\ (j.state = "none" => Stalled(j).state = "none")
<1>1. CASE j.state = "active"
  BY <1>1, Ended
<1>2. CASE j.state # "active"
  BY <1>2 DEF Stalled
<1> QED BY <1>1, <1>2

\* A runner that is not idle has an item.
LEMMA HasItem ==
  ASSUME NEW k \in Runners, RunnersOK, held[k].pc # "idle"
  PROVE  /\ Item(k) \in Items /\ HeldOK(held[k])
         /\ held[k].pc \in InPhase => Item(k) \in Messages
         /\ held[k].pc \in OutPhase => Item(k) \in Replies \ Uploads
BY DEF RunnersOK, HeldOK, HeldRows, Phase, Item, Items

LEMMA Moves ==
  ASSUME NEW k \in Runners, NEW pc \in Phase, RunnersOK, Goto(k, pc)
  PROVE  Only(k) /\ held'[k] \in HeldRows /\ held'[k].pc = pc /\ held'[k].item = held[k].item
BY DEF Goto, Only, RunnersOK, HeldOK, HeldRows

LEMMA Idles ==
  ASSUME NEW k \in Runners, RunnersOK, held' = [held EXCEPT ![k] = Idle]
  PROVE  Only(k) /\ HeldOK(held'[k]) /\ held'[k].pc = "idle"
<1>1. HeldOK(Idle)
  BY DEF HeldOK, HeldRows, Idle, Phase, InPhase, OutPhase
<1> QED BY <1>1 DEF Only, RunnersOK, Idle

\* The end of an attempt, whatever its outcome.
LEMMA Finishes ==
  ASSUME NEW k \in Runners, JobsOK, RunnersOK, held[k].pc # "idle", Finish(k)
  PROVE  JobsOK' /\ Only(k) /\ HeldOK(held'[k]) /\ held'[k].pc = "idle"
<1>1. Item(k) \in Items
  BY HasItem
<1>2. Only(k) /\ HeldOK(held'[k]) /\ held'[k].pc = "idle"
  BY Idles DEF Finish
<1>3. CASE Mine(k)
  <2>1. JobOK(job[Item(k)]) /\ job[Item(k)].state = "active"
    BY <1>1, <1>3 DEF Mine, JobsOK
  <2>2. JobOK([job[Item(k)] EXCEPT !.state = "finished"])
    BY <2>1, Ended
  <2>3. job' = [job EXCEPT ![Item(k)] = [job[Item(k)] EXCEPT !.state = "finished"]]
    BY <1>3 DEF Finish
  <2>4. Item(k) \notin Uploads
    BY <1>1, <2>1 DEF JobsOK
  <2> QED BY <1>1, <1>2, <2>2, <2>3, <2>4, JobStep
<1>4. CASE ~Mine(k)
  BY <1>2, <1>4 DEF Finish, JobsOK
<1> QED BY <1>3, <1>4

LEMMA Thrown ==
  ASSUME NEW k \in Runners, JobsOK, RunnersOK, held[k].pc # "idle", Throws(k)
  PROVE  JobsOK' /\ Only(k) /\ HeldOK(held'[k]) /\ held'[k].pc = "idle"
<1>1. Item(k) \in Items
  BY HasItem
<1>2. Only(k) /\ HeldOK(held'[k]) /\ held'[k].pc = "idle"
  BY Idles DEF Throws
<1>3. CASE Mine(k)
  <2>1. JobOK(job[Item(k)]) /\ job[Item(k)].state = "active"
    BY <1>1, <1>3 DEF Mine, JobsOK
  <2>2. JobOK(Retried(job[Item(k)]))
    BY <2>1, Ended
  <2>3. job' = [job EXCEPT ![Item(k)] = Retried(job[Item(k)])]
    BY <1>3 DEF Throws
  <2>4. Item(k) \notin Uploads
    BY <1>1, <2>1 DEF JobsOK
  <2> QED BY <1>1, <1>2, <2>2, <2>3, <2>4, JobStep
<1>4. CASE ~Mine(k)
  BY <1>2, <1>4 DEF Throws, JobsOK
<1> QED BY <1>3, <1>4

-----------------------------------------------------------------------------
(* What the other runners keep.                                            *)

LEMMA OthersOK ==
  ASSUME NEW k \in Runners, RunnersOK, Only(k), HeldOK(held'[k])
  PROVE  RunnersOK'
BY DEF RunnersOK, Only

\* What is said of an answering runner is said of a message.
LEMMA AnswersItem ==
  ASSUME NEW k \in Runners, RunnersOK, held[k].pc \in Answering
  PROVE  held[k].item \in Messages
BY DEF RunnersOK, HeldOK, Answering, InPhase

\* A runner that does not answer, or leaves, disturbs no answer.
LEMMA AnswersKept ==
  ASSUME NEW k \in Runners, RunnersOK, Answers, Only(k), held'[k].pc \notin Answering,
         Grow, \A m \in Messages : sent'[m] = sent[m], unnoted' = unnoted
  PROVE  Answers'
<1>1. \A l \in Runners : held'[l].pc \in Answering => held'[l] = held[l] /\ held[l].item \in Messages
  BY AnswersItem DEF Only
<1>2. \A l \in Runners : AnswerOK(held[l])'
  BY <1>1 DEF Answers, AnswerOK, Grow, Answering
<1>3. \A l, j \in Runners :
         held'[l].pc \in Answering /\ held'[j].pc \in Answering /\ held'[l].item = held'[j].item => l = j
  BY <1>1 DEF Answers
<1>4. \A m \in Messages : row'[m] = "none" => sent'[m] = 0
  BY DEF Answers, Grow
<1>5. AnsweredOnce'
  BY DEF Answers, AnsweredOnce
<1> QED BY <1>2, <1>3, <1>4, <1>5 DEF Answers

\* No runner moves.
LEMMA AnswersStill ==
  ASSUME RunnersOK, Answers, UNCHANGED <<held, unnoted>>, Grow, \A m \in Messages : sent'[m] = sent[m]
  PROVE  Answers'
<1>1. \A l \in Runners : held[l].pc \in Answering => held[l].item \in Messages
  BY AnswersItem
<1>2. \A l \in Runners : AnswerOK(held[l])'
  BY <1>1 DEF Answers, AnswerOK, Grow, Answering
<1>4. \A m \in Messages : row'[m] = "none" => sent'[m] = 0
  BY DEF Answers, Grow
<1>5. AnsweredOnce'
  BY DEF Answers, AnsweredOnce
<1> QED BY <1>2, <1>4, <1>5 DEF Answers

LEMMA MeteredKept ==
  ASSUME NEW k \in Runners, Metered, Only(k), held'[k].pc # "meter", Grow, UNCHANGED counted
  PROVE  Metered'
BY DEF Metered, Only, Grow

LEMMA MeteredStill ==
  ASSUME Metered, UNCHANGED <<held, counted>>, Grow
  PROVE  Metered'
BY DEF Metered, Grow

LEMMA SendsItem ==
  ASSUME NEW k \in Runners, RunnersOK, held[k].pc \in Sending
  PROVE  held[k].item \in Replies \ Uploads
BY DEF RunnersOK, HeldOK, Sending, OutPhase

\* Replies that are being sent go on as they are.
LEMMA SendsKept ==
  ASSUME NEW k \in Runners, RunnersOK, Sends, Only(k), held'[k].pc \notin Sending,
         UNCHANGED <<reply, compose>>, \A r \in Replies : sent'[r] = sent[r]
  PROVE  Sends'
<1>1. \A l \in Runners : held'[l].pc \in Sending => held'[l] = held[l] /\ held[l].item \in Replies
  BY SendsItem DEF Only
<1>2. \A l \in Runners : SendOK(held[l])'
  <2> TAKE l \in Runners
  <2>1. CASE held'[l].pc \in Sending
    <3>1. SendOK(held[l]) /\ held'[l] = held[l] /\ held[l].item \in Replies
      BY <1>1, <2>1 DEF Sends
    <3> QED BY <3>1 DEF SendOK
  <2>2. CASE held'[l].pc \notin Sending
    BY <2>2 DEF SendOK, Sending
  <2> QED BY <2>1, <2>2
<1>3. \A l, j \in Runners :
         held'[l].pc \in Sending /\ held'[j].pc \in Sending /\ held'[l].item = held'[j].item => l = j
  BY <1>1 DEF Sends
<1> QED BY <1>2, <1>3 DEF Sends

\* What no runner sends may change, and so may a row that is being sent, as
\* long as it is neither PENDING again nor gone.
LEMMA SendsStill ==
  ASSUME NEW r \in Replies, RunnersOK, Sends, UNCHANGED held,
         \A q \in Replies : q # r => reply'[q] = reply[q] /\ compose'[q] = compose[q] /\ sent'[q] = sent[q],
         \/ reply[r] \in {"none", "gone", "PENDING"} \/ compose[r] \notin Composed \/ r \in Uploads
         \/ reply'[r] \notin {"none", "gone", "PENDING"} /\ compose'[r] \in Composed /\ sent'[r] = sent[r]
  PROVE  Sends'
<1>1. \A l \in Runners : held[l].pc \in Sending =>
         held[l].item \in Replies \ Uploads /\ reply[held[l].item] \notin {"none", "gone", "PENDING"} /\ compose[held[l].item] \in Composed
  BY SendsItem DEF Sends, SendOK
<1>2. \A l \in Runners : held[l].pc \in Sending =>
         /\ reply'[held[l].item] \notin {"none", "gone", "PENDING"} /\ compose'[held[l].item] \in Composed
         /\ sent'[held[l].item] = sent[held[l].item]
  <2> TAKE l \in Runners
  <2> HAVE held[l].pc \in Sending
  <2>1. CASE held[l].item = r
    BY <1>1, <2>1 DEF Sends, SendOK
  <2>2. CASE held[l].item # r
    BY <1>1, <2>2
  <2> QED BY <2>1, <2>2
<1>3. \A l \in Runners : SendOK(held[l])'
  BY <1>2 DEF Sends, SendOK, Sending
<1> QED BY <1>3 DEF Sends

LEMMA RepliesStill ==
  ASSUME RepliesOK, UNCHANGED <<reply, compose, undone, reports>>,
         \A r \in Replies : sent'[r] = sent[r] /\ (r \in named' => r \in named)
  PROVE  RepliesOK'
BY DEF RepliesOK

\* Only reply r changes.
Alone(r) ==
    /\ DOMAIN reply' = Replies /\ DOMAIN compose' = Replies /\ DOMAIN reports' = Replies /\ undone' \subseteq Replies
    /\ \A q \in Replies : q # r =>
          /\ reply'[q] = reply[q] /\ compose'[q] = compose[q] /\ reports'[q] = reports[q] /\ sent'[q] = sent[q]
          /\ (q \in undone' <=> q \in undone) /\ (q \in named' <=> q \in named)

LEMMA ReplyStep ==
  ASSUME NEW r \in Replies, RepliesOK, Alone(r),
         ReplyOK(r, compose'[r], reply'[r], sent'[r], r \in undone'),
         r \in named' \/ reports'[r] # {} => sent'[r] > 0, reports'[r] # {} => reply'[r] # "none"
  PROVE  RepliesOK'
<1>1. \A q \in Replies : ReplyOK(q, compose'[q], reply'[q], sent'[q], q \in undone')
  <2> TAKE q \in Replies
  <2>1. CASE q # r
    <3>1. ReplyOK(q, compose[q], reply[q], sent[q], q \in undone)
      BY DEF RepliesOK
    <3> QED BY <2>1, <3>1 DEF ReplyOK, Alone
  <2>2. CASE q = r
    BY <2>2
  <2> QED BY <2>1, <2>2
<1>2. \A q \in Replies : q \in named' \/ reports'[q] # {} => sent'[q] > 0
  BY DEF RepliesOK, Alone
<1>3. \A q \in Replies : reports'[q] # {} => reply'[q] # "none"
  BY DEF RepliesOK, Alone
<1> QED BY <1>1, <1>2, <1>3 DEF RepliesOK, Alone

-----------------------------------------------------------------------------
(* Steps of the queues and the webhooks.                                   *)

LEMMA RowsStill ==
  ASSUME RowsOK, UNCHANGED <<row, seen, byStaff, sent>>
  PROVE  RowsOK' /\ Grow
BY DEF RowsOK, Grow

\* No runner moves, and nobody sends or takes back.
LEMMA Silent ==
  ASSUME IInv, Grow, UNCHANGED <<held, sent, unnoted, counted, reply, compose, undone, reports, named>>
  PROVE  RunnersOK' /\ Answers' /\ Metered' /\ Sends' /\ RepliesOK'
<1>1. RunnersOK'
  BY DEF IInv, RunnersOK
<1>2. Answers' /\ Metered' /\ RepliesOK'
  BY AnswersStill, MeteredStill, RepliesStill DEF IInv
<1>3. Sends'
  BY DEF IInv, Sends, SendOK
<1> QED BY <1>1, <1>2, <1>3

\* One runner moves, and neither answers nor sends.
LEMMA Quiet ==
  ASSUME NEW k \in Runners, IInv, Only(k), HeldOK(held'[k]), held'[k].pc \notin Answering \cup Sending, Grow,
         UNCHANGED <<sent, unnoted, counted, reply, compose>>
  PROVE  RunnersOK' /\ Answers' /\ Metered' /\ Sends'
<1>1. RunnersOK'
  BY OthersOK DEF IInv
<1>2. Answers' /\ Metered' /\ Sends'
  BY AnswersKept, MeteredKept, SendsKept DEF IInv, Answering
<1> QED BY <1>1, <1>2

LEMMA Unchanged ==
  ASSUME IInv, UNCHANGED <<job, held, row, seen, byStaff, reply, compose, undone, sent, counted, unnoted,
                           named, reports>>
  PROVE  IInv'
<1>1. RowsOK' /\ Grow
  BY RowsStill DEF IInv
<1>2. JobsOK'
  BY DEF IInv, JobsOK
<1>3. RunnersOK' /\ Answers' /\ Metered' /\ Sends' /\ RepliesOK'
  BY <1>1, Silent
<1> QED BY <1>1, <1>2, <1>3 DEF IInv

\* Only jobs change.
LEMMA JobsOnly ==
  ASSUME IInv, JobsOK', UNCHANGED <<held, row, seen, byStaff, reply, compose, undone, sent, counted, unnoted,
                                    named, reports>>
  PROVE  IInv'
<1>1. RowsOK' /\ Grow
  BY RowsStill DEF IInv
<1>2. RunnersOK' /\ Answers' /\ Metered' /\ Sends' /\ RepliesOK'
  BY <1>1, Silent
<1> QED BY <1>1, <1>2 DEF IInv

\* Only jobs and one runner change, and it neither answers nor sends then.
LEMMA QuietOnly ==
  ASSUME NEW k \in Runners, IInv, JobsOK', Only(k), HeldOK(held'[k]), held'[k].pc \notin Answering \cup Sending,
         UNCHANGED <<row, seen, byStaff, reply, compose, undone, sent, counted, unnoted, reports>>,
         \A r \in Replies : r \in named' => r \in named
  PROVE  IInv'
<1>1. RowsOK' /\ Grow
  BY RowsStill DEF IInv
<1>2. RunnersOK' /\ Answers' /\ Metered' /\ Sends'
  BY <1>1, Quiet
<1>3. RepliesOK'
  BY RepliesStill DEF IInv
<1> QED BY <1>1, <1>2, <1>3 DEF IInv

USE DEF hook, staff, guest, mirror, aside, pipeline, failures

LEMMA WebhookSteps ==
  ASSUME NEW m \in Messages, IInv,
         DeliverWhatsApp(m) \/ DeliverFails(m) \/ DeliverInstagram(m) \/ Intake(m) \/ IntakeFails(m)
  PROVE  IInv'
<1>1. CASE DeliverWhatsApp(m) \/ EnqueueEvent(m)
  <2>1. m \in Items \ Uploads
    BY Given DEF Items
  <2>2. Enqueue(m) /\ UNCHANGED <<held, row, seen, byStaff, reply, compose, undone, sent, counted, unnoted,
                                  named, reports>>
    BY <1>1 DEF DeliverWhatsApp, EnqueueEvent
  <2> QED BY <2>1, <2>2, Enqueued, JobsOnly DEF IInv
<1>2. CASE DeliverFails(m) \/ DeliverInstagram(m) \/ RecordEvent(m) \/ IntakeFails(m)
  BY <1>2, Unchanged DEF DeliverFails, DeliverInstagram, RecordEvent, IntakeFails
<1> QED BY <1>1, <1>2 DEF Intake

LEMMA StallStep ==
  ASSUME NEW i \in Items, IInv, Stall(i)
  PROVE  IInv'
<1>1. JobOK(Stalled(job[i])) /\ (i \in Uploads => Stalled(job[i]).state = "none")
  BY StalledOK DEF IInv, JobsOK
<1>2. job' = [job EXCEPT ![i] = Stalled(job[i])]
  BY DEF Stall
<1>3. JobsOK'
  BY <1>1, <1>2, JobStep DEF IInv
<1> QED BY <1>3, JobsOnly DEF Stall

LEMMA NoJobOK == JobOK(NoJob) /\ NoJob.state = "none"
BY Given DEF JobOK, JobRows, JobState, NoJob

LEMMA ForgetStep ==
  ASSUME NEW i \in Items, IInv, Forget(i)
  PROVE  IInv'
<1>1. JobsOK'
  BY NoJobOK, JobStep DEF IInv, Forget
<1> QED BY <1>1, JobsOnly DEF Forget

LEMMA TakeStep ==
  ASSUME NEW k \in Runners, NEW i \in Items, IInv, Take(k, i)
  PROVE  IInv'
<1>1. JobOK(job[i]) /\ job[i].state = "waiting" /\ i \notin Uploads
  BY DEF Take, IInv, JobsOK
<1> DEFINE now == [job[i] EXCEPT !.state = "active", !.holder = k]
           doing == [Idle EXCEPT !.item = i,
                       !.pc = IF i \in Replies THEN "claim send" ELSE IF i \in Instagram THEN "claim" ELSE "lookup"]
<1>2. JobOK(now)
  BY <1>1 DEF JobOK, JobRows, JobState
<1>3. job' = [job EXCEPT ![i] = now]
  BY DEF Take
<1>4. JobsOK'
  <2> HIDE DEF now
  <2> QED BY <1>1, <1>2, <1>3, JobStep DEF IInv
<1>5. HeldOK(doing) /\ doing.pc \notin Answering \cup Sending
  BY <1>1 DEF HeldOK, HeldRows, Idle, Phase, InPhase, OutPhase, Items, Answering, Sending
<1>6. held' = [held EXCEPT ![k] = doing]
  BY DEF Take
<1>7. Only(k) /\ held'[k] = doing
  <2> HIDE DEF doing
  <2> QED BY <1>6 DEF Only, IInv, RunnersOK
<1>8. UNCHANGED <<row, seen, byStaff, reply, compose, undone, sent, counted, unnoted, reports, named>>
  BY DEF Take
<1> HIDE DEF now, doing
<1> QED BY <1>4, <1>5, <1>7, <1>8, QuietOnly

LEMMA CrashStep ==
  ASSUME IInv, Crash
  PROVE  IInv'
<1>1. JobsOK'
  <2>1. job' = [i \in Items |-> Stalled(job[i])]
    BY DEF Crash
  <2>2. \A i \in Items : JobOK(Stalled(job[i])) /\ (i \in Uploads => Stalled(job[i]).state = "none")
    BY StalledOK DEF IInv, JobsOK
  <2> QED BY <2>1, <2>2 DEF JobsOK
<1>2. held' = [k \in Runners |-> Idle] /\ UNCHANGED <<row, seen, byStaff, reply, undone, sent, counted, unnoted, named>>
  BY DEF Crash
<1>3. RunnersOK' /\ \A k \in Runners : held'[k].pc = "idle"
  <2>1. HeldOK(Idle) /\ Idle.pc = "idle"
    BY DEF HeldOK, HeldRows, Idle, Phase, InPhase, OutPhase
  <2> QED BY <1>2, <2>1 DEF RunnersOK
<1>4. RowsOK'
  BY <1>2, RowsStill DEF IInv
<1>5. Answers'
  <2>1. \A k \in Runners : AnswerOK(held[k])'
    BY <1>3 DEF AnswerOK, Answering
  <2>2. AnsweredOnce' /\ \A m \in Messages : row'[m] = "none" => sent'[m] = 0
    BY <1>2 DEF IInv, Answers, AnsweredOnce
  <2> QED BY <1>3, <2>1, <2>2 DEF Answers, Answering
<1>6. Metered'
  BY <1>2, <1>3 DEF IInv, Metered
<1>7. Sends'
  BY <1>3 DEF Sends, SendOK, Sending
<1>8. RepliesOK'
  <2>1. compose' = [r \in Replies |-> IF compose[r] = "idle" THEN "idle" ELSE "over"]
    BY DEF Crash
  <2>2. reports' = [r \in Replies |-> {}]
    BY DEF Crash
  <2>3. \A r \in Replies : ReplyOK(r, compose'[r], reply'[r], sent'[r], r \in undone')
    <3> TAKE r \in Replies
    <3>1. ReplyOK(r, compose[r], reply[r], sent[r], r \in undone)
      BY DEF IInv, RepliesOK
    <3> QED BY <1>2, <2>1, <3>1 DEF ReplyOK, Composed, Stage
  <2>4. \A r \in Replies : r \in named' \/ reports'[r] # {} => sent'[r] > 0
    BY <1>2, <2>2 DEF IInv, RepliesOK
  <2> QED BY <1>2, <2>1, <2>2, <2>3, <2>4 DEF IInv, RepliesOK
<1> QED BY <1>1, <1>3, <1>4, <1>5, <1>6, <1>7, <1>8 DEF IInv

-----------------------------------------------------------------------------
(* Steps of the inbound workers.                                           *)

\* A runner that moves to a phase of its kind is well.
LEMMA MovesOK ==
  ASSUME NEW k \in Runners, NEW pc \in Phase, RunnersOK, Goto(k, pc), held[k].pc # "idle",
         pc \in InPhase => Item(k) \in Messages, pc \in OutPhase => Item(k) \in Replies \ Uploads
  PROVE  Only(k) /\ HeldOK(held'[k]) /\ held'[k].pc = pc /\ held'[k].item = Item(k)
<1>1. Only(k) /\ held'[k] \in HeldRows /\ held'[k].pc = pc /\ held'[k].item = Item(k)
  BY Moves DEF Item
<1>2. Item(k) \in Items
  BY HasItem
<1> QED BY <1>1, <1>2 DEF HeldOK

\* It returns from logIncomingMessage.
LEMMA AfterPhase ==
  ASSUME NEW i
  PROVE  After(i) \in {"download", "mark", "done"} /\ After(i) \in Phase /\ After(i) \notin Answering \cup Sending
BY DEF After, Phase, InPhase, Answering, Sending

LEMMA DoneStep ==
  ASSUME NEW k \in Runners, IInv, Done(k)
  PROVE  IInv'
<1>1. held[k].pc # "idle" /\ Finish(k)
  BY DEF Done, At
<1>2. JobsOK' /\ Only(k) /\ HeldOK(held'[k]) /\ held'[k].pc = "idle"
  BY <1>1, Finishes DEF IInv
<1> QED BY <1>2, QuietOnly DEF Done, Answering, Sending

LEMMA BreaksStep ==
  ASSUME NEW k \in Runners, IInv, Breaks(k)
  PROVE  IInv'
<1>1. held[k].pc # "idle" /\ Throws(k)
  BY DEF Breaks
<1>2. JobsOK' /\ Only(k) /\ HeldOK(held'[k]) /\ held'[k].pc = "idle"
  BY <1>1, Thrown DEF IInv
<1> QED BY <1>2, QuietOnly DEF Breaks, Answering, Sending

\* Steps that go on without a word.
LEMMA QuietSteps ==
  ASSUME NEW k \in Runners, IInv, Claim(k) \/ Notify(k) \/ FindPending(k) \/ Mark(k) \/ Record(k)
  PROVE  IInv'
<1>1. held[k].pc # "idle" /\ Item(k) \in Messages
  <2>1. held[k].pc \in InPhase /\ held[k].pc # "idle"
    BY DEF Claim, Notify, FindPending, Mark, Record, At, InPhase
  <2> QED BY <2>1, HasItem DEF IInv
<1>2. UNCHANGED <<row, seen, byStaff, reply, compose, undone, sent, counted, unnoted, reports>>
  BY DEF Claim, Notify, FindPending, Mark, Record
<1>3. \A r \in Replies : r \in named' => r \in named
  BY <1>1, Given DEF Claim, Notify, FindPending, Mark, Record
<1>4. \/ \E pc \in Phase \ (Answering \cup Sending \cup OutPhase) : Goto(k, pc) /\ UNCHANGED job
      \/ Finish(k) \/ Throws(k)
  <2>1. {"lookup", "fetch", "done", After(Item(k))} \subseteq Phase \ (Answering \cup Sending \cup OutPhase)
    BY DEF Phase, InPhase, OutPhase, Answering, Sending, After
  <2> QED BY <2>1 DEF Claim, Notify, FindPending, Mark, Record
<1>5. CASE \E pc \in Phase \ (Answering \cup Sending \cup OutPhase) : Goto(k, pc) /\ UNCHANGED job
  <2>1. PICK pc \in Phase \ (Answering \cup Sending \cup OutPhase) : Goto(k, pc) /\ UNCHANGED job
    BY <1>5
  <2>2. Only(k) /\ HeldOK(held'[k]) /\ held'[k].pc \notin Answering \cup Sending
    BY <1>1, <2>1, MovesOK DEF IInv
  <2>3. JobsOK'
    BY <2>1 DEF IInv, JobsOK
  <2> QED BY <1>2, <1>3, <2>2, <2>3, QuietOnly
<1>6. CASE Finish(k)
  <2>1. JobsOK' /\ Only(k) /\ HeldOK(held'[k]) /\ held'[k].pc \notin Answering \cup Sending
    BY <1>1, <1>6, Finishes DEF IInv, Answering, Sending
  <2> QED BY <1>2, <1>3, <2>1, QuietOnly
<1>7. CASE Throws(k)
  <2>1. JobsOK' /\ Only(k) /\ HeldOK(held'[k]) /\ held'[k].pc \notin Answering \cup Sending
    BY <1>1, <1>7, Thrown DEF IInv, Answering, Sending
  <2> QED BY <1>2, <1>3, <2>1, QuietOnly
<1> QED BY <1>4, <1>5, <1>6, <1>7

LEMMA LookupStep ==
  ASSUME NEW k \in Runners, IInv, Lookup(k)
  PROVE  IInv'
<1>1. Item(k) \in Messages /\ held[k] \in HeldRows /\ byStaff \in BOOLEAN
  BY HasItem DEF Lookup, At, InPhase, IInv, HeldOK, RowsOK
<1>2. PICK pc : pc = IF row[Item(k)] = "none" THEN "persist" ELSE After(Item(k))
  OBVIOUS
<1>3. pc \in Phase \ (Answering \cup Sending \cup OutPhase \cup {"idle"})
  BY <1>2, AfterPhase DEF Phase, InPhase, OutPhase, Answering, Sending
<1>4. held' = [held EXCEPT ![k] = [held[k] EXCEPT !.off = byStaff, !.pc = pc]]
  BY <1>2 DEF Lookup
<1>5. held'[k] = [held[k] EXCEPT !.off = byStaff, !.pc = pc] /\ Only(k)
  BY <1>4 DEF IInv, RunnersOK, Only
<1>6. held'[k] \in HeldRows /\ held'[k].pc = pc /\ held'[k].item = Item(k)
  BY <1>1, <1>3, <1>5 DEF HeldRows, Item
<1>7. HeldOK(held'[k]) /\ held'[k].pc \notin Answering \cup Sending
  BY <1>1, <1>3, <1>6 DEF HeldOK, Items
<1>8. JobsOK'
  BY DEF Lookup, IInv, JobsOK
<1> QED BY <1>5, <1>7, <1>8, QuietOnly DEF Lookup

-----------------------------------------------------------------------------
(* Rows that come and change.                                              *)

\* A row is written, and nobody moves.
LEMMA RowStep ==
  ASSUME NEW m \in Messages, NEW value \in Waits \ {"none"}, IInv, value = "pending" => m \in Media,
         row' = [row EXCEPT ![m] = value],
         UNCHANGED <<job, held, seen, byStaff, reply, compose, undone, sent, counted, unnoted, named, reports>>
  PROVE  IInv'
<1>1. RowsOK' /\ Grow
  BY DEF IInv, RowsOK, Grow
<1>2. JobsOK'
  BY DEF IInv, JobsOK
<1>3. RunnersOK' /\ Answers' /\ Metered' /\ Sends' /\ RepliesOK'
  BY <1>1, Silent
<1> QED BY <1>1, <1>2, <1>3 DEF IInv

LEMMA RowSteps ==
  ASSUME IInv, (\E i \in Items : WriteDeleted(i)) \/ (\E m \in Messages : FetchImported(m))
                  \/ (\E c \in Chunks : ImportMessage(c))
  PROVE  IInv'
<1>1. ASSUME NEW i \in Items, WriteDeleted(i) PROVE IInv'
  <2>1. UNCHANGED <<job, held, seen, byStaff, reply, compose, undone, sent, counted, unnoted, named, reports>>
    BY <1>1 DEF WriteDeleted
  <2>2. CASE i \in Messages
    BY <1>1, <2>1, <2>2, RowStep DEF WriteDeleted, Waits
  <2>3. CASE i \notin Messages
    BY <1>1, <2>1, <2>3, Unchanged DEF WriteDeleted
  <2> QED BY <2>2, <2>3
<1>2. ASSUME NEW m \in Messages, FetchImported(m) PROVE IInv'
  <2>1. UNCHANGED <<job, held, seen, byStaff, reply, compose, undone, sent, counted, unnoted, named, reports>>
    BY <1>2 DEF FetchImported
  <2>2. CASE row' = [row EXCEPT ![m] = "stored"]
    BY <2>1, <2>2, RowStep DEF Waits
  <2>3. CASE UNCHANGED row
    BY <2>1, <2>3, Unchanged
  <2> QED BY <1>2, <2>2, <2>3 DEF FetchImported
<1>3. ASSUME NEW c \in Chunks, ImportMessage(c) PROVE IInv'
  <2>1. UNCHANGED <<job, held, seen, byStaff, reply, compose, undone, sent, counted, unnoted, named, reports>>
    BY <1>3 DEF ImportMessage
  <2>2. Synced[c] \in Messages
    BY MessagingAssumption
  <2>3. PICK value : value = IF Synced[c] \in Media THEN "pending" ELSE "stored"
    OBVIOUS
  <2>4. row' = IF row[Synced[c]] # "none" THEN row ELSE [row EXCEPT ![Synced[c]] = value]
    BY <1>3, <2>3 DEF ImportMessage
  <2>5. value \in Waits \ {"none"} /\ (value = "pending" => Synced[c] \in Media)
    BY <2>3 DEF Waits
  <2>6. CASE UNCHANGED row
    BY <2>1, <2>6, Unchanged
  <2>7. CASE row' = [row EXCEPT ![Synced[c]] = value]
    BY <2>1, <2>2, <2>5, <2>7, RowStep
  <2> QED BY <2>4, <2>6, <2>7
<1> QED BY <1>1, <1>2, <1>3

LEMMA ReadMarkStep ==
  ASSUME IInv, MarkMessagesRead
  PROVE  IInv'
<1>1. RowsOK' /\ Grow
  BY DEF IInv, RowsOK, Grow, MarkMessagesRead
<1>2. JobsOK'
  BY DEF IInv, JobsOK, MarkMessagesRead
<1>3. RunnersOK' /\ Answers' /\ Metered' /\ Sends' /\ RepliesOK'
  BY <1>1, Silent DEF MarkMessagesRead
<1> QED BY <1>1, <1>2, <1>3 DEF IInv

LEMMA EnableStep ==
  ASSUME IInv, EnableBot
  PROVE  IInv'
<1>1. RowsOK' /\ Grow
  BY DEF IInv, RowsOK, Grow, EnableBot
<1>2. JobsOK'
  BY DEF IInv, JobsOK, EnableBot
<1>3. RunnersOK' /\ Answers' /\ Metered' /\ Sends' /\ RepliesOK'
  BY <1>1, Silent DEF EnableBot
<1> QED BY <1>1, <1>2, <1>3 DEF IInv

LEMMA DownloadStep ==
  ASSUME NEW k \in Runners, IInv, Download(k)
  PROVE  IInv'
<1>1. held[k].pc # "idle" /\ Item(k) \in Messages
  BY HasItem DEF Download, At, InPhase, IInv
<1>2. UNCHANGED <<job, seen, byStaff, reply, compose, undone, sent, counted, unnoted, named, reports>>
  BY DEF Download
<1>3. Only(k) /\ HeldOK(held'[k]) /\ held'[k].pc = "done"
  <2>1. Goto(k, "done") /\ "done" \in Phase \ (InPhase \cup OutPhase)
    BY DEF Download, Phase, InPhase, OutPhase
  <2> QED BY <1>1, <2>1, MovesOK DEF IInv
<1>4. row' = [row EXCEPT ![Item(k)] = "stored"] \/ row' = row
  BY DEF Download
<1>5. RowsOK' /\ Grow
  <2>1. CASE row' = row
    BY <1>2, <2>1, RowsStill DEF IInv
  <2>2. CASE row' = [row EXCEPT ![Item(k)] = "stored"]
    <3>1. PICK m \in Messages : m = Item(k)
      BY <1>1
    <3>2. row' = [row EXCEPT ![m] = "stored"]
      BY <2>2, <3>1
    <3> QED BY <1>2, <3>2 DEF IInv, RowsOK, Grow, Waits
  <2> QED BY <1>4, <2>1, <2>2
<1>6. JobsOK'
  BY <1>2 DEF IInv, JobsOK
<1>7. RunnersOK' /\ Answers' /\ Metered' /\ Sends'
  BY <1>2, <1>3, <1>5, Quiet DEF Answering, Sending
<1>8. RepliesOK'
  BY <1>2, RepliesStill DEF IInv
<1> QED BY <1>5, <1>6, <1>7, <1>8 DEF IInv

-----------------------------------------------------------------------------
(* A message is stored, metered and answered.                              *)

LEMMA NotAnswered ==
  ASSUME NEW m \in Messages, RunnersOK, Answers, row[m] = "none"
  PROVE  sent[m] = 0 /\ \A l \in Runners : held[l].pc \in Answering => held[l].item # m
BY DEF Answers, AnswerOK

\* Runner k answers message m, and is the only one.
LEMMA AnswersMove ==
  ASSUME NEW k \in Runners, NEW m \in Messages, RunnersOK, Answers, Only(k), Grow,
         held'[k].item = m, AnswerOK(held[k])',
         \A l \in Runners : l # k /\ held[l].pc \in Answering => held[l].item # m,
         \A n \in Messages : n # m => sent'[n] = sent[n] /\ (n \in unnoted' <=> n \in unnoted),
         row'[m] # "none", sent'[m] <= IF m \in unnoted' THEN 2 ELSE 1
  PROVE  Answers'
<1>1. \A l \in Runners : l # k /\ held'[l].pc \in Answering =>
         held'[l] = held[l] /\ held[l].item \in Messages \ {m} /\ AnswerOK(held[l])
  BY AnswersItem DEF Only, Answers
<1>2. \A l \in Runners : AnswerOK(held[l])'
  <2> TAKE l \in Runners
  <2>1. CASE l # k /\ held'[l].pc \in Answering
    BY <1>1, <2>1 DEF AnswerOK, Grow
  <2>2. CASE held'[l].pc \notin Answering
    BY <2>2 DEF AnswerOK, Answering
  <2> QED BY <2>1, <2>2
<1>3. \A l, j \in Runners :
         held'[l].pc \in Answering /\ held'[j].pc \in Answering /\ held'[l].item = held'[j].item => l = j
  BY <1>1 DEF Answers
<1>4. \A n \in Messages : row'[n] = "none" => sent'[n] = 0
  BY DEF Answers, Grow
<1>5. AnsweredOnce'
  BY DEF Answers, AnsweredOnce
<1> QED BY <1>2, <1>3, <1>4, <1>5 DEF Answers

LEMMA Target ==
  ASSUME NEW k \in Runners, NEW pc, RunnersOK, Goto(k, pc)
  PROVE  held'[k].pc = pc
BY DEF Goto, RunnersOK, HeldOK, HeldRows

\* Where it may go from there: the next phase of its answer, or its return.
LEMMA AnswerSteps ==
  ASSUME NEW k \in Runners, IInv, Bot(k) \/ (\E p \in Payloads : SendOutbound(k, p)) \/ SaveOutbound(k) \/ Send(k)
  PROVE  IInv'
<1> DEFINE m == Item(k)
<1>1. held[k].pc \in Answering \ {"meter"} /\ held[k].pc # "idle" /\ m \in Messages
  <2>1. held[k].pc \in InPhase /\ held[k].pc # "idle" /\ held[k].pc \in Answering \ {"meter"}
    BY DEF Bot, SendOutbound, SaveOutbound, Send, At, InPhase, Answering
  <2> QED BY <2>1, HasItem DEF IInv
<1>2. m \notin Replies /\ m \in Items
  BY <1>1, Given DEF Items
<1>3. UNCHANGED <<job, row, seen, byStaff, reply, compose, undone, counted, reports>>
  BY DEF Bot, SendOutbound, SaveOutbound, Send
<1>4. \A r \in Replies : r \in named' => r \in named
  BY <1>2 DEF Bot, SendOutbound, SaveOutbound, Send
<1>5. sent' = sent \/ sent' = [sent EXCEPT ![m] = sent[m] + 1]
  BY <1>2 DEF IInv, RowsOK, Bot, SendOutbound, SaveOutbound, Send, Calls
<1>6. unnoted' = unnoted \/ unnoted' = unnoted \cup {m}
  BY DEF Bot, SendOutbound, SaveOutbound, Send
<1>7. PICK pc \in {"send", "save", "record", "download", "mark", "done"} : Goto(k, pc)
  BY AfterPhase DEF Bot, SendOutbound, SaveOutbound, Send
<1>8. pc \in Phase \ (OutPhase \cup {"idle", "meter", "bot"})
  BY DEF Phase, InPhase, OutPhase
<1>9. Only(k) /\ HeldOK(held'[k]) /\ held'[k].pc = pc /\ held'[k].item = m
  <2> HIDE DEF m
  <2>1. Item(k) = m
    BY DEF m
  <2> QED BY <1>1, <1>7, <1>8, <2>1, MovesOK DEF IInv
<1>10. sent \in [Items -> Nat] /\ sent' \in [Items -> Nat]
  BY <1>2, <1>5 DEF IInv, RowsOK
<1>11. AnswerOK(held[k]) /\ held[k].item = m /\ row[m] # "none"
  BY <1>1 DEF IInv, Answers, AnswerOK, Item
<1>12. AnswerOK(held[k])' /\ sent'[m] <= IF m \in unnoted' THEN 2 ELSE 1
  <2>1. CASE Bot(k)
    <3>1. sent[m] = 0 /\ sent' = sent /\ unnoted' = unnoted /\ pc # "save"
      <4>1. pc \in {"send", After(m)}
        BY <1>9, <2>1, Target DEF Bot, IInv
      <4> QED BY <1>11, <2>1, <4>1, AfterPhase DEF Bot, At, AnswerOK
    <3> QED BY <1>3, <1>8, <1>9, <1>11, <3>1 DEF AnswerOK
  <2>2. CASE \E p \in Payloads : SendOutbound(k, p)
    <3>1. sent[m] = 0
      BY <1>11, <2>2 DEF SendOutbound, At, AnswerOK
    <3>2. PICK o : /\ sent' = [sent EXCEPT ![m] = IF Reaches(o) THEN sent[m] + 1 ELSE sent[m]]
                   /\ unnoted' = IF o = "lost" THEN unnoted \cup {m} ELSE unnoted
                   /\ ~Accepted(o) \/ Goto(k, "save") \/ Goto(k, After(m))
      BY <2>2 DEF SendOutbound, Calls
    <3>3. sent'[m] = IF Reaches(o) THEN 1 ELSE 0
      BY <1>2, <1>10, <3>1, <3>2
    <3>4. pc = "send" => ~Accepted(o)
      BY <1>9, <3>2, Target, AfterPhase DEF IInv
    <3>5. pc = "send" => sent'[m] <= IF m \in unnoted' THEN 1 ELSE 0
      BY <3>2, <3>3, <3>4 DEF Accepted, Reaches
    <3> QED BY <1>3, <1>8, <1>9, <1>11, <3>3, <3>5 DEF AnswerOK
  <2>3. CASE SaveOutbound(k)
    <3>1. sent[m] <= 1 /\ sent' = sent
      BY <1>11, <2>3 DEF SaveOutbound, At, AnswerOK
    <3>2. pc # "save" /\ (pc = "send" => unnoted' = unnoted \cup {m})
      BY <1>9, <2>3, Target, AfterPhase DEF SaveOutbound, IInv
    <3>3. sent'[m] = sent[m] /\ sent'[m] \in Nat /\ sent'[m] <= 1
      BY <1>2, <1>10, <3>1
    <3>4. pc = "send" => m \in unnoted'
      BY <3>2
    <3> QED BY <1>3, <1>8, <1>9, <1>11, <3>2, <3>3, <3>4 DEF AnswerOK
  <2>4. CASE Send(k)
    <3>1. sent[m] <= (IF m \in unnoted THEN 1 ELSE 0) /\ unnoted' = unnoted
      BY <1>11, <2>4 DEF Send, At, AnswerOK
    <3>2. pc = "record"
      BY <1>9, <2>4, Target DEF Send, IInv
    <3>3. sent'[m] <= sent[m] + 1
      BY <1>2, <1>5, <1>10
    <3> QED BY <1>2, <1>3, <1>9, <1>10, <1>11, <3>1, <3>2, <3>3 DEF AnswerOK, Answering
  <2> QED BY <2>1, <2>2, <2>3, <2>4
<1>13. RowsOK' /\ Grow
  BY <1>3, <1>10 DEF IInv, RowsOK, Grow
<1>14. \A l \in Runners : l # k /\ held[l].pc \in Answering => held[l].item # m
  BY <1>1, <1>11 DEF IInv, Answers
<1>15. \A n \in Messages : n # m => sent'[n] = sent[n] /\ (n \in unnoted' <=> n \in unnoted)
  BY <1>2, <1>5, <1>6, <1>10 DEF Items
<1>16. \A r \in Replies : sent'[r] = sent[r]
  BY <1>2, <1>5, <1>10 DEF Items
<1>17. RunnersOK' /\ JobsOK'
  BY <1>3, <1>9, OthersOK DEF IInv, JobsOK
<1>18. Answers'
  <2> HIDE DEF m
  <2> QED BY <1>1, <1>3, <1>9, <1>11, <1>12, <1>13, <1>14, <1>15, AnswersMove DEF IInv
<1>19. Metered' /\ Sends' /\ RepliesOK'
  BY <1>3, <1>4, <1>8, <1>9, <1>13, <1>16, MeteredKept, SendsKept, RepliesStill DEF IInv, Sending, OutPhase
<1> QED BY <1>13, <1>17, <1>18, <1>19 DEF IInv

\* The one whose create succeeds goes on; the other throws.
LEMMA PersistStep ==
  ASSUME NEW k \in Runners, IInv, Persist(k)
  PROVE  IInv'
<1>1. held[k].pc = "persist" /\ held[k].pc # "idle" /\ Item(k) \in Messages
  BY HasItem DEF Persist, At, InPhase, IInv
<1>2. PICK m \in Messages : m = Item(k)
  BY <1>1
<1>3. UNCHANGED <<seen, byStaff, reply, compose, undone, sent, counted, unnoted, named, reports>>
  BY DEF Persist
<1>4. CASE row[m] # "none"
  <2>1. Throws(k) /\ row' = row
    BY <1>2, <1>4 DEF Persist
  <2>2. JobsOK' /\ Only(k) /\ HeldOK(held'[k]) /\ held'[k].pc \notin Answering \cup Sending
    BY <1>1, <2>1, Thrown DEF IInv, Answering, Sending
  <2> QED BY <1>3, <2>1, <2>2, QuietOnly
<1>5. CASE row[m] = "none"
  <2>1. PICK value, pc : /\ value = IF m \in Media THEN "pending" ELSE "stored"
                         /\ pc = IF m \in Media THEN "download" ELSE "meter"
    OBVIOUS
  <2>2. row' = [row EXCEPT ![m] = value] /\ Goto(k, pc) /\ UNCHANGED job
    BY <1>2, <1>5, <2>1 DEF Persist
  <2>3. pc \in Phase \ (OutPhase \cup {"idle", "bot", "save", "send"})
    BY <2>1 DEF Phase, InPhase, OutPhase
  <2>4. Only(k) /\ HeldOK(held'[k]) /\ held'[k].pc = pc /\ held'[k].item = m
    BY <1>1, <1>2, <2>2, <2>3, MovesOK DEF IInv
  <2>5. RowsOK' /\ Grow /\ row'[m] # "none"
    <3>1. value \in Waits \ {"none"} /\ (value = "pending" => m \in Media)
      BY <2>1 DEF Waits
    <3> QED BY <1>3, <2>2, <3>1 DEF IInv, RowsOK, Grow
  <2>6. JobsOK' /\ RunnersOK'
    BY <2>2, <2>4, OthersOK DEF IInv, JobsOK
  <2>7. sent[m] = 0 /\ \A l \in Runners : held[l].pc \in Answering => held[l].item # m
    BY <1>5, NotAnswered DEF IInv
  <2>8. AnswerOK(held[k])' /\ sent'[m] <= IF m \in unnoted' THEN 2 ELSE 1
    BY <1>3, <2>3, <2>4, <2>5, <2>7 DEF AnswerOK
  <2>9. Answers'
    BY <1>3, <2>4, <2>5, <2>7, <2>8, AnswersMove DEF IInv
  <2>10. Metered'
    <3>1. CASE counted = 1
      <4>1. PICK n \in Messages : row[n] # "none" /\ \A j \in Runners : ~(held[j].pc = "meter" /\ held[j].item = n)
        BY <3>1 DEF IInv, Metered
      <4>2. n # m
        BY <1>5, <4>1
      <4>3. row'[n] # "none" /\ \A j \in Runners : ~(held'[j].pc = "meter" /\ held'[j].item = n)
        BY <2>4, <2>5, <4>1, <4>2 DEF Only, Grow
      <4> QED BY <1>3, <4>3 DEF IInv, Metered
    <3>2. CASE counted # 1
      BY <1>3, <3>2 DEF IInv, Metered
    <3> QED BY <3>1, <3>2
  <2>11. Sends' /\ RepliesOK'
    BY <1>3, <2>3, <2>4, SendsKept, RepliesStill DEF IInv, Sending, OutPhase
  <2> QED BY <2>5, <2>6, <2>9, <2>10, <2>11 DEF IInv
<1> QED BY <1>4, <1>5

\* A window that is metered already is not metered again: the message that
\* opened it is another one.
LEMMA MeterStep ==
  ASSUME NEW k \in Runners, NEW suspended \in BOOLEAN, NEW off \in BOOLEAN, IInv, Meter(k, suspended, off)
  PROVE  IInv'
<1>1. held[k].pc = "meter" /\ held[k].pc # "idle" /\ Item(k) \in Messages
  BY HasItem DEF Meter, At, InPhase, IInv
<1>2. PICK m \in Messages : m = Item(k)
  BY <1>1
<1>3. UNCHANGED <<job, row, seen, byStaff, reply, compose, undone, sent, unnoted, named, reports>>
  BY DEF Meter
<1>4. PICK pc \in {"notify", "bot"} : Goto(k, pc)
  BY DEF Meter, Goto
<1>5. pc \in Phase \ (OutPhase \cup {"idle", "meter", "save", "send"})
  BY <1>4 DEF Phase, InPhase, OutPhase
<1>6. Only(k) /\ HeldOK(held'[k]) /\ held'[k].pc = pc /\ held'[k].item = m
  BY <1>1, <1>2, <1>4, <1>5, MovesOK DEF IInv
<1>7. AnswerOK(held[k]) /\ held[k].item = m /\ row[m] # "none" /\ sent[m] = 0
  BY <1>1, <1>2 DEF IInv, Answers, AnswerOK, Item, Answering
<1>8. RowsOK' /\ Grow /\ row'[m] # "none"
  BY <1>3, <1>7, RowsStill DEF IInv
<1>9. JobsOK' /\ RunnersOK'
  BY <1>3, <1>6, OthersOK DEF IInv, JobsOK
<1>10. \A l \in Runners : l # k /\ held[l].pc \in Answering => held[l].item # m
  BY <1>1, <1>7 DEF IInv, Answers, Answering
<1>11. AnswerOK(held[k])' /\ sent'[m] <= IF m \in unnoted' THEN 2 ELSE 1
  BY <1>3, <1>5, <1>6, <1>7 DEF AnswerOK
<1>12. Answers'
  BY <1>3, <1>6, <1>8, <1>10, <1>11, AnswersMove DEF IInv
<1>13. Metered'
  <2>1. \A j \in Runners : ~(held'[j].pc = "meter" /\ held'[j].item = m)
    BY <1>5, <1>6, <1>10 DEF Only, Answering
  <2>2. CASE counted = 1
    <3>1. PICK n \in Messages : row[n] # "none" /\ \A j \in Runners : ~(held[j].pc = "meter" /\ held[j].item = n)
      BY <2>2 DEF IInv, Metered
    <3>2. n # m
      BY <1>1, <1>7, <3>1
    <3>3. Others(Item(k))
      BY <1>2, <3>1, <3>2 DEF Others
    <3>4. counted' = counted
      BY <3>3 DEF Meter
    <3>5. row'[n] # "none" /\ \A j \in Runners : ~(held'[j].pc = "meter" /\ held'[j].item = n)
      BY <1>5, <1>6, <1>8, <3>1 DEF Only, Grow
    <3> QED BY <2>2, <3>4, <3>5 DEF Metered
  <2>3. CASE counted = 0
    <3>1. counted' \in 0 .. 1
      BY <2>3 DEF Meter
    <3> QED BY <1>8, <2>1, <3>1 DEF Metered
  <2> QED BY <2>2, <2>3 DEF IInv, Metered
<1>14. Sends' /\ RepliesOK'
  BY <1>3, <1>5, <1>6, SendsKept, RepliesStill DEF IInv, Sending, OutPhase
<1> QED BY <1>8, <1>9, <1>12, <1>13, <1>14 DEF IInv

\* Every step of an inbound worker.
LEMMA InboundSteps ==
  ASSUME NEW k \in Runners, IInv, Inbound(k)
  PROVE  IInv'
<1>1. CASE Claim(k) \/ Notify(k) \/ FindPending(k) \/ Mark(k) \/ Record(k)
  BY <1>1, QuietSteps
<1>2. CASE Lookup(k) \/ Persist(k) \/ Download(k) \/ Done(k)
  BY <1>2, LookupStep, PersistStep, DownloadStep, DoneStep
<1>3. CASE \E suspended, off \in BOOLEAN : Meter(k, suspended, off)
  BY <1>3, MeterStep
<1>4. CASE Bot(k) \/ (\E p \in Payloads : SendOutbound(k, p)) \/ SaveOutbound(k) \/ Send(k)
  BY <1>4, AnswerSteps
<1> QED BY <1>1, <1>2, <1>3, <1>4 DEF Inbound

-----------------------------------------------------------------------------
(* Staff replies.                                                          *)

\* What the invariant says of one reply.
LEMMA ReplyFacts ==
  ASSUME NEW r \in Replies, IInv
  PROVE  /\ ReplyOK(r, compose[r], reply[r], sent[r], r \in undone)
         /\ r \in named \/ reports[r] # {} => sent[r] > 0
         /\ reports[r] # {} => reply[r] # "none"
         /\ sent[r] \in Nat /\ r \in Items /\ r \notin Messages
         /\ DOMAIN reply = Replies /\ DOMAIN compose = Replies /\ DOMAIN reports = Replies /\ undone \subseteq Replies
BY Given DEF IInv, RepliesOK, RowsOK, Items

\* Only reply r changes, and no runner moves.
LEMMA ReplyOnly ==
  ASSUME NEW r \in Replies, IInv, JobsOK', byStaff' \in BOOLEAN, Alone(r),
         UNCHANGED <<held, row, seen, unnoted, counted>>,
         sent' = sent \/ sent' = [sent EXCEPT ![r] = @ + 1],
         ReplyOK(r, compose'[r], reply'[r], sent'[r], r \in undone'),
         r \in named' \/ reports'[r] # {} => sent'[r] > 0, reports'[r] # {} => reply'[r] # "none",
         \/ reply[r] \in {"none", "gone", "PENDING"} \/ compose[r] \notin Composed \/ r \in Uploads
         \/ reply'[r] \notin {"none", "gone", "PENDING"} /\ compose'[r] \in Composed /\ sent'[r] = sent[r]
  PROVE  IInv'
<1>1. r \in Items /\ r \notin Messages /\ sent \in [Items -> Nat]
  BY ReplyFacts DEF IInv, RowsOK
<1>2. sent' \in [Items -> Nat] /\ \A m \in Messages : sent'[m] = sent[m]
  BY <1>1 DEF Items
<1>3. RowsOK' /\ Grow
  BY <1>2 DEF IInv, RowsOK, Grow
<1>4. RunnersOK'
  BY DEF IInv, RunnersOK
<1>5. Answers' /\ Metered'
  BY <1>2, <1>3, AnswersStill, MeteredStill DEF IInv
<1>6. Sends'
  BY SendsStill DEF IInv, Alone
<1>7. RepliesOK'
  BY ReplyStep DEF IInv
<1> QED BY <1>3, <1>4, <1>5, <1>6, <1>7 DEF IInv

LEMMA JobsSame ==
  ASSUME IInv, UNCHANGED job
  PROVE  JobsOK'
BY DEF IInv, JobsOK

\* Where sendManualReply and the upload handlers go, one step after the other.
LEMMA ComposeSteps ==
  ASSUME NEW r \in Replies, IInv,
         CountReply(r) \/ SetExpiry(r) \/ TakeOver(r) \/ TakeOverUpload(r) \/ ScheduleFails(r) \/ Schedule(r)
  PROVE  IInv'
<1>1. UNCHANGED <<held, row, seen, reply, undone, sent, counted, unnoted, named, reports>>
  BY DEF CountReply, SetExpiry, TakeOver, TakeOverUpload, ScheduleFails, Schedule
<1>2. PICK stage \in {"expiry", "take over", "row", "over"} : compose' = [compose EXCEPT ![r] = stage]
  BY DEF CountReply, SetExpiry, TakeOver, TakeOverUpload, ScheduleFails, Schedule
<1>3. byStaff' \in BOOLEAN
  BY DEF IInv, RowsOK, CountReply, SetExpiry, TakeOver, TakeOverUpload, ScheduleFails, Schedule
<1>4. compose'[r] = stage /\ Alone(r)
  BY <1>1, <1>2, ReplyFacts DEF Alone
<1>5. JobsOK'
  <2>1. CASE Schedule(r)
    <3>1. r \in Items \ Uploads
      BY <2>1, ReplyFacts DEF Schedule, ReplyOK
    <3> QED BY <2>1, <3>1, Enqueued DEF Schedule, IInv
  <2>2. CASE ~Schedule(r)
    BY <2>2, JobsSame DEF CountReply, SetExpiry, TakeOver, TakeOverUpload, ScheduleFails
  <2> QED BY <2>1, <2>2
<1>6. ReplyOK(r, stage, reply[r], sent[r], r \in undone)
  <2>1. CASE CountReply(r) \/ SetExpiry(r) \/ TakeOver(r) \/ TakeOverUpload(r)
    <3>1. compose[r] \in {"idle", "expiry", "take over"} /\ r \notin Phone
      BY <2>1, ReplyFacts, Given DEF CountReply, SetExpiry, TakeOver, TakeOverUpload, ReplyOK
    <3> QED BY <3>1, ReplyFacts DEF ReplyOK, Stage, Composed
  <2>2. CASE ScheduleFails(r) \/ Schedule(r)
    <3>1. compose[r] = "schedule" /\ stage = "over"
      BY <1>2, <1>4, <2>2, ReplyFacts DEF ScheduleFails, Schedule
    <3> QED BY <3>1, ReplyFacts DEF ReplyOK, Stage, Composed
  <2> QED BY <2>1, <2>2
<1>7. reply[r] \in {"none", "gone", "PENDING"} \/ compose[r] \notin Composed \/ stage \in Composed
  <2>1. CASE CountReply(r) \/ SetExpiry(r) \/ TakeOver(r) \/ TakeOverUpload(r)
    BY <2>1 DEF CountReply, SetExpiry, TakeOver, TakeOverUpload, Composed
  <2>2. CASE ScheduleFails(r) \/ Schedule(r)
    BY <1>2, <1>4, <2>2, ReplyFacts DEF ScheduleFails, Schedule, Composed
  <2> QED BY <2>1, <2>2
<1> QED BY <1>1, <1>3, <1>4, <1>5, <1>6, <1>7, ReplyFacts, ReplyOnly

LEMMA CreateStep ==
  ASSUME NEW r \in Replies, IInv, CreatePending(r)
  PROVE  IInv'
<1>1. UNCHANGED <<job, held, row, seen, byStaff, undone, sent, counted, unnoted, named, reports>>
  BY DEF CreatePending
<1>2. PICK stage : stage = IF r \in Uploads THEN "upload" ELSE "schedule"
  OBVIOUS
<1>3. compose' = [compose EXCEPT ![r] = stage] /\ reply' = [reply EXCEPT ![r] = "PENDING"] /\ compose[r] = "row"
  BY <1>2 DEF CreatePending
<1>4. compose'[r] = stage /\ reply'[r] = "PENDING" /\ Alone(r)
  BY <1>1, <1>3, ReplyFacts DEF Alone
<1>5. ReplyOK(r, stage, "PENDING", sent[r], r \in undone)
  BY <1>2, <1>3, ReplyFacts, Given DEF ReplyOK, Stage, Status, Composed
<1>6. reply[r] = "none"
  BY <1>3, ReplyFacts DEF ReplyOK
<1>7. byStaff' \in BOOLEAN /\ JobsOK'
  BY <1>1, JobsSame DEF IInv, RowsOK
<1> QED BY <1>1, <1>4, <1>5, <1>6, <1>7, ReplyFacts, ReplyOnly

\* What is sent at once, and what an upload sends.
LEMMA SendNowStep ==
  ASSUME NEW r \in Replies, IInv, SendNow(r) \/ SendUpload(r)
  PROVE  IInv'
<1>1. UNCHANGED <<job, held, row, seen, byStaff, reply, undone, counted, unnoted, named, reports>>
  BY DEF SendNow, SendUpload
<1>2. PICK stage \in {"sent", "failed"} : compose' = [compose EXCEPT ![r] = stage]
  BY DEF SendNow, SendUpload
<1>3. compose'[r] = stage /\ compose[r] \in {"row", "upload"} /\ (compose[r] = "upload" <=> r \in Uploads)
  BY <1>2, ReplyFacts DEF SendNow, SendUpload, ReplyOK
<1>4. sent[r] = 0 /\ (r \notin Uploads => reply[r] = "none")
  BY <1>3, ReplyFacts DEF ReplyOK
<1>5. sent' = sent \/ sent' = [sent EXCEPT ![r] = @ + 1]
  BY ReplyFacts DEF SendNow, SendUpload, Calls, IInv, RowsOK
<1>6. sent'[r] \in 0 .. 1 /\ \A q \in Replies : q # r => sent'[q] = sent[q]
  BY <1>4, <1>5, ReplyFacts DEF IInv, RowsOK, Items
<1>7. Alone(r)
  BY <1>1, <1>2, <1>6, ReplyFacts DEF Alone
<1>8. ReplyOK(r, stage, reply[r], sent'[r], r \in undone)
  <2>1. r \notin Phone /\ (r \in Uploads \/ r \notin undone) /\ reply[r] \in Status
    BY <1>3, ReplyFacts DEF ReplyOK, Composed
  <2>2. stage \in Stage /\ stage \notin {"idle", "expiry", "take over", "row", "upload", "schedule"} /\ sent'[r] <= 1
    <3>1. sent'[r] <= 1
      BY <1>6
    <3>2. stage \in Stage /\ stage \notin {"idle", "expiry", "take over", "row", "upload", "schedule"}
      BY <1>2 DEF Stage
    <3> QED BY <3>1, <3>2
  <2> QED BY <1>4, <2>1, <2>2 DEF ReplyOK
<1>9. byStaff' \in BOOLEAN /\ JobsOK'
  BY <1>1, JobsSame DEF IInv, RowsOK
<1>10. r \in named' \/ reports'[r] # {} => sent'[r] > 0
  BY <1>1, <1>4, ReplyFacts
<1>11. compose[r] \notin Composed
  BY <1>3 DEF Composed
<1> QED BY <1>1, <1>3, <1>5, <1>7, <1>8, <1>9, <1>10, <1>11, ReplyFacts, ReplyOnly

LEMMA RecordStep ==
  ASSUME NEW r \in Replies, IInv, RecordNow(r) \/ RecordUpload(r)
  PROVE  IInv'
<1>1. UNCHANGED <<job, held, row, seen, byStaff, undone, sent, counted, unnoted, reports>>
  BY DEF RecordNow, RecordUpload
<1>2. compose' = [compose EXCEPT ![r] = "over"] /\ compose[r] \in {"sent", "failed"}
  BY DEF RecordNow, RecordUpload
<1>3. \/ reply' = reply /\ named' = named
      \/ /\ reply' = [reply EXCEPT ![r] = "SENT"] \/ reply' = [reply EXCEPT ![r] = "FAILED"]
         /\ named' = IF sent[r] > 0 THEN named \cup {r} ELSE named
  BY DEF RecordNow, RecordUpload, Named
<1>4. compose'[r] = "over" /\ Alone(r) /\ (reply'[r] \in {"SENT", "FAILED"} \/ reply'[r] = reply[r])
  BY <1>1, <1>2, <1>3, ReplyFacts DEF Alone
<1>5. r \notin Phone /\ (r \in Uploads \/ r \notin undone)
  BY <1>2, ReplyFacts DEF ReplyOK, Composed
<1>6. ReplyOK(r, "over", reply'[r], sent[r], r \in undone)
  BY <1>2, <1>4, <1>5, ReplyFacts DEF ReplyOK, Stage, Status, Composed
<1>7. r \in named' \/ reports'[r] # {} => sent'[r] > 0
  BY <1>1, <1>3, ReplyFacts
<1>8. reports'[r] # {} => reply'[r] # "none"
  BY <1>1, <1>4, ReplyFacts
<1>9. byStaff' \in BOOLEAN /\ JobsOK' /\ compose[r] \notin Composed
  BY <1>1, <1>2, JobsSame DEF IInv, RowsOK, Composed
<1> QED BY <1>1, <1>4, <1>6, <1>7, <1>8, <1>9, ReplyOnly

LEMMA UndoSteps ==
  ASSUME NEW r \in Replies, IInv, UndoRead(r) \/ Undoing(r)
  PROVE  IInv'
<1>1. CASE UndoRead(r)
  BY <1>1, Unchanged DEF UndoRead
<1>2. CASE UndoCancel(r)
  <2>1. PICK j : /\ job' = [job EXCEPT ![r] = j] /\ j = IF job[r].state = "active" THEN job[r] ELSE NoJob
    BY <1>2 DEF UndoCancel
  <2>2. JobOK(j) /\ (r \in Uploads => j.state = "none") /\ r \in Items
    BY <2>1, NoJobOK, ReplyFacts DEF IInv, JobsOK
  <2>3. JobsOK'
    BY <2>1, <2>2, JobStep DEF IInv
  <2> QED BY <1>2, <2>3, JobsOnly DEF UndoCancel
<1>3. CASE UndoDelete(r)
  <2>1. CASE reply[r] # "PENDING"
    BY <1>3, <2>1, Unchanged DEF UndoDelete
  <2>2. CASE reply[r] = "PENDING"
    <3>1. UNCHANGED <<job, held, row, seen, byStaff, compose, sent, counted, unnoted, named, reports>>
      BY <1>3 DEF UndoDelete
    <3>2. reply' = [reply EXCEPT ![r] = "gone"] /\ undone' = undone \cup {r}
      BY <1>3, <2>2 DEF UndoDelete
    <3>3. Alone(r) /\ reply'[r] = "gone"
      BY <3>1, <3>2, ReplyFacts DEF Alone
    <3>4. ReplyOK(r, compose[r], "gone", sent[r], r \in undone')
      BY <2>2, <3>2, ReplyFacts DEF ReplyOK, Status, Composed
    <3>5. byStaff' \in BOOLEAN /\ JobsOK'
      BY <3>1, JobsSame DEF IInv, RowsOK
    <3> QED BY <2>2, <3>1, <3>3, <3>4, <3>5, ReplyFacts, ReplyOnly
  <2> QED BY <2>1, <2>2
<1> QED BY <1>1, <1>2, <1>3 DEF Undoing

\* Reports reach only what was sent, and never take a row back to PENDING.
LEMMA ReportSteps ==
  ASSUME NEW r \in Replies, NEW status \in {"DELIVERED", "READ", "FAILED"}, IInv,
         ReadStatus(r, status) \/ WriteStatus(r, status)
  PROVE  IInv'
<1>1. UNCHANGED <<job, held, row, seen, byStaff, compose, undone, sent, counted, unnoted, named>>
  BY DEF ReadStatus, WriteStatus
<1>2. byStaff' \in BOOLEAN /\ JobsOK'
  BY <1>1, JobsSame DEF IInv, RowsOK
<1>3. CASE ReadStatus(r, status)
  <2>1. reports' = [reports EXCEPT ![r] = @ \cup {status}] /\ reply' = reply /\ r \in named /\ reply[r] # "none"
    BY <1>3 DEF ReadStatus, STATUS_RANK
  <2>2. Alone(r)
    BY <1>1, <2>1, ReplyFacts DEF Alone
  <2> QED BY <1>1, <1>2, <2>1, <2>2, ReplyFacts, ReplyOnly
<1>4. CASE WriteStatus(r, status)
  <2>1. /\ reports' = [reports EXCEPT ![r] = @ \ {status}] /\ reply' = [reply EXCEPT ![r] = status]
        /\ reports[r] # {}
    BY <1>4 DEF WriteStatus
  <2>2. Alone(r) /\ reply'[r] = status
    BY <1>1, <2>1, ReplyFacts DEF Alone
  <2>3. sent[r] > 0 /\ reply[r] # "none"
    BY <2>1, ReplyFacts
  <2>4. ReplyOK(r, compose[r], status, sent[r], r \in undone)
    <3>1. ReplyOK(r, compose[r], reply[r], sent[r], r \in undone) /\ sent[r] \in Nat
      BY ReplyFacts
    <3>2. /\ compose[r] \in Stage /\ compose[r] \notin {"expiry", "take over", "row", "upload"}
          /\ (r \in Phone \/ compose[r] # "idle")
          /\ (r \in Uploads \/ (compose[r] \notin {"sent", "failed"} /\ r \notin undone))
      <4>1. sent[r] # 0
        BY <2>3, <3>1
      <4>2. compose[r] \in Stage /\ compose[r] \notin {"expiry", "take over", "row", "upload"}
        BY <3>1, <4>1 DEF ReplyOK
      <4>3. r \in Phone \/ compose[r] # "idle"
        BY <3>1, <4>1 DEF ReplyOK
      <4>4. r \in Uploads \/ (compose[r] \notin {"sent", "failed"} /\ r \notin undone)
        BY <2>3, <3>1, <4>1 DEF ReplyOK
      <4> QED BY <4>2, <4>3, <4>4
    <3>3. status \in Status /\ status # "PENDING"
      BY DEF Status
    <3> QED BY <3>1, <3>2, <3>3 DEF ReplyOK
  <2> QED BY <1>1, <1>2, <2>1, <2>2, <2>3, <2>4, ReplyFacts, ReplyOnly
<1> QED BY <1>3, <1>4

LEMMA PhoneStep ==
  ASSUME NEW r \in Replies, IInv, PhoneReply(r)
  PROVE  IInv'
<1>1. /\ UNCHANGED <<job, held, row, seen, byStaff, reply, compose, undone, counted, unnoted, named, reports>>
      /\ sent' = [sent EXCEPT ![r] = 1] /\ sent[r] = 0 /\ r \in Phone
  BY DEF PhoneReply
<1>2. sent'[r] = 1 /\ sent' = [sent EXCEPT ![r] = @ + 1] /\ \A q \in Replies : q # r => sent'[q] = sent[q]
  BY <1>1, ReplyFacts DEF IInv, RowsOK, Items
<1>3. Alone(r)
  BY <1>1, <1>2, ReplyFacts DEF Alone
<1>4. ReplyOK(r, compose'[r], reply'[r], sent'[r], r \in undone') /\ compose[r] \notin Composed
  <2>1. ReplyOK(r, compose[r], reply[r], sent[r], r \in undone) /\ r \notin Uploads
    BY <1>1, ReplyFacts, Given
  <2>2. compose[r] = "idle" /\ reply[r] \in Status \ {"PENDING"} /\ r \notin undone /\ "idle" \in Stage
    BY <1>1, <2>1 DEF ReplyOK, Composed
  <2> QED BY <1>1, <1>2, <2>2 DEF ReplyOK, Composed
<1>5. byStaff' \in BOOLEAN /\ JobsOK'
  BY <1>1, JobsSame DEF IInv, RowsOK
<1>6. reports'[r] # {} => reply'[r] # "none"
  BY <1>1, ReplyFacts
<1>7. sent'[r] > 0
  BY <1>2
<1> QED BY <1>1, <1>2, <1>3, <1>4, <1>5, <1>6, <1>7, ReplyOnly

LEMMA EchoSteps ==
  ASSUME NEW i \in Items, IInv, ReadEcho(i) \/ StoreEcho(i)
  PROVE  IInv'
<1>1. UNCHANGED <<job, held, row, seen, byStaff, compose, undone, sent, counted, unnoted, named, reports>>
  BY DEF ReadEcho, StoreEcho
<1>2. CASE UNCHANGED reply
  BY <1>1, <1>2, Unchanged
<1>3. CASE i \in Phone /\ reply' = [reply EXCEPT ![i] = "SENT"]
  <2>1. i \in Replies
    BY <1>3, Given
  <2>2. Alone(i) /\ reply'[i] = "SENT"
    BY <1>1, <1>3, <2>1, ReplyFacts DEF Alone
  <2>3. ReplyOK(i, compose[i], "SENT", sent[i], i \in undone) /\ compose[i] \notin Composed
    BY <1>3, <2>1, ReplyFacts, Given DEF ReplyOK, Status, Composed
  <2>4. byStaff' \in BOOLEAN /\ JobsOK'
    BY <1>1, JobsSame DEF IInv, RowsOK
  <2> QED BY <1>1, <2>1, <2>2, <2>3, <2>4, ReplyFacts, ReplyOnly
<1> QED BY <1>2, <1>3 DEF ReadEcho, StoreEcho

-----------------------------------------------------------------------------
(* Steps of the outbound worker.                                           *)

\* Runner k sends reply r, or is done with it; the other runners send others.
LEMMA SendsMove ==
  ASSUME NEW k \in Runners, NEW r \in Replies, RunnersOK, Sends, Only(k), Alone(r),
         held'[k].item = r \/ held'[k].pc \notin Sending, SendOK(held[k])',
         \A l \in Runners : l # k /\ held[l].pc \in Sending => held[l].item # r
  PROVE  Sends'
<1>1. \A l \in Runners : l # k /\ held'[l].pc \in Sending =>
         held'[l] = held[l] /\ held[l].item \in Replies \ {r} /\ SendOK(held[l])
  BY SendsItem DEF Only, Sends
<1>2. \A l \in Runners : SendOK(held[l])'
  <2> TAKE l \in Runners
  <2>1. CASE l # k /\ held'[l].pc \in Sending
    BY <1>1, <2>1 DEF SendOK, Alone
  <2>2. CASE held'[l].pc \notin Sending
    BY <2>2 DEF SendOK, Sending
  <2> QED BY <2>1, <2>2
<1>3. \A l, j \in Runners :
         held'[l].pc \in Sending /\ held'[j].pc \in Sending /\ held'[l].item = held'[j].item => l = j
  BY <1>1 DEF Sends
<1> QED BY <1>2, <1>3 DEF Sends

\* One runner and one reply change.
LEMMA SendStep ==
  ASSUME NEW k \in Runners, NEW r \in Replies, IInv, JobsOK', Only(k), Alone(r), HeldOK(held'[k]),
         held'[k].pc \notin Answering, UNCHANGED <<row, seen, byStaff, unnoted, counted>>,
         sent' = sent \/ sent' = [sent EXCEPT ![r] = @ + 1],
         held'[k].item = r \/ held'[k].pc \notin Sending, SendOK(held[k])',
         \A l \in Runners : l # k /\ held[l].pc \in Sending => held[l].item # r,
         ReplyOK(r, compose'[r], reply'[r], sent'[r], r \in undone'),
         r \in named' \/ reports'[r] # {} => sent'[r] > 0, reports'[r] # {} => reply'[r] # "none"
  PROVE  IInv'
<1>1. r \in Items /\ r \notin Messages /\ sent \in [Items -> Nat]
  BY ReplyFacts DEF IInv, RowsOK
<1>2. sent' \in [Items -> Nat] /\ \A m \in Messages : sent'[m] = sent[m]
  BY <1>1 DEF Items
<1>3. RowsOK' /\ Grow
  BY <1>2 DEF IInv, RowsOK, Grow
<1>4. RunnersOK'
  BY OthersOK DEF IInv
<1>5. Answers' /\ Metered'
  BY <1>2, <1>3, AnswersKept, MeteredKept DEF IInv, Answering
<1>6. Sends'
  BY SendsMove DEF IInv
<1>7. RepliesOK'
  BY ReplyStep DEF IInv
<1> QED BY <1>3, <1>4, <1>5, <1>6, <1>7 DEF IInv

LEMMA Claimed ==
  ASSUME NEW k \in Runners, IInv, held[k].pc \in OutPhase
  PROVE  /\ held[k].pc # "idle" /\ Item(k) \in Replies \ Uploads
         /\ held[k].pc \in Sending => \A l \in Runners : l # k /\ held[l].pc \in Sending => held[l].item # Item(k)
         /\ held[k].pc \in Sending =>
               /\ reply[Item(k)] \notin {"none", "gone", "PENDING"} /\ compose[Item(k)] \in Composed
               /\ held[k].pc = "deliver" => sent[Item(k)] = 0
<1>1. held[k].pc # "idle" /\ Item(k) \in Replies \ Uploads
  BY HasItem DEF IInv, OutPhase
<1>2. SendOK(held[k]) /\ \A l \in Runners :
         held[k].pc \in Sending /\ held[l].pc \in Sending /\ held[k].item = held[l].item => k = l
  BY DEF IInv, Sends
<1> QED BY <1>1, <1>2 DEF SendOK, Item

LEMMA ClaimStep ==
  ASSUME NEW k \in Runners, IInv, ClaimSend(k)
  PROVE  IInv'
<1>1. held[k].pc = "claim send"
  BY DEF ClaimSend, At
<1>2. held[k].pc # "idle" /\ Item(k) \in Replies \ Uploads
  BY <1>1, Claimed DEF OutPhase
<1>3. PICK r \in Replies \ Uploads : r = Item(k)
  BY <1>2
<1>4. UNCHANGED <<row, seen, byStaff, compose, undone, sent, counted, unnoted, named, reports>>
  BY DEF ClaimSend
<1>5. CASE reply[r] # "PENDING"
  <2>1. Finish(k) /\ reply' = reply
    BY <1>3, <1>5 DEF ClaimSend
  <2>2. JobsOK' /\ Only(k) /\ HeldOK(held'[k]) /\ held'[k].pc \notin Answering \cup Sending
    BY <1>2, <2>1, Finishes DEF IInv, Answering, Sending
  <2> QED BY <1>4, <2>1, <2>2, QuietOnly
<1>6. CASE reply[r] = "PENDING"
  <2>1. reply' = [reply EXCEPT ![r] = "SENT"] /\ Goto(k, "deliver") /\ UNCHANGED job
    BY <1>3, <1>6 DEF ClaimSend
  <2>2. "deliver" \in Phase /\ "deliver" \in OutPhase /\ "deliver" \notin InPhase /\ "deliver" \notin Answering
    BY DEF Phase, OutPhase, InPhase, Answering
  <2>3. Only(k) /\ HeldOK(held'[k]) /\ held'[k].pc = "deliver" /\ held'[k].item = r
    BY <1>2, <1>3, <2>1, <2>2, MovesOK DEF IInv
  <2>4. Alone(r) /\ reply'[r] = "SENT"
    BY <1>4, <2>1, ReplyFacts DEF Alone
  <2>5. compose[r] \in Composed /\ sent[r] = 0 /\ r \notin Phone /\ r \notin undone
    BY <1>6, ReplyFacts DEF ReplyOK
  <2>6. ReplyOK(r, compose[r], "SENT", sent[r], r \in undone)
    BY <2>5, ReplyFacts DEF ReplyOK, Status, Composed
  <2>7. SendOK(held[k])'
    BY <1>4, <2>3, <2>4, <2>5 DEF SendOK
  <2>8. \A l \in Runners : l # k /\ held[l].pc \in Sending => held[l].item # r
    BY <1>6 DEF IInv, Sends, SendOK
  <2>9. JobsOK'
    BY <2>1, JobsSame
  <2> QED BY <1>4, <2>2, <2>3, <2>4, <2>6, <2>7, <2>8, <2>9, ReplyFacts, SendStep
<1> QED BY <1>5, <1>6

LEMMA DeliverStep ==
  ASSUME NEW k \in Runners, IInv, Deliver(k)
  PROVE  IInv'
<1>1. held[k].pc = "deliver" /\ held[k].pc \in OutPhase /\ held[k].pc \in Sending
  BY DEF Deliver, At, OutPhase, Sending
<1>2. held[k].pc # "idle" /\ Item(k) \in Replies \ Uploads
  BY <1>1, Claimed
<1>3. PICK r \in Replies : r = Item(k) /\ r \notin Uploads
  BY <1>2
<1>4. UNCHANGED <<job, row, seen, byStaff, reply, compose, undone, counted, unnoted, named, reports>>
  BY DEF Deliver
<1>5. sent[r] = 0 /\ compose[r] \in Composed /\ reply[r] \notin {"none", "gone", "PENDING"} /\ r \in Replies
  BY <1>1, <1>3, Claimed
<1>6. \A l \in Runners : l # k /\ held[l].pc \in Sending => held[l].item # r
  BY <1>1, <1>3, Claimed
<1>7. sent' = sent \/ sent' = [sent EXCEPT ![r] = @ + 1]
  BY <1>3, ReplyFacts DEF Deliver, Calls, IInv, RowsOK
<1>8. PICK pc \in Sending \ {"deliver"} : Goto(k, pc)
  BY DEF Deliver, Sending
<1>9. pc \in Phase /\ pc \in OutPhase /\ pc \notin InPhase /\ pc \notin Answering /\ pc # "deliver"
  BY <1>8 DEF Phase, OutPhase, InPhase, Answering, Sending
<1>10. Only(k) /\ HeldOK(held'[k]) /\ held'[k].pc = pc /\ held'[k].item = r
  BY <1>2, <1>3, <1>8, <1>9, MovesOK DEF IInv
<1>11. sent'[r] \in 0 .. 1 /\ \A q \in Replies : q # r => sent'[q] = sent[q]
  <2>1. sent \in [Items -> Nat] /\ Replies \subseteq Items
    BY DEF IInv, RowsOK, Items
  <2>2. CASE sent' = sent
    BY <1>5, <2>2
  <2>3. CASE sent' = [sent EXCEPT ![r] = @ + 1]
    BY <1>5, <2>1, <2>3
  <2> QED BY <1>7, <2>2, <2>3
<1>12. Alone(r)
  BY <1>4, <1>11, ReplyFacts DEF Alone
<1>13. ReplyOK(r, compose[r], reply[r], sent'[r], r \in undone)
  <2>1. compose[r] \notin {"idle", "expiry", "take over", "row", "upload", "sent", "failed"} /\ sent'[r] <= 1
    <3>1. sent'[r] <= 1
      BY <1>11
    <3>2. compose[r] \notin {"idle", "expiry", "take over", "row", "upload", "sent", "failed"}
      BY <1>5 DEF Composed
    <3> QED BY <3>1, <3>2
  <2> QED BY <1>5, <2>1, ReplyFacts DEF ReplyOK
<1>14. SendOK(held[k])'
  BY <1>4, <1>5, <1>9, <1>10 DEF SendOK
<1>15. r \in named' \/ reports'[r] # {} => sent'[r] > 0
  <2>1. r \notin named /\ reports[r] = {}
    BY <1>5, ReplyFacts
  <2> QED BY <1>4, <2>1
<1>16. JobsOK' /\ (reports'[r] # {} => reply'[r] # "none")
  BY <1>4, JobsSame, ReplyFacts
<1> QED BY <1>4, <1>6, <1>7, <1>9, <1>10, <1>12, <1>13, <1>14, <1>15, <1>16, SendStep

LEMMA StatusStep ==
  ASSUME NEW k \in Runners, IInv, SetStatus(k)
  PROVE  IInv'
<1>1. held[k].pc \in OutPhase /\ held[k].pc \in Sending
  BY DEF SetStatus, OutPhase, Sending
<1>2. held[k].pc # "idle" /\ Item(k) \in Replies \ Uploads
  BY <1>1, Claimed
<1>3. PICK r \in Replies \ Uploads : r = Item(k)
  BY <1>2
<1>4. UNCHANGED <<row, seen, byStaff, compose, undone, sent, counted, unnoted, reports>>
  BY DEF SetStatus
<1>5. CASE Throws(k) /\ UNCHANGED <<reply, named>>
  <2>1. JobsOK' /\ Only(k) /\ HeldOK(held'[k]) /\ held'[k].pc \notin Answering \cup Sending
    BY <1>2, <1>5, Thrown DEF IInv, Answering, Sending
  <2> QED BY <1>4, <1>5, <2>1, QuietOnly
<1>6. CASE ~(Throws(k) /\ UNCHANGED <<reply, named>>)
  <2>1. PICK status \in {"SENT", "FAILED"} : reply' = [reply EXCEPT ![r] = status]
    BY <1>3, <1>6 DEF SetStatus
  <2>2. named' = (IF sent[r] > 0 THEN named \cup {r} ELSE named) /\ Goto(k, "done") /\ UNCHANGED job
    BY <1>3, <1>6 DEF SetStatus, Named
  <2>3. "done" \in Phase /\ "done" \notin OutPhase /\ "done" \notin InPhase /\ "done" \notin Answering \cup Sending
    BY DEF Phase, OutPhase, InPhase, Answering, Sending
  <2>4. Only(k) /\ HeldOK(held'[k]) /\ held'[k].pc = "done"
    BY <1>2, <2>2, <2>3, MovesOK DEF IInv
  <2>5. Alone(r) /\ reply'[r] = status
    BY <1>4, <2>1, <2>2, ReplyFacts DEF Alone
  <2>6. compose[r] \in Composed /\ reply[r] \notin {"none", "gone", "PENDING"}
    BY <1>1, <1>3, Claimed
  <2>7. ReplyOK(r, compose[r], status, sent[r], r \in undone)
    <3>1. compose[r] \notin {"idle", "expiry", "take over", "row", "upload", "sent", "failed"}
      BY <2>6 DEF Composed
    <3>2. status \in Status /\ status # "PENDING"
      BY <2>1 DEF Status
    <3> QED BY <2>6, <3>1, <3>2, ReplyFacts DEF ReplyOK
  <2>8. SendOK(held[k])'
    BY <2>4 DEF SendOK, Sending
  <2>9. \A l \in Runners : l # k /\ held[l].pc \in Sending => held[l].item # r
    BY <1>1, <1>3, Claimed
  <2>10. r \in named' \/ reports'[r] # {} => sent'[r] > 0
    BY <1>4, <2>2, ReplyFacts
  <2>11. JobsOK' /\ reply'[r] # "none"
    BY <2>1, <2>2, <2>5, JobsSame
  <2> QED BY <1>4, <2>3, <2>4, <2>5, <2>7, <2>8, <2>9, <2>10, <2>11, SendStep
<1> QED BY <1>5, <1>6

LEMMA OutboundSteps ==
  ASSUME NEW k \in Runners, IInv, Outbound(k)
  PROVE  IInv'
BY ClaimStep, DeliverStep, StatusStep, DoneStep DEF Outbound

-----------------------------------------------------------------------------
(* The theorems.                                                           *)

LEMMA InitOK == Init => IInv
<1> SUFFICES ASSUME Init PROVE IInv
  OBVIOUS
<1>1. JobsOK
  BY NoJobOK DEF Init, JobsOK
<1>2. HeldOK(Idle) /\ Idle.pc = "idle"
  BY DEF HeldOK, HeldRows, Idle, Phase, InPhase, OutPhase
<1>3. RunnersOK /\ \A k \in Runners : held[k].pc = "idle"
  BY <1>2 DEF Init, RunnersOK
<1>4. RowsOK
  BY DEF Init, RowsOK, Waits
<1>5. sent \in [Items -> Nat] /\ \A i \in Items : sent[i] = 0
  BY DEF Init
<1>6. Answers
  BY <1>3, <1>5 DEF Init, Answers, AnswerOK, Answering, AnsweredOnce, Items
<1>7. Metered
  BY DEF Init, Metered
<1>8. RepliesOK
  <2>1. \A r \in Replies : compose[r] = "idle" /\ reply[r] = "none" /\ sent[r] = 0 /\ r \notin undone
    BY <1>5 DEF Init, Items
  <2>2. \A r \in Replies : ReplyOK(r, compose[r], reply[r], sent[r], r \in undone)
    <3>1. \A r \in Replies : ReplyOK(r, "idle", "none", 0, FALSE)
      BY DEF ReplyOK, Stage, Status
    <3> QED BY <2>1, <3>1 DEF ReplyOK
  <2>3. \A r \in Replies : r \notin named /\ reports[r] = {}
    BY DEF Init
  <2> QED BY <2>2, <2>3 DEF Init, RepliesOK
<1>9. Sends
  BY <1>3 DEF Sends, SendOK, Sending
<1> QED BY <1>1, <1>3, <1>4, <1>6, <1>7, <1>8, <1>9 DEF IInv

LEMMA NextOK == IInv /\ [Next]_vars => IInv'
<1> SUFFICES ASSUME IInv, [Next]_vars PROVE IInv'
  OBVIOUS
<1>1. CASE UNCHANGED vars
  BY <1>1, Unchanged DEF vars
<1>2. CASE \E m \in Messages : DeliverWhatsApp(m) \/ DeliverFails(m) \/ DeliverInstagram(m) \/ Intake(m) \/ IntakeFails(m)
  BY <1>2, WebhookSteps
<1>3. CASE \E k \in Runners, i \in Items : Take(k, i)
  BY <1>3, TakeStep
<1>4. CASE (\E k \in Workers : Inbound(k)) \/ (\E k \in Senders : Outbound(k)) \/ (\E k \in Runners : Breaks(k))
  BY <1>4, InboundSteps, OutboundSteps, BreaksStep DEF Runners
<1>5. ASSUME NEW r \in Replies,
             \/ CountReply(r) \/ TakeOverUpload(r) \/ Composing(r) \/ ScheduleFails(r) \/ UndoRead(r) \/ Undoing(r)
             \/ PhoneReply(r)
             \/ \E status \in {"DELIVERED", "READ", "FAILED"} : ReadStatus(r, status) \/ WriteStatus(r, status)
      PROVE  IInv'
  <2>1. CASE CountReply(r) \/ TakeOverUpload(r) \/ ScheduleFails(r)
    BY <2>1, ComposeSteps
  <2>2. CASE Composing(r)
    BY <2>2, ComposeSteps, CreateStep, SendNowStep, RecordStep DEF Composing
  <2>3. CASE UndoRead(r) \/ Undoing(r) \/ PhoneReply(r)
    BY <2>3, UndoSteps, PhoneStep
  <2>4. CASE \E status \in {"DELIVERED", "READ", "FAILED"} : ReadStatus(r, status) \/ WriteStatus(r, status)
    BY <2>4, ReportSteps
  <2> QED BY <1>5, <2>1, <2>2, <2>3, <2>4
<1>6. CASE EnableBot \/ MinuteOver \/ MarkMessagesRead \/ Crash
  <2>1. CASE MinuteOver
    BY <2>1, Unchanged DEF MinuteOver
  <2> QED BY <1>6, <2>1, EnableStep, ReadMarkStep, CrashStep
<1>7. ASSUME NEW i \in Items,
             Stall(i) \/ Forget(i) \/ ReadEcho(i) \/ StoreEcho(i) \/ ReadDeleted(i) \/ WriteDeleted(i)
      PROVE  IInv'
  <2>1. CASE ReadDeleted(i)
    BY <2>1, Unchanged DEF ReadDeleted
  <2> QED BY <1>7, <2>1, StallStep, ForgetStep, EchoSteps, RowSteps
<1>8. ASSUME NEW c \in Chunks, ReceiveChunk(c) \/ GuardChunk(c) \/ SyncStatus(c) \/ ImportMessage(c) \/ ChunkFails(c)
      PROVE  IInv'
  <2>1. CASE ReceiveChunk(c) \/ GuardChunk(c) \/ SyncStatus(c) \/ ChunkFails(c)
    BY <2>1, Unchanged DEF ReceiveChunk, GuardChunk, SyncStatus, ChunkFails
  <2> QED BY <1>8, <2>1, RowSteps
<1>9. ASSUME NEW m \in Messages, FindImported(m) \/ FetchImported(m)
      PROVE  IInv'
  <2>1. CASE FindImported(m)
    BY <2>1, Unchanged DEF FindImported
  <2> QED BY <1>9, <2>1, RowSteps
<1> QED BY <1>1, <1>2, <1>3, <1>4, <1>5, <1>6, <1>7, <1>8, <1>9 DEF Next

\* Whatever comes up, fails and comes back, the invariant holds.
THEOREM Held == Spec => []IInv
<1>1. Init => IInv
  BY InitOK
<1>2. IInv /\ [Next]_vars => IInv'
  BY NextOK
<1> QED BY <1>1, <1>2, PTL DEF Spec

\* The variables have their types, a running job has its runner and attempts
\* left, and a conversation window is metered once (message.service.ts:161-188).
THEOREM Typed == Spec => []TypeOK
<1>1. IInv => TypeOK
  <2> SUFFICES ASSUME IInv PROVE TypeOK
    OBVIOUS
  <2>1. \A i \in Items : job[i].state \in JobState /\ job[i].made \in 0 .. MaxAttempts
    BY DEF IInv, JobsOK, JobOK, JobRows
  <2>2. \A i \in Items : job[i].state = "waiting" => job[i].made < MaxAttempts
    BY DEF IInv, JobsOK, JobOK
  <2>3. \A i \in Items : job[i].state = "active" => job[i].holder \in Runners
    BY DEF IInv, JobsOK, JobOK
  <2>4. \A r \in Replies : reply[r] \in {"none", "gone"} \cup DOMAIN STATUS_RANK
    <3>1. Status = {"none", "gone"} \cup DOMAIN STATUS_RANK
      BY DEF Status, STATUS_RANK
    <3> QED BY <3>1 DEF IInv, RepliesOK, ReplyOK
  <2>5. \A m \in Messages : row[m] \in {"none", "stored", "blank"} \cup (IF m \in Media THEN {"pending"} ELSE {})
    BY DEF IInv, RowsOK, Waits
  <2>6. (\A m \in seen : row[m] # "none") /\ undone \subseteq Replies /\ counted \in 0 .. 1
    BY DEF IInv, RowsOK, RepliesOK, Metered
  <2> QED BY <2>1, <2>2, <2>3, <2>4, <2>5, <2>6 DEF TypeOK
<1> QED BY <1>1, Held, PTL

\* The bot answers a message at most once, through retries, stalls, crashes
\* and imports; twice only when a rich answer was sent and then failed to be
\* noted (message.service.ts:123, outbound.service.ts:82-113).
THEOREM BotAnswersOnce == Spec => []AnsweredOnce
<1>1. IInv => AnsweredOnce
  BY DEF IInv, Answers
<1> QED BY <1>1, Held, PTL

\* A staff reply reaches the guest at most once, and a text never after an undo
\* answered with success (message.service.ts, executeDelayedSend and undoSend).
THEOREM UndoIsKept == Spec => []UndoneMeansUnsent
<1>1. IInv => UndoneMeansUnsent
  <2> SUFFICES ASSUME IInv, NEW r \in Replies
               PROVE  sent[r] <= IF r \in undone \ Uploads THEN 0 ELSE 1
    BY DEF UndoneMeansUnsent
  <2>1. ReplyOK(r, compose[r], reply[r], sent[r], r \in undone)
    BY ReplyFacts
  <2>2. sent[r] <= 1
    BY <2>1 DEF ReplyOK
  <2>3. r \in undone \ Uploads => sent[r] = 0
    BY <2>1 DEF ReplyOK
  <2>4. CASE r \in undone \ Uploads
    BY <2>3, <2>4
  <2>5. CASE r \notin undone \ Uploads
    BY <2>2, <2>5
  <2> QED BY <2>4, <2>5
<1> QED BY <1>1, Held, PTL

-----------------------------------------------------------------------------
(* Nothing acknowledged is forgotten                                       *)

\* A message is in hand: its webhook is being recorded, its job waits, or a
\* runner is at it.
InHand(m) ==
    \/ m \in intake \/ job[m].state = "waiting"
    \/ job[m].state = "active" /\ held[job[m].holder].item = m /\ held[job[m].holder].pc # "idle"

\* Its job is over, or there is none, and a letter or the log tells of the loss.
GivenUp(m) == job[m].state \in {"none", "dead"} /\ m \in letters \cup unrecorded

\* What the provider read a 200 for is stored, in hand or given up: the safety
\* half of AckedIsStored (whatsapp.controller.ts, instagram.controller.ts and
\* the handlers of the two inbound workers).
NothingForgotten == \A m \in Messages \cap acked : row[m] # "none" \/ InHand(m) \/ GivenUp(m)

\* A delayed reply whose job finished is not PENDING any more: the safety half
\* of ScheduledIsSettled (message.service.ts, executeDelayedSend).
FinishedIsSettled == \A r \in Replies : job[r].state = "finished" => reply[r] # "PENDING"

Kept(m) == row[m] # "none" \/ m \in letters \cup unrecorded

\* What is owed to item i when its job says so ...
JobOwed(i) ==
    /\ job[i].state = "active" => held[job[i].holder].item = i /\ held[job[i].holder].pc # "idle"
    /\ i \in Messages /\ job[i].state = "finished" => row[i] # "none"
    /\ i \in Messages /\ job[i].state = "dead" => i \in letters \cup unrecorded
    /\ i \in Messages \cap Instagram /\ job[i].state # "none" => event[i] # "none"
    /\ i \in Replies /\ job[i].state # "none" => compose[i] = "over"
    /\ i \in Replies /\ job[i].state = "finished" => reply[i] # "PENDING"

\* ... and when a runner has come so far with it: past the insert, or past the
\* claim of a reply.
Past == {"meter", "notify", "bot", "save", "send", "record", "download", "fetch", "mark", "done"}
RunOwed(h) ==
    /\ h.pc \in Past /\ h.item \in Messages => row[h.item] # "none"
    /\ h.pc = "claim" => event[h.item] # "none"
    /\ h.pc # "idle" /\ h.item \in Replies => compose[h.item] = "over"
    /\ h.pc = "done" /\ h.item \in Replies => reply[h.item] # "PENDING"

Booked == \A m \in Messages : m \in acked /\ job[m].state = "none" => Kept(m) \/ m \in intake
Marked ==
    /\ event \in [Messages -> {"none", "open", "processed"}]
    /\ \A m \in Messages : event[m] = "processed" => row[m] # "none"

Owed == (\A i \in Items : JobOwed(i)) /\ (\A k \in Runners : RunOwed(held[k])) /\ Booked /\ Marked

\* No step takes back a row, a letter, an event or the outcome of a reply.
Onward ==
    /\ Grow /\ letters \subseteq letters' /\ unrecorded \subseteq unrecorded'
    /\ \A m \in Messages : event[m] # "none" => event'[m] # "none"
    /\ \A r \in Replies : compose[r] = "over" =>
          compose'[r] = "over" /\ (reply[r] # "PENDING" => reply'[r] # "PENDING")

\* A runner at an item is past its intake.
LEMMA RunStays ==
  ASSUME NEW k \in Runners, IInv, RunOwed(held[k]), Onward, held'[k] = held[k]
  PROVE  RunOwed(held[k])'
<1>1. held[k].pc = "claim" => held[k].item \in Messages
  BY DEF IInv, RunnersOK, HeldOK, InPhase
<1> QED BY <1>1 DEF RunOwed, Onward, Grow

LEMMA JobStays ==
  ASSUME NEW i \in Items, JobOwed(i), Onward, job'[i] = job[i],
         job[i].state = "active" =>
            held'[job[i].holder].item = held[job[i].holder].item /\ held'[job[i].holder].pc # "idle"
  PROVE  JobOwed(i)'
BY DEF JobOwed, Onward, Grow

LEMMA BookedStays ==
  ASSUME Owed, Onward, UNCHANGED <<acked, intake>>,
         \A m \in Messages : job'[m].state = "none" => job[m].state = "none"
  PROVE  Booked'
BY DEF Owed, Booked, Kept, Onward, Grow

LEMMA MarkedStays ==
  ASSUME Owed, Onward, UNCHANGED event
  PROVE  Marked'
BY DEF Owed, Marked, Onward, Grow

\* Neither a job nor a runner moves.
LEMMA OwedStill ==
  ASSUME IInv, Owed, Onward, UNCHANGED <<job, held>>, Booked', Marked'
  PROVE  Owed'
<1>1. \A i \in Items : JobOwed(i)'
  <2> TAKE i \in Items
  <2>1. JobOwed(i)
    BY DEF Owed
  <2> QED BY <2>1, JobStays DEF JobOwed
<1>2. \A k \in Runners : RunOwed(held[k])'
  BY RunStays DEF Owed
<1> QED BY <1>1, <1>2 DEF Owed

\* One job changes, and no runner moves.
LEMMA OwedJob ==
  ASSUME NEW i \in Items, IInv, Owed, Onward, UNCHANGED held,
         \A n \in Items : n # i => job'[n] = job[n], JobOwed(i)', Booked', Marked'
  PROVE  Owed'
<1>1. \A n \in Items : JobOwed(n)'
  <2> TAKE n \in Items
  <2>1. CASE n # i
    <3>1. JobOwed(n) /\ job'[n] = job[n]
      BY <2>1 DEF Owed
    <3> QED BY <3>1, JobStays DEF JobOwed
  <2> QED BY <2>1
<1>2. \A k \in Runners : RunOwed(held[k])'
  BY RunStays DEF Owed
<1> QED BY <1>1, <1>2 DEF Owed

\* One runner goes on with its item.
LEMMA OwedGoes ==
  ASSUME NEW k \in Runners, IInv, Owed, Onward, Only(k), UNCHANGED job,
         held'[k].item = held[k].item, held'[k].pc # "idle", RunOwed(held[k])', Booked', Marked'
  PROVE  Owed'
<1>1. \A i \in Items : JobOwed(i)'
  <2> TAKE i \in Items
  <2>1. JobOwed(i) /\ (job[i].state = "active" => job[i].holder \in Runners)
    BY DEF Owed, IInv, JobsOK, JobOK
  <2>2. job[i].state = "active" =>
           held'[job[i].holder].item = held[job[i].holder].item /\ held'[job[i].holder].pc # "idle"
    BY <2>1 DEF Only, JobOwed
  <2> QED BY <2>1, <2>2, JobStays
<1>2. \A l \in Runners : RunOwed(held[l])'
  <2> TAKE l \in Runners
  <2>1. CASE l # k
    <3>1. RunOwed(held[l]) /\ held'[l] = held[l]
      BY <2>1 DEF Owed, Only
    <3> QED BY <3>1, RunStays
  <2> QED BY <2>1
<1> QED BY <1>1, <1>2 DEF Owed

\* One runner is done with its item, and the job is settled if it is still its own.
LEMMA OwedEnds ==
  ASSUME NEW k \in Runners, NEW n \in Items, IInv, Owed, Onward, Only(k), n = Item(k),
         held'[k].pc = "idle", UNCHANGED <<acked, intake, event>>,
         \A i \in Items : i # n \/ ~Mine(k) => job'[i] = job[i],
         Mine(k) => JobOwed(n)' /\ job'[n].state # "none"
  PROVE  Owed'
<1>1. \A i \in Items : JobOwed(i)'
  <2> TAKE i \in Items
  <2>1. CASE i = n /\ Mine(k)
    BY <2>1
  <2>2. CASE ~(i = n /\ Mine(k))
    <3>1. JobOwed(i) /\ (job[i].state = "active" => job[i].holder \in Runners) /\ job'[i] = job[i]
      BY <2>2 DEF Owed, IInv, JobsOK, JobOK
    <3>2. job[i].state = "active" => job[i].holder # k
      BY <2>2, <3>1 DEF JobOwed, Mine, Item
    <3>3. job[i].state = "active" => held'[job[i].holder] = held[job[i].holder]
      BY <3>1, <3>2 DEF Only
    <3> QED BY <3>1, <3>3, JobStays DEF JobOwed
  <2> QED BY <2>1, <2>2
<1>2. \A l \in Runners : RunOwed(held[l])'
  <2> TAKE l \in Runners
  <2>1. CASE l # k
    <3>1. RunOwed(held[l]) /\ held'[l] = held[l]
      BY <2>1 DEF Owed, Only
    <3> QED BY <3>1, RunStays
  <2>2. CASE l = k
    BY <2>2 DEF RunOwed, Past
  <2> QED BY <2>1, <2>2
<1>3. Booked'
  <2>1. \A m \in Messages : m \in Items
    BY DEF Items
  <2>2. \A m \in Messages : job'[m].state = "none" => job[m].state = "none"
    BY <2>1
  <2> QED BY <2>2, BookedStays
<1>4. Marked'
  BY MarkedStays
<1> QED BY <1>1, <1>2, <1>3, <1>4 DEF Owed

LEMMA OwedFinish ==
  ASSUME NEW k \in Runners, IInv, Owed, Onward, Finish(k), held[k].pc # "idle", UNCHANGED <<acked, intake, event>>,
         Item(k) \in Messages => row[Item(k)] # "none",
         Item(k) \in Replies => reply[Item(k)] # "PENDING"
  PROVE  Owed'
<1>1. PICK n \in Items : n = Item(k)
  BY HasItem DEF IInv
<1>2. Only(k) /\ held'[k].pc = "idle"
  BY Finishes DEF IInv
<1>3. \A i \in Items : i # n \/ ~Mine(k) => job'[i] = job[i]
  BY <1>1 DEF Finish
<1>4. Mine(k) => JobOwed(n)' /\ job'[n].state # "none"
  <2> SUFFICES ASSUME Mine(k) PROVE JobOwed(n)' /\ job'[n].state # "none"
    OBVIOUS
  <2>1. job[n].state = "active" /\ JobOwed(n) /\ job[n] \in JobRows
    BY <1>1 DEF Mine, Owed, IInv, JobsOK, JobOK
  <2>2. job'[n].state = "finished"
    BY <1>1, <2>1 DEF Finish, IInv, JobsOK, JobRows
  <2>3. (n \in Messages => row'[n] # "none") /\ (n \in Replies => compose[n] = "over" /\ reply[n] # "PENDING")
    BY <1>1, <2>1 DEF JobOwed, Onward, Grow
  <2>4. n \in Messages \cap Instagram => event'[n] # "none"
    BY <2>1 DEF JobOwed, Onward
  <2>5. n \in Replies => compose'[n] = "over" /\ reply'[n] # "PENDING"
    BY <2>3 DEF Onward
  <2> QED BY <2>2, <2>3, <2>4, <2>5 DEF JobOwed
<1> QED BY <1>1, <1>2, <1>3, <1>4, OwedEnds

\* A thrown attempt is retried, or leaves a letter or a line in the log.
LEMMA OwedThrow ==
  ASSUME NEW k \in Runners, IInv, Owed, Onward, Throws(k), held[k].pc # "idle", UNCHANGED <<acked, intake, event>>
  PROVE  Owed'
<1>1. PICK n \in Items : n = Item(k)
  BY HasItem DEF IInv
<1>2. Only(k) /\ held'[k].pc = "idle"
  BY Thrown DEF IInv
<1>3. \A i \in Items : i # n \/ ~Mine(k) => job'[i] = job[i]
  <2>1. ~Mine(k) => job' = job
    BY DEF Throws
  <2>2. Mine(k) => job' = [job EXCEPT ![n] = Retried(job[n])]
    BY <1>1 DEF Throws
  <2>3. DOMAIN job = Items
    BY DEF IInv, JobsOK
  <2> QED BY <2>1, <2>2, <2>3
<1>4. Mine(k) => JobOwed(n)' /\ job'[n].state # "none"
  <2> SUFFICES ASSUME Mine(k) PROVE JobOwed(n)' /\ job'[n].state # "none"
    OBVIOUS
  <2>1. job[n].state = "active" /\ JobOwed(n) /\ job[n] \in JobRows
    BY <1>1 DEF Mine, Owed, IInv, JobsOK, JobOK
  <2>2. job'[n] = Retried(job[n])
    BY <1>1 DEF Throws, IInv, JobsOK
  <2>3. job'[n].state \in {"waiting", "dead"}
    BY <2>1, <2>2 DEF Retried, JobRows
  <2>4. job'[n].state = "dead" => n \in letters' \cup unrecorded'
    BY <1>1 DEF Throws
  <2>5. n \in Messages \cap Instagram => event'[n] # "none"
    BY <2>1 DEF JobOwed, Onward
  <2>6. n \in Replies => compose'[n] = "over"
    BY <2>1 DEF JobOwed, Onward
  <2> QED BY <2>3, <2>4, <2>5, <2>6 DEF JobOwed
<1> QED BY <1>1, <1>2, <1>3, <1>4, OwedEnds

\* What a step onward may leave alone.
LEMMA OnwardStill ==
  ASSUME Grow, letters \subseteq letters', unrecorded \subseteq unrecorded', UNCHANGED <<event, reply, compose>>
  PROVE  Onward
BY DEF Onward

LEMMA ThrowsOnward ==
  ASSUME NEW k, Throws(k)
  PROVE  letters \subseteq letters' /\ unrecorded \subseteq unrecorded'
BY DEF Throws

-----------------------------------------------------------------------------
(* The webhooks and the queues owe what they did                           *)

LEMMA WebhookOwes ==
  ASSUME NEW m \in Messages, IInv, Owed,
         DeliverWhatsApp(m) \/ DeliverFails(m) \/ DeliverInstagram(m) \/ Intake(m) \/ IntakeFails(m)
  PROVE  Owed'
<1>0. m \in Items /\ m \notin Replies
  BY Given DEF Items
<1>1. Grow /\ UNCHANGED <<row, reply, compose, held>>
  BY DEF DeliverWhatsApp, DeliverFails, DeliverInstagram, Intake, RecordEvent, EnqueueEvent, IntakeFails, Grow
<1>2. letters \subseteq letters' /\ unrecorded \subseteq unrecorded'
  BY DEF DeliverWhatsApp, DeliverFails, DeliverInstagram, Intake, RecordEvent, EnqueueEvent, IntakeFails
<1>3. ASSUME DeliverWhatsApp(m) \/ EnqueueEvent(m) PROVE Owed'
  <2>1. Enqueue(m) /\ UNCHANGED event /\ (m \in Instagram => event[m] # "none")
    BY <1>3 DEF DeliverWhatsApp, EnqueueEvent
  <2>2. Onward
    BY <1>1, <1>2, <2>1, OnwardStill
  <2>3. job[m] \in JobRows /\ JobOwed(m)
    BY <1>0 DEF IInv, JobsOK, JobOK, Owed
  <2>4. \A n \in Items : n # m => job'[n] = job[n]
    BY <2>1 DEF Enqueue
  <2>5. (job'[m] = job[m] /\ job[m].state # "none") \/ job'[m].state = "waiting"
    BY <1>0, <2>1, <2>3 DEF Enqueue, IInv, JobsOK, NoJob
  <2>6. JobOwed(m)'
    <3>1. CASE job'[m] = job[m] /\ job[m].state # "none"
      BY <1>0, <1>1, <2>2, <2>3, <3>1, JobStays DEF JobOwed
    <3>2. CASE job'[m].state = "waiting"
      BY <1>0, <2>1, <3>2 DEF JobOwed
    <3> QED BY <2>5, <3>1, <3>2
  <2>7. Booked'
    <3>1. job'[m].state # "none"
      BY <2>5
    <3>2. \A n \in Messages : n # m => job'[n] = job[n] /\ (n \in acked' => n \in acked) /\ (n \in intake => n \in intake')
      BY <1>3, <2>4 DEF Items, DeliverWhatsApp, EnqueueEvent
    <3> QED BY <2>2, <3>1, <3>2 DEF Owed, Booked, Kept, Onward, Grow
  <2>8. Marked'
    BY <2>1, <2>2, MarkedStays
  <2> QED BY <1>0, <1>1, <2>2, <2>4, <2>6, <2>7, <2>8, OwedJob
<1>4. ASSUME DeliverFails(m) \/ DeliverInstagram(m) \/ RecordEvent(m) \/ IntakeFails(m) PROVE Owed'
  <2>1. UNCHANGED job
    BY <1>4 DEF DeliverFails, DeliverInstagram, RecordEvent, IntakeFails
  <2>2. \/ UNCHANGED event
        \/ event[m] = "none" /\ event' = [event EXCEPT ![m] = "open"]
    BY <1>4 DEF DeliverFails, DeliverInstagram, RecordEvent, IntakeFails
  <2>0. event \in [Messages -> {"none", "open", "processed"}]
    BY DEF Owed, Marked
  <2>9. /\ event' \in [Messages -> {"none", "open", "processed"}]
        /\ \A n \in Messages : event'[n] = event[n] \/ (event[n] = "none" /\ event'[n] = "open")
    <3>1. CASE UNCHANGED event
      BY <2>0, <3>1
    <3>2. CASE event[m] = "none" /\ event' = [event EXCEPT ![m] = "open"]
      BY <2>0, <3>2
    <3> QED BY <2>2, <3>1, <3>2
  <2>3. Onward
    BY <1>1, <1>2, <2>9 DEF Onward
  <2>4. Booked'
    <3>1. \A n \in Messages : n \in acked' => n \in acked \/ n \in intake'
      BY <1>4 DEF DeliverFails, DeliverInstagram, RecordEvent, IntakeFails
    <3>2. \A n \in Messages : n \in intake => n \in intake' \cup unrecorded'
      BY <1>4 DEF DeliverFails, DeliverInstagram, RecordEvent, IntakeFails
    <3> QED BY <2>1, <2>3, <3>1, <3>2 DEF Owed, Booked, Kept, Onward, Grow
  <2>5. Marked'
    BY <2>3, <2>9 DEF Owed, Marked, Onward, Grow
  <2> QED BY <1>1, <2>1, <2>3, <2>4, <2>5, OwedStill
<1> QED BY <1>3, <1>4 DEF Intake

\* A job that failed by stalling leaves a letter or a line in the log.
LEMMA GaveUpTells ==
  ASSUME NEW items, NEW logged, GaveUp(items, logged)
  PROVE  /\ letters \subseteq letters' /\ unrecorded \subseteq unrecorded'
         /\ logged \subseteq unrecorded' /\ items \subseteq letters' \cup unrecorded'
BY DEF GaveUp

LEMMA StallOwes ==
  ASSUME NEW i \in Items, IInv, Owed, Stall(i)
  PROVE  Owed'
<1>1. job[i] \in JobRows /\ job[i].state = "active" /\ JobOwed(i) /\ DOMAIN job = Items
  BY DEF Stall, IInv, JobsOK, JobOK, Owed
<1>2. job' = [job EXCEPT ![i] = Stalled(job[i])]
  BY DEF Stall
<1>3. job'[i] = Stalled(job[i]) /\ \A n \in Items : n # i => job'[n] = job[n]
  BY <1>1, <1>2
<1>4. job'[i].state \in {"waiting", "dead"}
  BY <1>1, <1>3 DEF Stalled, JobRows
<1>5. /\ letters \subseteq letters' /\ unrecorded \subseteq unrecorded'
      /\ job'[i].state = "dead" => i \in letters' \cup unrecorded'
  <2>1. PICK gone : gone = {n \in {i} : job'[n].state = "dead"}
    OBVIOUS
  <2>2. GaveUp(gone, {})
    BY <2>1 DEF Stall
  <2> QED BY <2>1, <2>2, GaveUpTells
<1>6. Onward
  BY <1>5, OnwardStill DEF Stall, Grow
<1>7. JobOwed(i)'
  BY <1>1, <1>4, <1>5, <1>6 DEF JobOwed, Onward
<1>8. Booked'
  <2>1. \A m \in Messages : job'[m].state = "none" => job[m].state = "none"
    BY <1>3, <1>4 DEF Items
  <2> QED BY <1>6, <2>1, BookedStays DEF Stall
<1>9. Marked'
  BY <1>6, MarkedStays DEF Stall
<1> QED BY <1>3, <1>6, <1>7, <1>8, <1>9, OwedJob DEF Stall

LEMMA ForgetOwes ==
  ASSUME NEW i \in Items, IInv, Owed, Forget(i)
  PROVE  Owed'
<1>1. DOMAIN job = Items /\ JobOwed(i)
  BY DEF IInv, JobsOK, Owed
<1>2. job'[i] = NoJob /\ \A n \in Items : n # i => job'[n] = job[n]
  BY <1>1 DEF Forget
<1>3. Onward
  BY OnwardStill DEF Forget, Grow
<1>4. JobOwed(i)'
  BY <1>2 DEF JobOwed, NoJob
<1>5. Booked'
  <2>1. i \in Messages => Kept(i)
    BY <1>1 DEF Forget, JobOwed, Kept
  <2> QED BY <1>2, <1>3, <2>1 DEF Owed, Booked, Kept, Items, Forget
<1>6. Marked'
  BY <1>3, MarkedStays DEF Forget
<1> QED BY <1>2, <1>3, <1>4, <1>5, <1>6, OwedJob DEF Forget

LEMMA TakeOwes ==
  ASSUME NEW k \in Runners, NEW i \in Items, IInv, Owed, Take(k, i)
  PROVE  Owed'
<1> DEFINE doing == [Idle EXCEPT !.item = i,
                       !.pc = IF i \in Replies THEN "claim send" ELSE IF i \in Instagram THEN "claim" ELSE "lookup"]
<1>1. job[i] \in JobRows /\ job[i].state = "waiting" /\ JobOwed(i) /\ DOMAIN job = Items /\ DOMAIN held = Runners
  BY DEF Take, IInv, JobsOK, JobOK, RunnersOK, Owed
<1>2. held[k].pc = "idle"
  BY DEF Take, Free, At
<1>3. job'[i].state = "active" /\ job'[i].holder = k /\ \A n \in Items : n # i => job'[n] = job[n]
  BY <1>1 DEF Take, JobRows
<1>4. doing.item = i /\ doing.pc = IF i \in Replies THEN "claim send" ELSE IF i \in Instagram THEN "claim" ELSE "lookup"
  BY DEF Idle
<1>5. held'[k] = doing /\ \A l \in Runners : l # k => held'[l] = held[l]
  <2>1. held' = [held EXCEPT ![k] = doing]
    BY DEF Take
  <2> HIDE DEF doing
  <2> QED BY <1>1, <2>1
<1> HIDE DEF doing
<1>6. Onward
  BY OnwardStill DEF Take, Grow
<1>7. RunOwed(held[k])'
  <2>1. held'[k].item = i /\ held'[k].pc \in {"claim send", "claim", "lookup"} /\ (held'[k].pc = "claim" => i \in Messages \cap Instagram)
    BY <1>4, <1>5 DEF Items
  <2>2. (i \in Messages \cap Instagram => event'[i] # "none") /\ (i \in Replies => compose'[i] = "over")
    BY <1>1, <1>6 DEF JobOwed, Onward
  <2> QED BY <2>1, <2>2 DEF RunOwed, Past
<1>8. JobOwed(i)'
  <2>1. held'[k].item = i /\ held'[k].pc # "idle"
    BY <1>4, <1>5
  <2>2. (i \in Messages \cap Instagram => event'[i] # "none") /\ (i \in Replies => compose'[i] = "over")
    BY <1>1, <1>6 DEF JobOwed, Onward
  <2> QED BY <1>3, <2>1, <2>2 DEF JobOwed
<1>9. \A n \in Items : JobOwed(n)'
  <2> TAKE n \in Items
  <2>1. CASE n # i
    <3>1. JobOwed(n) /\ job'[n] = job[n] /\ (job[n].state = "active" => job[n].holder \in Runners)
      BY <1>3, <2>1 DEF Owed, IInv, JobsOK, JobOK
    <3>2. job[n].state = "active" => held'[job[n].holder] = held[job[n].holder]
      BY <1>2, <1>5, <3>1 DEF JobOwed
    <3> QED BY <1>6, <3>1, <3>2, JobStays DEF JobOwed
  <2>2. CASE n = i
    BY <1>8, <2>2
  <2> QED BY <2>1, <2>2
<1>10. \A l \in Runners : RunOwed(held[l])'
  <2> TAKE l \in Runners
  <2>1. CASE l # k
    BY <1>5, <1>6, <2>1, RunStays DEF Owed
  <2>2. CASE l = k
    BY <1>7, <2>2
  <2> QED BY <2>1, <2>2
<1>11. Booked'
  <2>1. \A m \in Messages : job'[m].state = "none" => job[m].state = "none"
    BY <1>3 DEF Items
  <2> QED BY <1>6, <2>1, BookedStays DEF Take
<1>12. Marked'
  BY <1>6, MarkedStays DEF Take
<1> QED BY <1>9, <1>10, <1>11, <1>12 DEF Owed

LEMMA CrashOwes ==
  ASSUME IInv, Owed, Crash
  PROVE  Owed'
<1>1. \A i \in Items : job'[i] = Stalled(job[i]) /\ JobOwed(i) /\ job[i] \in JobRows
  BY DEF Crash, Owed, IInv, JobsOK, JobOK
<1>2. \A i \in Items : \/ job'[i].state = job[i].state /\ job[i].state # "active"
                       \/ job[i].state = "active" /\ job'[i].state \in {"waiting", "dead"}
  <2> TAKE i \in Items
  <2>3. PICK j \in JobRows : j = job[i]
    BY <1>1
  <2>4. PICK n : n = Stalled(j)
    OBVIOUS
  <2>5. (n.state = j.state /\ j.state # "active") \/ (j.state = "active" /\ n.state \in {"waiting", "dead"})
    BY <2>4 DEF Stalled, JobRows
  <2>6. job'[i] = n
    BY <1>1, <2>3, <2>4
  <2>1. CASE job[i].state # "active"
    BY <2>1, <2>3, <2>5, <2>6
  <2>2. CASE job[i].state = "active"
    BY <2>2, <2>3, <2>5, <2>6
  <2> QED BY <2>1, <2>2
<1>3. /\ letters \subseteq letters' /\ unrecorded \cup intake \subseteq unrecorded'
      /\ \A i \in Items :
           job[i].state = "active" /\ job'[i].state = "dead" => i \in letters' \cup unrecorded'
  <2>1. PICK gone : gone = {i \in Items : job[i].state = "active" /\ job'[i].state = "dead"}
    OBVIOUS
  <2>2. PICK logged : logged = intake
    OBVIOUS
  <2>3. GaveUp(gone, logged)
    BY <2>1, <2>2 DEF Crash
  <2> QED BY <2>1, <2>2, <2>3, GaveUpTells
<1>4. UNCHANGED <<row, event, reply, acked>>
  BY DEF Crash
<1>5. \A r \in Replies : compose[r] = "over" => compose'[r] = "over"
  BY DEF Crash
<1>6. Onward
  BY <1>3, <1>4, <1>5 DEF Onward, Grow
<1>7. \A i \in Items : JobOwed(i)'
  <2> TAKE i \in Items
  <2>1. job'[i].state # "active" /\ (job'[i].state # "none" => job[i].state # "none") /\ (job'[i].state = "finished" => job[i].state = "finished")
    BY <1>2
  <2>2. job'[i].state = "dead" => job[i].state = "dead" \/ i \in letters' \cup unrecorded'
    BY <1>2, <1>3
  <2>3. JobOwed(i)
    BY <1>1
  <2>4. i \in Messages => (job'[i].state = "finished" => row'[i] # "none") /\ (job'[i].state = "dead" => i \in letters' \cup unrecorded')
    BY <1>6, <2>1, <2>2, <2>3 DEF JobOwed, Onward, Grow
  <2>5. i \in Messages \cap Instagram /\ job'[i].state # "none" => event'[i] # "none"
    BY <1>6, <2>1, <2>3 DEF JobOwed, Onward
  <2>6. i \in Replies => (job'[i].state # "none" => compose'[i] = "over") /\ (job'[i].state = "finished" => reply'[i] # "PENDING")
    BY <1>6, <2>1, <2>3 DEF JobOwed, Onward
  <2> QED BY <2>1, <2>4, <2>5, <2>6 DEF JobOwed
<1>8. \A k \in Runners : RunOwed(held[k])'
  <2>1. \A k \in Runners : held'[k].pc = "idle"
    BY DEF Crash, Idle
  <2> QED BY <2>1 DEF RunOwed, Past
<1>9. Booked'
  <2>1. \A m \in Messages : job'[m].state = "none" => job[m].state = "none"
    BY <1>2 DEF Items
  <2> QED BY <1>3, <1>4, <1>6, <2>1 DEF Owed, Booked, Kept, Onward, Grow
<1>10. Marked'
  BY <1>4, <1>6, MarkedStays
<1> QED BY <1>7, <1>8, <1>9, <1>10 DEF Owed

-----------------------------------------------------------------------------
(* The workers owe what they did                                           *)

\* Only runners, rows, events and the like change.
LEMMA RowsGrow ==
  ASSUME NEW m, NEW value, RowsOK, row' = [row EXCEPT ![m] = value], value # "none"
  PROVE  Grow
BY DEF RowsOK, Grow

\* A runner goes on with a message whose row is there.
LEMMA MessageGoes ==
  ASSUME NEW k \in Runners, NEW m \in Messages, NEW pc \in Phase \ {"idle"}, IInv, Owed, m = Item(k), Goto(k, pc),
         Grow, row'[m] # "none" \/ pc \notin Past, pc = "claim" => event[m] # "none",
         UNCHANGED <<job, acked, intake, reply, compose, letters, unrecorded>>,
         UNCHANGED event \/ (event' = [event EXCEPT ![m] = "processed"] /\ row[m] # "none")
  PROVE  Owed'
<1>1. Only(k) /\ held'[k].pc = pc /\ held'[k].item = held[k].item /\ held[k].item = m
  BY Moves DEF IInv, Item
<1>2. event \in [Messages -> {"none", "open", "processed"}]
  BY DEF Owed, Marked
<1>3. /\ event' \in [Messages -> {"none", "open", "processed"}]
      /\ \A n \in Messages : event'[n] = event[n] \/ (n = m /\ event'[n] = "processed" /\ row[n] # "none")
  <2>1. CASE UNCHANGED event
    BY <1>2, <2>1
  <2>2. CASE event' = [event EXCEPT ![m] = "processed"] /\ row[m] # "none"
    BY <1>2, <2>2
  <2> QED BY <2>1, <2>2
<1>4. Onward
  BY <1>3 DEF Onward
<1>5. m \notin Replies
  BY Given
<1>6. RunOwed(held[k])'
  BY <1>1, <1>4, <1>5 DEF RunOwed, Onward
<1>7. Booked'
  BY <1>4, BookedStays
<1>8. Marked'
  BY <1>3, <1>4 DEF Owed, Marked, Onward, Grow
<1> QED BY <1>1, <1>4, <1>6, <1>7, <1>8, OwedGoes

LEMMA DoneOwes ==
  ASSUME NEW k \in Runners, IInv, Owed, Done(k)
  PROVE  Owed'
<1>1. Finish(k) /\ held[k].pc = "done"
  BY DEF Done, At
<1>2. Item(k) \in Messages => row[Item(k)] # "none"
  BY <1>1 DEF Owed, RunOwed, Past, Item
<1>3. Item(k) \in Replies => reply[Item(k)] # "PENDING"
  BY <1>1 DEF Owed, RunOwed, Item
<1>4. Onward /\ UNCHANGED <<acked, intake, event>>
  BY OnwardStill DEF Done, Grow
<1> QED BY <1>1, <1>2, <1>3, <1>4, OwedFinish

LEMMA InboundOwes ==
  ASSUME NEW k \in Runners, IInv, Owed, Inbound(k)
  PROVE  Owed'
<1>1. CASE Done(k)
  BY <1>1, DoneOwes
<1>2. ASSUME ~Done(k) PROVE held[k].pc \in InPhase /\ held[k].pc # "idle"
  BY <1>2 DEF Inbound, Claim, Lookup, Persist, Meter, Notify, Bot, SendOutbound, SaveOutbound, Send, Record,
              FindPending, Download, Mark, At, InPhase
<1>3. ASSUME ~Done(k), NEW m \in Messages, m = Item(k) PROVE Owed'
  <2>0. m \in Items /\ m \notin Replies /\ held[k].item = m /\ RunOwed(held[k])
    BY <1>3, Given DEF Items, Item, Owed
  <2>1. CASE Claim(k)
    <3>1. UNCHANGED <<row, acked, intake, event, reply, compose, letters, unrecorded>> /\ held[k].pc = "claim"
      BY <2>1 DEF Claim, At
    <3>2. CASE event[m] = "open"
      <4>1. Goto(k, "lookup") /\ UNCHANGED job
        BY <1>3, <2>1, <3>2 DEF Claim
      <4>2. "lookup" \in Phase \ {"idle"} /\ "lookup" \notin Past
        BY DEF Phase, InPhase, Past
      <4> QED BY <1>3, <3>1, <4>1, <4>2, MessageGoes DEF Grow
    <3>3. CASE event[m] # "open"
      <4>1. Finish(k)
        BY <1>3, <2>1, <3>3 DEF Claim
      <4>2. event[m] = "processed"
        BY <2>0, <3>1, <3>3 DEF Owed, Marked, RunOwed
      <4>3. row[m] # "none"
        BY <4>2 DEF Owed, Marked
      <4>4. Onward
        BY <3>1, OnwardStill DEF Grow
      <4> QED BY <1>3, <2>0, <3>1, <4>1, <4>3, <4>4, OwedFinish
    <3> QED BY <3>2, <3>3
  <2>2. CASE Lookup(k)
    <3>1. UNCHANGED <<job, row, acked, intake, event, reply, compose, letters, unrecorded>>
      BY <2>2 DEF Lookup
    <3>2. PICK pc : pc = IF row[m] = "none" THEN "persist" ELSE After(m)
      OBVIOUS
    <3>3. pc \in Phase \ {"idle"} /\ (row[m] # "none" \/ pc \notin Past) /\ pc # "claim"
      BY <3>2 DEF After, Phase, InPhase, Past
    <3>4. held' = [held EXCEPT ![k] = [held[k] EXCEPT !.off = byStaff, !.pc = pc]]
      BY <1>3, <2>2, <3>2 DEF Lookup
    <3>5. Only(k) /\ held'[k].pc = pc /\ held'[k].item = m
      BY <2>0, <3>4 DEF Only, IInv, RunnersOK, HeldOK, HeldRows
    <3>6. Onward
      BY <3>1, OnwardStill DEF Grow
    <3>7. RunOwed(held[k])'
      BY <2>0, <3>1, <3>3, <3>5 DEF RunOwed
    <3>8. Booked' /\ Marked'
      BY <3>1, <3>6, BookedStays, MarkedStays
    <3> QED BY <2>0, <3>1, <3>3, <3>5, <3>6, <3>7, <3>8, OwedGoes
  <2>3. CASE Persist(k)
    <3>1. UNCHANGED <<acked, intake, event, reply, compose>> /\ held[k].pc = "persist"
      BY <2>3 DEF Persist, At
    <3>2. CASE row[m] # "none"
      <4>1. Throws(k) /\ UNCHANGED row
        BY <1>3, <2>3, <3>2 DEF Persist
      <4>2. Onward
        BY <3>1, <4>1, ThrowsOnward, OnwardStill DEF Grow
      <4> QED BY <3>1, <4>1, <4>2, OwedThrow
    <3>3. CASE row[m] = "none"
      <4>1. PICK value, pc : /\ value = IF m \in Media THEN "pending" ELSE "stored"
                             /\ pc = IF m \in Media THEN "download" ELSE "meter"
        OBVIOUS
      <4>2. row' = [row EXCEPT ![m] = value] /\ Goto(k, pc) /\ UNCHANGED <<job, letters, unrecorded>>
        BY <1>3, <2>3, <3>3, <4>1 DEF Persist
      <4>3. value # "none" /\ pc \in Phase \ {"idle", "claim"}
        BY <4>1 DEF Phase, InPhase
      <4>4. Grow /\ row'[m] # "none"
        BY <4>2, <4>3, RowsGrow DEF IInv, RowsOK
      <4> QED BY <1>3, <3>1, <4>2, <4>3, <4>4, MessageGoes
    <3> QED BY <3>2, <3>3
  <2>4. CASE (\E suspended, off \in BOOLEAN : Meter(k, suspended, off)) \/ Notify(k) \/ Bot(k)
             \/ (\E p \in Payloads : SendOutbound(k, p)) \/ SaveOutbound(k) \/ Send(k)
    <3>1. UNCHANGED <<job, row, acked, intake, event, reply, compose, letters, unrecorded>>
      BY <2>4 DEF Meter, Notify, Bot, SendOutbound, SaveOutbound, Send
    <3>2. held[k].pc \in Past
      BY <2>4 DEF Meter, Notify, Bot, SendOutbound, SaveOutbound, Send, At, Past
    <3>3. PICK pc \in {"notify", "bot", "send", "save", "record", "download", "mark", "done"} : Goto(k, pc)
      BY <2>4, AfterPhase DEF Meter, Notify, Bot, SendOutbound, SaveOutbound, Send, Goto
    <3>4. pc \in Phase \ {"idle", "claim"}
      BY <3>3 DEF Phase, InPhase
    <3>5. row[m] # "none"
      BY <2>0, <3>2 DEF RunOwed
    <3> QED BY <1>3, <3>1, <3>3, <3>4, <3>5, MessageGoes DEF Grow
  <2>5. CASE Record(k)
    <3>1. UNCHANGED <<row, acked, intake, event, reply, compose>> /\ held[k].pc = "record"
      BY <2>5 DEF Record, At
    <3>2. row[m] # "none"
      BY <2>0, <3>1 DEF RunOwed, Past
    <3>3. CASE Mirrored(m)
      <4>1. Throws(k)
        BY <1>3, <2>5, <3>3 DEF Record
      <4>2. Onward
        BY <3>1, <4>1, ThrowsOnward, OnwardStill DEF Grow
      <4> QED BY <3>1, <4>1, <4>2, OwedThrow
    <3>4. CASE ~Mirrored(m)
      <4>1. Goto(k, After(m)) /\ UNCHANGED <<job, letters, unrecorded>>
        BY <1>3, <2>5, <3>4 DEF Record
      <4>2. After(m) \in Phase \ {"idle", "claim"}
        BY DEF After, Phase, InPhase
      <4> QED BY <1>3, <3>1, <3>2, <4>1, <4>2, MessageGoes DEF Grow
    <3> QED BY <3>3, <3>4
  <2>6. CASE FindPending(k) \/ Download(k)
    <3>1. UNCHANGED <<job, acked, intake, event, reply, compose, letters, unrecorded>>
      BY <2>6 DEF FindPending, Download
    <3>2. held[k].pc \in {"download", "fetch"}
      BY <2>6 DEF FindPending, Download, At
    <3>3. row[m] # "none"
      BY <2>0, <3>2 DEF RunOwed, Past
    <3>4. row' = row \/ row' = [row EXCEPT ![m] = "stored"]
      BY <1>3, <2>6 DEF FindPending, Download
    <3>5. Grow /\ row'[m] # "none"
      BY <3>3, <3>4 DEF Grow, IInv, RowsOK
    <3>6. PICK pc \in {"fetch", "done"} : Goto(k, pc)
      BY <2>6 DEF FindPending, Download
    <3>7. pc \in Phase \ {"idle", "claim"}
      BY <3>6 DEF Phase, InPhase
    <3> QED BY <1>3, <3>1, <3>5, <3>6, <3>7, MessageGoes
  <2>7. CASE Mark(k)
    <3>1. UNCHANGED <<job, row, acked, intake, reply, compose, letters, unrecorded>>
      BY <2>7 DEF Mark
    <3>2. held[k].pc = "mark" /\ event' = [event EXCEPT ![m] = "processed"] /\ Goto(k, "done")
      BY <1>3, <2>7 DEF Mark, At
    <3>3. row[m] # "none"
      BY <2>0, <3>2 DEF RunOwed, Past
    <3>4. "done" \in Phase \ {"idle", "claim"}
      BY DEF Phase
    <3> QED BY <1>3, <3>1, <3>2, <3>3, <3>4, MessageGoes DEF Grow
  <2> QED BY <1>3, <2>1, <2>2, <2>3, <2>4, <2>5, <2>6, <2>7 DEF Inbound
<1> QED BY <1>1, <1>2, <1>3, HasItem DEF IInv

LEMMA BreaksOwes ==
  ASSUME NEW k \in Runners, IInv, Owed, Breaks(k)
  PROVE  Owed'
<1>1. Throws(k) /\ held[k].pc # "idle" /\ UNCHANGED <<row, acked, intake, event, reply, compose>>
  BY DEF Breaks
<1>2. Onward
  BY <1>1, ThrowsOnward, OnwardStill DEF Grow
<1> QED BY <1>1, <1>2, OwedThrow

\* A runner goes on with a reply, whose row may change.
LEMMA ReplyGoes ==
  ASSUME NEW k \in Runners, NEW r \in Replies, NEW pc \in OutPhase \cup {"done"}, IInv, Owed, r = Item(k), Goto(k, pc),
         held[k].pc # "idle", pc = "done" => reply'[r] # "PENDING",
         UNCHANGED <<job, row, acked, intake, event, compose, letters, unrecorded>>,
         UNCHANGED reply \/ \E status \in {"SENT", "FAILED"} : reply' = [reply EXCEPT ![r] = status]
  PROVE  Owed'
<1>1. pc \in Phase \ {"idle", "claim"} /\ pc \notin Past \ {"done"}
  BY DEF Phase, OutPhase, Past
<1>2. Only(k) /\ held'[k].pc = pc /\ held'[k].item = held[k].item /\ held[k].item = r
  BY <1>1, Moves DEF IInv, Item
<1>3. \A q \in Replies : reply'[q] = reply[q] \/ reply'[q] # "PENDING"
  <2>1. DOMAIN reply = Replies
    BY DEF IInv, RepliesOK
  <2> QED BY <2>1
<1>4. Onward
  BY <1>3 DEF Onward, Grow
<1>5. r \notin Messages /\ compose'[r] = "over"
  BY <1>2, Given DEF Owed, RunOwed
<1>6. RunOwed(held[k])'
  BY <1>1, <1>2, <1>5 DEF RunOwed
<1>7. Booked' /\ Marked'
  BY <1>4, BookedStays, MarkedStays
<1> QED BY <1>1, <1>2, <1>4, <1>6, <1>7, OwedGoes

LEMMA OutboundOwes ==
  ASSUME NEW k \in Runners, IInv, Owed, Outbound(k)
  PROVE  Owed'
<1>1. CASE Done(k)
  BY <1>1, DoneOwes
<1>2. ASSUME ~Done(k) PROVE held[k].pc \in OutPhase /\ held[k].pc # "idle" /\ Item(k) \in Replies
  BY <1>2, Claimed DEF Outbound, ClaimSend, Deliver, SetStatus, At, OutPhase
<1>3. ASSUME ~Done(k), NEW r \in Replies, r = Item(k) PROVE Owed'
  <2>0. r \notin Messages /\ held[k].pc # "idle"
    BY <1>2, <1>3, Given
  <2>1. UNCHANGED <<row, acked, intake, event, compose>>
    BY <1>3 DEF Outbound, ClaimSend, Deliver, SetStatus
  <2>2. CASE ClaimSend(k)
    <3>1. UNCHANGED <<letters, unrecorded>>
      BY <2>2 DEF ClaimSend
    <3>2. CASE reply[r] = "PENDING"
      <4>1. reply' = [reply EXCEPT ![r] = "SENT"] /\ Goto(k, "deliver") /\ UNCHANGED job
        BY <1>3, <2>2, <3>2 DEF ClaimSend
      <4>2. "deliver" \in OutPhase \cup {"done"}
        BY DEF OutPhase
      <4> QED BY <1>3, <2>0, <2>1, <3>1, <4>1, <4>2, ReplyGoes
    <3>3. CASE reply[r] # "PENDING"
      <4>1. Finish(k) /\ UNCHANGED reply
        BY <1>3, <2>2, <3>3 DEF ClaimSend
      <4>2. Onward
        BY <2>1, <3>1, <4>1, OnwardStill DEF Grow
      <4> QED BY <1>3, <2>0, <2>1, <3>3, <4>1, <4>2, OwedFinish
    <3> QED BY <3>2, <3>3
  <2>3. CASE Deliver(k)
    <3>1. UNCHANGED <<job, reply, letters, unrecorded>>
      BY <2>3 DEF Deliver
    <3>2. PICK pc \in {"status sent", "status failed"} : Goto(k, pc)
      BY <2>3 DEF Deliver
    <3>3. pc \in OutPhase \cup {"done"} /\ pc # "done"
      BY <3>2 DEF OutPhase
    <3> QED BY <1>3, <2>0, <2>1, <3>1, <3>2, <3>3, ReplyGoes
  <2>4. CASE SetStatus(k)
    <3>1. CASE Mirrored(r)
      <4>1. Throws(k) /\ UNCHANGED reply
        BY <1>3, <2>4, <3>1 DEF SetStatus
      <4>2. Onward
        BY <2>1, <4>1, ThrowsOnward, OnwardStill DEF Grow
      <4> QED BY <2>0, <2>1, <4>1, <4>2, OwedThrow
    <3>2. CASE ~Mirrored(r)
      <4>1. PICK status \in {"SENT", "FAILED"} : reply' = [reply EXCEPT ![r] = status]
        BY <1>3, <2>4, <3>2 DEF SetStatus
      <4>2. Goto(k, "done") /\ UNCHANGED <<job, letters, unrecorded>>
        BY <1>3, <2>4, <3>2 DEF SetStatus
      <4>3. reply'[r] # "PENDING"
        BY <4>1 DEF IInv, RepliesOK
      <4> QED BY <1>3, <2>0, <2>1, <4>1, <4>2, <4>3, ReplyGoes
    <3> QED BY <3>1, <3>2
  <2> QED BY <1>3, <2>2, <2>3, <2>4 DEF Outbound
<1> QED BY <1>1, <1>2, <1>3

-----------------------------------------------------------------------------
(* The staff, the provider and the history sync owe nothing new            *)

\* Replies and rows change alone.
LEMMA OwedBeside ==
  ASSUME IInv, Owed, Grow, UNCHANGED <<job, held, acked, intake, event, letters, unrecorded>>,
         \A r \in Replies : compose[r] = "over" =>
            compose'[r] = "over" /\ (reply'[r] = reply[r] \/ reply'[r] # "PENDING")
  PROVE  Owed'
<1>1. Onward
  BY DEF Onward
<1>2. Booked' /\ Marked'
  BY <1>1, BookedStays, MarkedStays
<1> QED BY <1>1, <1>2, OwedStill

LEMMA ComposeOwes ==
  ASSUME NEW r \in Replies, IInv, Owed,
         CountReply(r) \/ TakeOverUpload(r) \/ Composing(r) \/ ScheduleFails(r)
  PROVE  Owed'
<1>1. CASE Schedule(r)
  <2>1. r \in Items /\ r \notin Messages
    BY Given DEF Items
  <2>2. DOMAIN job = Items /\ DOMAIN compose = Replies
    BY DEF IInv, JobsOK, RepliesOK
  <2>3. compose' = [compose EXCEPT ![r] = "over"] /\ UNCHANGED <<row, held, acked, intake, event, reply, letters, unrecorded>>
    BY <1>1 DEF Schedule
  <2>4. Onward
    BY <2>2, <2>3 DEF Onward, Grow
  <2>5. job'[r].state = "waiting" \/ job'[r] = job[r]
    BY <1>1, <2>1, <2>2 DEF Schedule, Enqueue, NoJob
  <2>6. \A n \in Items : n # r => job'[n] = job[n]
    BY <1>1, <2>2 DEF Schedule, Enqueue
  <2>7. JobOwed(r)'
    <3>1. CASE job'[r].state = "waiting"
      BY <2>1, <2>2, <2>3, <3>1 DEF JobOwed
    <3>2. CASE job'[r] = job[r]
      <4>1. JobOwed(r)
        BY <2>1 DEF Owed
      <4> QED BY <2>1, <2>3, <2>4, <3>2, <4>1, JobStays DEF JobOwed
    <3> QED BY <2>5, <3>1, <3>2
  <2>8. Booked' /\ Marked'
    <3>1. \A m \in Messages : job'[m] = job[m]
      BY <2>1, <2>6 DEF Items
    <3> QED BY <2>3, <2>4, <3>1, BookedStays, MarkedStays
  <2> QED BY <2>1, <2>3, <2>4, <2>6, <2>7, <2>8, OwedJob
<1>2. CASE ~Schedule(r)
  <2>1. UNCHANGED <<row, job, held, acked, intake, event, letters, unrecorded>>
    BY <1>2 DEF CountReply, TakeOverUpload, Composing, ScheduleFails, SetExpiry, TakeOver, CreatePending, SendNow,
                RecordNow, SendUpload, RecordUpload
  <2>3. compose[r] # "over"
    BY <1>2 DEF CountReply, TakeOverUpload, Composing, ScheduleFails, SetExpiry, TakeOver, CreatePending, SendNow,
                RecordNow, SendUpload, RecordUpload
  <2>4. \E stage : compose' = [compose EXCEPT ![r] = stage]
    BY <1>2 DEF CountReply, TakeOverUpload, Composing, ScheduleFails, SetExpiry, TakeOver, CreatePending, SendNow,
                RecordNow, SendUpload, RecordUpload
  <2>5. reply' = reply \/ \E status : reply' = [reply EXCEPT ![r] = status]
    BY <1>2 DEF CountReply, TakeOverUpload, Composing, ScheduleFails, SetExpiry, TakeOver, CreatePending, SendNow,
                RecordNow, SendUpload, RecordUpload
  <2>6. \A q \in Replies : q # r => compose'[q] = compose[q] /\ reply'[q] = reply[q]
    BY <2>4, <2>5 DEF IInv, RepliesOK
  <2> QED BY <2>1, <2>3, <2>6, OwedBeside DEF Grow
<1> QED BY <1>1, <1>2

LEMMA UndoOwes ==
  ASSUME NEW r \in Replies, IInv, Owed, UndoRead(r) \/ Undoing(r)
  PROVE  Owed'
<1>1. CASE UndoCancel(r)
  <2>1. r \in Items /\ r \notin Messages
    BY Given DEF Items
  <2>2. DOMAIN job = Items /\ JobOwed(r)
    BY <2>1 DEF IInv, JobsOK, Owed
  <2>3. UNCHANGED <<row, held, acked, intake, event, reply, compose, letters, unrecorded>>
    BY <1>1 DEF UndoCancel
  <2>4. Onward
    BY <2>3, OnwardStill DEF Grow
  <2>5. (job'[r] = job[r] \/ job'[r] = NoJob) /\ \A n \in Items : n # r => job'[n] = job[n]
    BY <1>1, <2>1, <2>2 DEF UndoCancel
  <2>6. JobOwed(r)'
    <3>1. CASE job'[r] = job[r]
      BY <2>1, <2>2, <2>3, <2>4, <3>1, JobStays DEF JobOwed
    <3>2. CASE job'[r] = NoJob
      BY <3>2 DEF JobOwed, NoJob
    <3> QED BY <2>5, <3>1, <3>2
  <2>7. Booked' /\ Marked'
    <3>1. \A m \in Messages : job'[m] = job[m]
      BY <2>1, <2>5 DEF Items
    <3> QED BY <2>3, <2>4, <3>1, BookedStays, MarkedStays
  <2> QED BY <2>1, <2>3, <2>4, <2>5, <2>6, <2>7, OwedJob
<1>2. CASE UndoRead(r) \/ UndoDelete(r)
  <2>1. UNCHANGED <<row, job, held, acked, intake, event, compose, letters, unrecorded>>
    BY <1>2 DEF UndoRead, UndoDelete
  <2>2. reply' = reply \/ reply' = [reply EXCEPT ![r] = "gone"]
    BY <1>2 DEF UndoRead, UndoDelete
  <2>3. \A q \in Replies : reply'[q] = reply[q] \/ reply'[q] # "PENDING"
    BY <2>2 DEF IInv, RepliesOK
  <2> QED BY <2>1, <2>3, OwedBeside DEF Grow
<1> QED BY <1>1, <1>2 DEF Undoing

LEMMA ReportOwes ==
  ASSUME NEW r \in Replies, IInv, Owed,
         PhoneReply(r) \/ \E status \in {"DELIVERED", "READ", "FAILED"} : ReadStatus(r, status) \/ WriteStatus(r, status)
  PROVE  Owed'
<1>1. UNCHANGED <<row, job, held, acked, intake, event, compose, letters, unrecorded>>
  BY DEF PhoneReply, ReadStatus, WriteStatus
<1>2. reply' = reply \/ \E status \in {"DELIVERED", "READ", "FAILED"} : reply' = [reply EXCEPT ![r] = status]
  BY DEF PhoneReply, ReadStatus, WriteStatus
<1>3. \A q \in Replies : reply'[q] = reply[q] \/ reply'[q] # "PENDING"
  BY <1>2 DEF IInv, RepliesOK
<1> QED BY <1>1, <1>3, OwedBeside DEF Grow

LEMMA EchoOwes ==
  ASSUME NEW i \in Items, IInv, Owed, ReadEcho(i) \/ StoreEcho(i) \/ ReadDeleted(i) \/ WriteDeleted(i)
  PROVE  Owed'
<1>1. UNCHANGED <<job, held, acked, intake, event, compose, letters, unrecorded>>
  BY DEF ReadEcho, StoreEcho, ReadDeleted, WriteDeleted
<1>2. reply' = reply \/ reply' = [reply EXCEPT ![i] = "SENT"]
  BY DEF ReadEcho, StoreEcho, ReadDeleted, WriteDeleted
<1>3. \A q \in Replies : reply'[q] = reply[q] \/ reply'[q] # "PENDING"
  BY <1>2 DEF IInv, RepliesOK
<1>4. row' = row \/ row' = [row EXCEPT ![i] = "blank"]
  BY DEF ReadEcho, StoreEcho, ReadDeleted, WriteDeleted
<1>5. Grow
  BY <1>4, RowsGrow DEF IInv, Grow
<1> QED BY <1>1, <1>3, <1>5, OwedBeside

LEMMA HistoryOwes ==
  ASSUME IInv, Owed,
         \/ \E c \in Chunks : ReceiveChunk(c) \/ GuardChunk(c) \/ SyncStatus(c) \/ ImportMessage(c) \/ ChunkFails(c)
         \/ \E m \in Messages : FindImported(m) \/ FetchImported(m)
         \/ EnableBot \/ MinuteOver \/ MarkMessagesRead
  PROVE  Owed'
<1>1. UNCHANGED <<job, held, acked, intake, event, reply, compose, letters, unrecorded>>
  BY DEF ReceiveChunk, GuardChunk, SyncStatus, ImportMessage, ChunkFails, FindImported, FetchImported, EnableBot,
         MinuteOver, MarkMessagesRead
<1>2. row' = row \/ \E m, value : value # "none" /\ row' = [row EXCEPT ![m] = value]
  <2>1. CASE \E c \in Chunks : ImportMessage(c)
    BY <2>1 DEF ImportMessage
  <2>2. CASE \E m \in Messages : FetchImported(m)
    BY <2>2 DEF FetchImported
  <2> QED BY <2>1, <2>2 DEF ReceiveChunk, GuardChunk, SyncStatus, ChunkFails, FindImported, EnableBot, MinuteOver,
                            MarkMessagesRead
<1>3. Grow
  BY <1>2, RowsGrow DEF IInv, Grow
<1> QED BY <1>1, <1>3, OwedBeside

LEMMA NextOwes == IInv /\ Owed /\ [Next]_vars => Owed'
<1> SUFFICES ASSUME IInv, Owed, [Next]_vars PROVE Owed'
  OBVIOUS
<1>1. CASE UNCHANGED vars
  BY <1>1, OwedBeside DEF vars, Grow
<1>2. CASE \E m \in Messages : DeliverWhatsApp(m) \/ DeliverFails(m) \/ DeliverInstagram(m) \/ Intake(m) \/ IntakeFails(m)
  BY <1>2, WebhookOwes
<1>3. CASE \E k \in Runners, i \in Items : Take(k, i)
  BY <1>3, TakeOwes
<1>4. CASE (\E k \in Workers : Inbound(k)) \/ (\E k \in Senders : Outbound(k)) \/ (\E k \in Runners : Breaks(k))
  BY <1>4, InboundOwes, OutboundOwes, BreaksOwes DEF Runners
<1>5. ASSUME NEW r \in Replies,
             \/ CountReply(r) \/ TakeOverUpload(r) \/ Composing(r) \/ ScheduleFails(r) \/ UndoRead(r) \/ Undoing(r)
             \/ PhoneReply(r)
             \/ \E status \in {"DELIVERED", "READ", "FAILED"} : ReadStatus(r, status) \/ WriteStatus(r, status)
      PROVE  Owed'
  BY <1>5, ComposeOwes, UndoOwes, ReportOwes
<1>6. CASE EnableBot \/ MinuteOver \/ MarkMessagesRead \/ Crash
  BY <1>6, HistoryOwes, CrashOwes
<1>7. CASE \E i \in Items : Stall(i) \/ Forget(i) \/ ReadEcho(i) \/ StoreEcho(i) \/ ReadDeleted(i) \/ WriteDeleted(i)
  BY <1>7, StallOwes, ForgetOwes, EchoOwes
<1>8. CASE \/ \E c \in Chunks : ReceiveChunk(c) \/ GuardChunk(c) \/ SyncStatus(c) \/ ImportMessage(c) \/ ChunkFails(c)
           \/ \E m \in Messages : FindImported(m) \/ FetchImported(m)
  BY <1>8, HistoryOwes
<1> QED BY <1>1, <1>2, <1>3, <1>4, <1>5, <1>6, <1>7, <1>8 DEF Next

LEMMA InitOwes == Init => Owed
<1> SUFFICES ASSUME Init PROVE Owed
  OBVIOUS
<1>1. \A i \in Items : JobOwed(i)
  BY DEF Init, JobOwed, NoJob
<1>2. \A k \in Runners : RunOwed(held[k])
  BY DEF Init, RunOwed, Idle, Past
<1>3. Booked /\ Marked
  BY DEF Init, Booked, Marked
<1> QED BY <1>1, <1>2, <1>3 DEF Owed

LEMMA AllOwed == Spec => []Owed
<1>1. Init => Owed
  BY InitOwes
<1>2. IInv /\ Owed /\ [Next]_vars => Owed'
  BY NextOwes
<1> QED BY <1>1, <1>2, Held, PTL DEF Spec

\* A message that was acknowledged is stored, or in hand, or a letter or the
\* log tells of it: through retries, stalls, restarts and redeliveries none is
\* just dropped (whatsapp.controller.ts, instagram.controller.ts).
THEOREM AckedIsNotForgotten == Spec => []NothingForgotten
<1>1. IInv /\ Owed => NothingForgotten
  <2> SUFFICES ASSUME IInv, Owed, NEW m \in Messages, m \in acked, row[m] = "none"
               PROVE  InHand(m) \/ GivenUp(m)
    BY DEF NothingForgotten
  <2>1. m \in Items
    BY DEF Items
  <2>2. job[m].state \in {"none", "waiting", "active", "dead"} /\ JobOwed(m)
    BY <2>1 DEF IInv, JobsOK, JobOK, JobRows, JobState, Owed, JobOwed
  <2>3. CASE job[m].state = "none"
    BY <2>3 DEF Owed, Booked, Kept, InHand, GivenUp
  <2>4. CASE job[m].state # "none"
    BY <2>2, <2>4 DEF JobOwed, InHand, GivenUp
  <2> QED BY <2>3, <2>4
<1> QED BY <1>1, Held, AllOwed, PTL

\* When the job of a delayed reply has finished the reply is sent, has failed or
\* was taken back (message.service.ts, executeDelayedSend).
THEOREM FinishedSendIsSettled == Spec => []FinishedIsSettled
<1>1. Owed => FinishedIsSettled
  BY DEF Owed, JobOwed, FinishedIsSettled, Items
<1> QED BY <1>1, AllOwed, PTL
=============================================================================
