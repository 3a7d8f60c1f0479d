---------------------------- MODULE BookingProofs ----------------------------
(***************************************************************************)
(* Proofs about Booking, for any bookings, requests, hotels and bounds,    *)
(* and any worlds of bookings, sequences and requests: an invariant of     *)
(* what every row, request, sequence and job holds, and from it the types, *)
(* the reference numbers within a hotel, the edits that lose nothing, and  *)
(* what of a confirmation a guest is sent.                                 *)
(***************************************************************************)
EXTENDS Booking, TLAPS, FiniteSetTheorems, SequenceTheorems, WellFoundedInduction

\* The inductive invariant.  A row is a booking, or not there.
RowFields == {"ref", "hotel", "status", "type", "in", "out", "price", "total", "rooms"}
IsRow(v) ==
    /\ DOMAIN v = RowFields
    /\ v.ref \in Nat \ {0} /\ v.status \in Status
    /\ v.in \in Int /\ v.out \in Int /\ v.in < v.out

\* Every draft has the fields any request needs.
DraftFields == {"ref", "set", "steps", "cleared", "in", "out", "type", "price", "todo"}
Drafts == DOMAIN draft = Requests /\ \A r \in Requests : DOMAIN draft[r] = DraftFields
Op(r, op) == r \in Asked /\ Want(r).op = op

\* Rows are bookings, each with a reference of its own.
Rows ==
    /\ DOMAIN row = Bookings
    /\ \A b \in Bookings : row[b] = NoRow \/ IsRow(row[b])
    /\ \A b, c \in Bookings : Exists(b) /\ Exists(c) /\ row[b].ref = row[c].ref => b = c
Cells ==
    /\ DOMAIN cell = Types /\ \A t \in Types : DOMAIN cell[t] = 1 .. LastNight
    /\ \A t \in Types, n \in 1 .. LastNight : cell[t][n] \in {NoCell} \cup 0 .. TotalRooms[t]
Shapes ==
    /\ world \in Worlds /\ DOMAIN at = Requests /\ expired \subseteq Asked
    /\ Drafts

\* A creation's booking is not there until it is done; while it has a number no
\* other of its hotel has one, and no booking of its hotel has the number.
Creating(r) ==
    /\ at[r] # "done" => ~Exists(Want(r).booking)
    /\ at[r] \in {"checked", "numbered"} => Want(r).in < Want(r).out
    /\ at[r] = "numbered" =>
         /\ draft[r].ref \in Nat \ {0}
         /\ \A b \in Bookings : row[b].ref = draft[r].ref => row[b].hotel # Hotel(r)
         /\ \A q \in Asked : Is(q, "create", "numbered") /\ Hotel(q) = Hotel(r) => q = r

\* An edit holds the lock of its booking unless it outlived it, and what it is
\* about to write back is what the row holds, unless somebody outlived it.
Outlived(b) == \E q \in expired : Target(q) = b
EditOK(r) ==
    /\ at[r] \in Editing /\ r \notin expired =>
         \A q \in Asked \ expired : Op(q, "edit") /\ Target(q) = Target(r) /\ at[q] \in Editing => q = r
    /\ at[r] \in {"pricing", "writing"} =>
         /\ Exists(Target(r))
         /\ draft[r].in \in Int /\ draft[r].out \in Int /\ draft[r].in < draft[r].out
    /\ at[r] = "writing" =>
         Outlived(Target(r)) \/ \A f \in {"in", "out", "price"} \ DOMAIN Want(r).sets : draft[r][f] = row[Target(r)][f]

Requested ==
    /\ \A r \in Asked : Op(r, "create") => Creating(r)
    /\ \A r \in Asked : Op(r, "edit") => EditOK(r)

Sending ==
    /\ IsSequence(plans) /\ \A p \in ToSet(plans) : HasSteps(p)
    /\ DOMAIN tried = Requests /\ \A r \in Requests : tried[r] \in [1 .. Steps -> Nat]
    /\ \A r \in Asked : Op(r, "send") => HasSteps(draft[r])

\* What a job has done: its steps up to the one it is at are tried or left out,
\* and what it shows as sent was tried.
Done(j, i) == StepsOf(j)[i].skip \/ tried[job[j].of][i] > 0
Shown(j, run) == run = <<>> \/ (DOMAIN run = DOMAIN StepsOf(j) /\ \A i \in DOMAIN run : run[i] = "sent" => tried[job[j].of][i] > 0)
JobFields == {"state", "of", "step", "stalled", "run", "progress"}
JobOK(j) ==
    /\ DOMAIN job[j] = JobFields
    /\ job[j].of # Nobody => Op(job[j].of, "send") /\ at[job[j].of] = "accepted"
    /\ job[j].of = Nobody => job[j].state \in {"none", "completed"} /\ job[j].progress = <<>>
    /\ job[j].state \in {"none", "waiting", "active", "completed", "failed"}
    /\ Shown(j, job[j].progress)
    /\ job[j].state = "active" =>
         /\ DOMAIN job[j].run = DOMAIN StepsOf(j) /\ Shown(j, job[j].run)
         /\ job[j].step \in 0 .. Len(StepsOf(j))
         /\ \A i \in 1 .. job[j].step : Done(j, i)
    /\ job[j].state = "completed" => \A i \in DOMAIN StepsOf(j) : Done(j, i)
Working == DOMAIN job = Bookings /\ \A j \in Bookings : JobOK(j)
IInv == Rows /\ Cells /\ Shapes /\ Requested /\ Sending /\ Working

-----------------------------------------------------------------------------
(* Numbers *)

Less == {p \in Nat \X Nat : p[1] < p[2]}

\* A set of naturals has a least element.
LEMMA Least ==
  ASSUME NEW T \in SUBSET Nat, T # {}
  PROVE  \E x \in T : \A y \in T : x <= y
<1>1. IsWellFoundedOn(Less, Nat)
  BY NatLessThanWellFounded, Zenon DEF OpToRel, Less
<1>2. PICK x \in T : \A y \in T : <<y, x>> \notin Less
  BY <1>1, WFMin, Zenon
<1>3. \A y \in T : ~ (y < x)
  BY <1>2 DEF Less
<1> QED BY <1>3

\* A finite set of naturals has a greatest element: the smallest set that had
\* none would be no smaller than itself without one of its elements.
LEMMA Greatest ==
  ASSUME NEW S \in SUBSET Nat, IsFiniteSet(S), S # {}
  PROVE  \E x \in S : \A y \in S : x >= y
<1> DEFINE Bad(T) == T # {} /\ ~ \E x \in T : \A y \in T : x >= y
           sizes == {n \in Nat : \E T \in SUBSET S : Bad(T) /\ Cardinality(T) = n}
<1>1. SUFFICES ASSUME Bad(S) PROVE FALSE
  OBVIOUS
<1>2. \A T \in SUBSET S : IsFiniteSet(T) /\ Cardinality(T) \in Nat
  BY FS_Subset, FS_CardinalityType
<1>3. PICK n \in sizes : \A m \in sizes : n <= m
  <2>1. sizes \in SUBSET Nat /\ sizes # {}
    BY <1>1, <1>2
  <2> HIDE DEF sizes
  <2> QED BY <2>1, Least
<1>4. PICK T \in SUBSET S : Bad(T) /\ Cardinality(T) = n
  BY <1>3
<1>5. PICK x \in T : TRUE
  BY <1>4
<1> DEFINE U == T \ {x}
<1>6. U \in SUBSET S /\ Cardinality(U) = n - 1 /\ n \in Nat /\ n - 1 < n
  BY <1>2, <1>3, <1>4, <1>5, FS_RemoveElement
<1>7. ~Bad(U)
  <2>1. Cardinality(U) \in Nat
    BY <1>2, <1>6
  <2>2. n - 1 \notin sizes
    <3> HIDE DEF sizes
    <3> QED BY <1>3, <1>6
  <2> HIDE DEF U, Bad
  <2> QED BY <1>6, <2>1, <2>2
<1>8. x \in Nat /\ \A y \in T : y \in Nat
  BY <1>4, <1>5
<1>9. CASE U = {}
  <2>1. \A y \in T : y = x
    BY <1>9
  <2> QED BY <1>4, <1>5, <1>8, <2>1
<1>10. CASE \E m \in U : \A y \in U : m >= y
  <2>1. PICK m \in U : \A y \in U : m >= y
    BY <1>10
  <2>2. m \in T /\ m \in Nat /\ \A y \in T : y = x \/ m >= y
    BY <1>8, <2>1
  <2>3. CASE m >= x
    <3>1. \A y \in T : m >= y
      BY <2>2, <2>3
    <3> QED BY <1>4, <2>2, <3>1
  <2>4. CASE ~(m >= x)
    <3>1. \A y \in T : x >= y
      BY <1>8, <2>2, <2>4
    <3> QED BY <1>4, <1>5, <3>1
  <2> QED BY <2>3, <2>4
<1> QED BY <1>7, <1>9, <1>10

\* What a world holds.
LEMMA Sound ==
  ASSUME Shapes
  PROVE  /\ Asked \subseteq Requests /\ HasRows(world) /\ HasPlans(world) /\ \A r \in Asked : MayAsk(world, r)
  BY BookingAssumption DEF Shapes, Asked

LEMMA Bounds ==
  Steps \in Nat /\ Steps # 0 /\ Nobody \notin Requests /\ IsFiniteSet(Bookings) /\ LastNight \in Nat /\ TotalRooms \in [Types -> Nat]
  BY BookingAssumption DEF Nobody

\* A row that is there has a number, and one that is not has none.
LEMMA Refs ==
  ASSUME Rows
  PROVE  \A b \in Bookings : /\ row[b].ref \in Nat /\ (Exists(b) <=> row[b].ref # 0)
                             /\ (~Exists(b) => row[b] = NoRow) /\ (Exists(b) => IsRow(row[b]))
  BY DEF Rows, IsRow, Exists, NoRow

\* The next number is above every number given.
LEMMA NextNumber ==
  ASSUME Rows, Bookings # {}
  PROVE  1 + Max(References) \in Nat \ {0} /\ \A b \in Bookings : row[b].ref < 1 + Max(References)
<1>1. References \in SUBSET Nat /\ References # {}
  BY Refs DEF References
<1>2. IsFiniteSet(References)
  <2> DEFINE f == [b \in Bookings |-> row[b].ref]
  <2>1. f \in Surjection(Bookings, References)
    BY DEF References, Surjection
  <2> QED BY <2>1, FS_Surjection, Bounds
<1>3. PICK x \in References : \A y \in References : x >= y
  BY <1>1, <1>2, Greatest
<1>4. Max(References) \in References /\ \A y \in References : Max(References) >= y
  BY <1>3 DEF Max
<1> DEFINE m == Max(References)
<1> HIDE DEF m
<1>5. m \in Nat /\ \A b \in Bookings : row[b].ref \in Nat /\ m >= row[b].ref
  BY <1>1, <1>4 DEF References, m
<1>6. 1 + m \in Nat \ {0} /\ \A b \in Bookings : row[b].ref < 1 + m
  BY <1>5
<1> QED BY <1>6 DEF m

-----------------------------------------------------------------------------
(* Sequences *)

\* Sequences, by their values and by their lengths.
LEMMA SequenceOf ==
  ASSUME NEW S, NEW s \in Seq(S)
  PROVE  IsSequence(s) /\ ToSet(s) \subseteq S /\ Len(s) \in Nat /\ DOMAIN s = 1 .. Len(s) /\ s = [i \in 1 .. Len(s) |-> s[i]]
<1>1. Len(s) \in Nat /\ DOMAIN s = 1 .. Len(s) /\ s \in [1 .. Len(s) -> S]
  BY LenProperties
<1>2. ToSet(s) \subseteq S /\ s \in [1 .. Len(s) -> ToSet(s)]
  BY <1>1 DEF ToSet
<1>3. s \in Seq(ToSet(s))
  BY <1>1, <1>2, SeqDef
<1> QED BY <1>1, <1>2, <1>3 DEF IsSequence

LEMMA Lengths ==
  ASSUME NEW n \in Nat, NEW s, s = [i \in 1 .. n |-> s[i]]
  PROVE  IsSequence(s) /\ Len(s) = n /\ DOMAIN s = 1 .. n
<1>1. s \in [1 .. n -> {s[i] : i \in 1 .. n}]
  OBVIOUS
<1>2. s \in Seq({s[i] : i \in 1 .. n})
  BY <1>1, SeqDef
<1>3. DOMAIN s = 1 .. Len(s) /\ DOMAIN s = 1 .. n /\ Len(s) \in Nat /\ IsSequence(s)
  BY <1>1, <1>2, SequenceOf
<1> QED BY <1>3

LEMMA Sequenced ==
  ASSUME NEW s, IsSequence(s)
  PROVE  Len(s) \in Nat /\ DOMAIN s = 1 .. Len(s) /\ s = [i \in 1 .. Len(s) |-> s[i]]
  BY SequenceOf DEF IsSequence


-----------------------------------------------------------------------------
(* What a step that is about one request leaves alone *)

Only(r) == \A q \in Requests : q # r => at'[q] = at[q] /\ draft'[q] = draft[q]
KeepsRef(b) == /\ Exists(b)' <=> Exists(b)
               /\ row'[b].ref = row[b].ref /\ row'[b].hotel = row[b].hotel
KeepsStay(b) == row'[b].in = row[b].in /\ row'[b].out = row[b].out /\ row'[b].price = row[b].price

\* What is asked of r is asked of a booking there may be.
LEMMA Asks ==
  ASSUME NEW r \in Asked, Shapes
  PROVE  /\ r \in Requests
         /\ Op(r, "create") \/ Op(r, "edit") \/ Op(r, "cancel") \/ Op(r, "confirm") \/ Op(r, "send") => Target(r) \in Bookings
<1>1. r \in Requests /\ MayAsk(world, r)
  BY Sound
<1>2. Want(r).op \in {"create", "edit", "cancel", "confirm", "send"} => Want(r).booking \in Bookings
  BY <1>1 DEF MayAsk, Want
<1> QED BY <1>1, <1>2 DEF Op, Target

\* Another creation keeps its claim ...
LEMMA OtherCreations ==
  ASSUME NEW r \in Asked, NEW q \in Asked, q # r, Shapes, Requested, UNCHANGED <<world, expired>>, Only(r),
         Exists(Want(q).booking)' => Exists(Want(q).booking),
         \A b \in Bookings :
            KeepsRef(b) \/ (at[q] = "numbered" /\ row'[b].ref = draft[q].ref => row'[b].hotel # Hotel(q)),
         Op(r, "create") => Creating(r)', Op(q, "create")
  PROVE  Creating(q)'
<1>1. /\ q \in Requests /\ r \in Requests /\ Want(q).booking \in Bookings /\ Creating(q) /\ at'[q] = at[q]
      /\ draft'[q] = draft[q] /\ Want(q)' = Want(q) /\ Asked' = Asked /\ \A p \in Asked : p \in Requests
  BY Asks, Sound DEF Requested, Only, Want, Asked, Target
<1>2. Exists(Want(q).booking)' => Exists(Want(q).booking)
  OBVIOUS
<1>3. ASSUME at[q] = "numbered"
      PROVE  \A b \in Bookings : row'[b].ref = draft'[q].ref => row'[b].hotel # Hotel(q)'
  BY <1>1, <1>3 DEF Creating, KeepsRef, Hotel
<1>4. ASSUME at[q] = "numbered", NEW p \in Asked, Is(p, "create", "numbered")', Hotel(p)' = Hotel(q)'
      PROVE  p = q
  <2>1. Hotel(p) = Hotel(q) /\ Hotel(p)' = Hotel(p) /\ Hotel(q)' = Hotel(q)
    BY <1>4 DEF Hotel, Want
  <2>2. CASE p = r
    <3>1. Op(r, "create") /\ at'[r] = "numbered"
      BY <1>4, <2>2 DEF Is, Op, Want, Asked
    <3>2. Is(q, "create", "numbered")'
      BY <1>1, <1>4 DEF Is, Op, Want, Asked
    <3>3. Creating(r)'
      BY <3>1
    <3> QED BY <1>1, <1>4, <2>1, <2>2, <3>1, <3>2, <3>3 DEF Creating
  <2>3. CASE p # r
    <3>1. Is(p, "create", "numbered")
      BY <1>1, <1>4, <2>3 DEF Is, Want, Asked, Only
    <3> QED BY <1>1, <1>4, <2>1, <3>1 DEF Creating
  <2> QED BY <2>2, <2>3
<1>5. Want(q)'.in = Want(q).in /\ Want(q)'.out = Want(q).out /\ Want(q)'.booking = Want(q).booking
  BY <1>1
<1>6. at[q] # "done" => ~Exists(Want(q).booking)
  BY <1>1 DEF Creating
<1>7. at[q] \in {"checked", "numbered"} => Want(q).in < Want(q).out
  BY <1>1 DEF Creating
<1>8. at[q] = "numbered" => draft[q].ref \in Nat \ {0}
  BY <1>1 DEF Creating
<1> QED BY <1>1, <1>2, <1>3, <1>4, <1>5, <1>6, <1>7, <1>8 DEF Creating, Exists

\* ... and another edit its lock and what it read.
LEMMA OtherEdits ==
  ASSUME NEW r \in Asked, NEW q \in Asked, q # r, Shapes, Requested, UNCHANGED <<world, expired>>, Only(r),
         Exists(Target(q)) => Exists(Target(q))',
         KeepsStay(Target(q)) \/ Outlived(Target(q)) \/ at[q] # "writing",
         Op(r, "edit") => EditOK(r)', Op(q, "edit")
  PROVE  EditOK(q)'
<1>1. /\ q \in Requests /\ r \in Requests /\ Target(q) \in Bookings /\ EditOK(q) /\ at'[q] = at[q]
      /\ draft'[q] = draft[q] /\ Want(q)' = Want(q) /\ Asked' = Asked /\ \A p \in Asked : p \in Requests
  BY Asks, Sound DEF Requested, Only, Want, Asked
<1>2. Target(q)' = Target(q) /\ Outlived(Target(q))' = Outlived(Target(q))
  BY <1>1 DEF Target, Outlived, Want
<1>3. ASSUME at[q] \in Editing, q \notin expired,
             NEW p \in Asked \ expired, Op(p, "edit")', Target(p)' = Target(q), at'[p] \in Editing
      PROVE  p = q
  <2>1. Op(p, "edit") /\ Target(p) = Target(q)
    BY <1>3 DEF Op, Target, Want, Asked
  <2>2. CASE p = r
    <3>1. Op(q, "edit")' /\ Target(q)' = Target(r)' /\ at'[q] \in Editing /\ q \in (Asked \ expired)'
      BY <1>1, <1>2, <1>3, <2>2 DEF Op, Want, Asked
    <3> QED BY <1>3, <2>1, <2>2, <3>1 DEF EditOK
  <2>3. CASE p # r
    <3>1. at[p] \in Editing
      BY <1>1, <1>3, <2>3 DEF Only
    <3> QED BY <1>1, <1>3, <2>1, <3>1 DEF EditOK
  <2> QED BY <2>2, <2>3
<1>4. ASSUME at[q] \in {"pricing", "writing"}
      PROVE  /\ Exists(Target(q))'
             /\ draft'[q].in \in Int /\ draft'[q].out \in Int /\ draft'[q].in < draft'[q].out
  <2>1. Exists(Target(q))
        /\ draft[q].in \in Int /\ draft[q].out \in Int /\ draft[q].in < draft[q].out
    BY <1>1, <1>4 DEF EditOK
  <2> QED BY <1>1, <2>1
<1>5. ASSUME at[q] = "writing", ~Outlived(Target(q)), NEW f \in {"in", "out", "price"} \ DOMAIN Want(q).sets
      PROVE  draft'[q][f] = row'[Target(q)][f]
  <2>1. draft[q][f] = row[Target(q)][f]
    BY <1>1, <1>5 DEF EditOK
  <2>2. KeepsStay(Target(q))
    BY <1>5
  <2> QED BY <1>1, <1>5, <2>1, <2>2 DEF KeepsStay
<1>6. (DOMAIN Want(q).sets)' = DOMAIN Want(q).sets
  BY <1>1
<1> QED BY <1>1, <1>2, <1>3, <1>4, <1>5, <1>6 DEF EditOK, Exists, Outlived

\* A step of one request keeps what the others have, if it keeps the rows they
\* are about.
LEMMA RequestedKept ==
  ASSUME NEW r \in Asked, Shapes, Requested, UNCHANGED <<world, expired>>, Only(r),
         \A b \in Bookings : KeepsRef(b),
         \A q \in Asked : q # r /\ Op(q, "edit") => KeepsStay(Target(q)) \/ Outlived(Target(q)) \/ at[q] # "writing",
         Op(r, "create") => Creating(r)', Op(r, "edit") => EditOK(r)'
  PROVE  Requested'
<1>1. ASSUME NEW q \in Asked, q # r, Op(q, "create")
      PROVE  Creating(q)'
  <2>1. Want(q).booking \in Bookings /\ Want(q)' = Want(q)
    BY <1>1, Asks DEF Target, Want
  <2>2. Exists(Want(q).booking)' => Exists(Want(q).booking)
    BY <2>1 DEF KeepsRef, Exists
  <2> QED BY <1>1, <2>2, OtherCreations
<1>3. ASSUME NEW q \in Asked, q # r, Op(q, "edit")
      PROVE  EditOK(q)'
  <2>1. Target(q) \in Bookings /\ Target(q)' = Target(q)
    BY <1>3, Asks DEF Target, Want
  <2>2. Exists(Target(q)) => Exists(Target(q))'
    BY <2>1 DEF KeepsRef, Exists
  <2> QED BY <1>3, <2>2, OtherEdits
<1>4. Asked' = Asked /\ \A q \in Asked, o \in {"create", "edit"} : Op(q, o)' <=> Op(q, o)
  BY DEF Asked, Op, Want
<1> QED BY <1>1, <1>3, <1>4 DEF Requested

\* Steps and tries are kept by who does not touch them.
LEMMA SendingKept ==
  ASSUME NEW r \in Asked, Shapes, Sending, UNCHANGED <<world, plans, tried>>, Only(r),
         Op(r, "send") => HasSteps(draft'[r])
  PROVE  Sending'
<1>1. Asked' = Asked /\ Asked \subseteq Requests
  BY Sound DEF Asked
<1>2. ASSUME NEW q \in Asked, Op(q, "send")'
      PROVE  HasSteps(draft'[q])
  <2>1. Op(q, "send")
    BY <1>1, <1>2 DEF Op, Want
  <2>2. q # r => draft'[q] = draft[q] /\ HasSteps(draft[q])
    BY <1>1, <2>1 DEF Sending, Only
  <2> QED BY <2>1, <2>2
<1> QED BY <1>1, <1>2 DEF Sending

\* Who is accepted keeps a job, with the steps the job is to take, and what was
\* tried stays tried.
Accepted(q) == Op(q, "send") /\ at[q] = "accepted"
Persists(q) ==
    /\ at'[q] = at[q] /\ draft'[q] = draft[q]
    /\ \A i \in 1 .. Steps : tried[q][i] > 0 => tried'[q][i] > 0
LEMMA JobKept ==
  ASSUME NEW j \in Bookings, Shapes, Sending, Working, UNCHANGED world, job'[j] = job[j],
         \A q \in Asked : Accepted(q) => Persists(q)
  PROVE  JobOK(j)'
<1>1. Asked' = Asked /\ JobOK(j) /\ job'[j] = job[j]
  BY DEF Asked, Working
<1> DEFINE o == job[j].of
<1>2. CASE o = Nobody
  <2>1. StepsOf(j) = <<>> /\ StepsOf(j)' = <<>>
    BY <1>1, <1>2 DEF StepsOf
  <2> QED BY <1>1, <1>2, <2>1 DEF JobOK, Done, Shown
<1>3. CASE o # Nobody
  <2>1. o \in Asked /\ Accepted(o)
    BY <1>1, <1>3 DEF JobOK, Op, Accepted
  <2>2. Persists(o) /\ Op(o, "send") /\ Op(o, "send")' /\ at'[o] = "accepted"
    BY <1>1, <2>1 DEF Persists, Op, Want, Accepted
  <2>3. StepsOf(j)' = StepsOf(j) /\ StepsOf(j) = draft[o].steps
    BY <1>1, <1>3, <2>2 DEF StepsOf, Persists
  <2>4. /\ Len(StepsOf(j)) \in 0 .. Steps /\ DOMAIN StepsOf(j) = 1 .. Len(StepsOf(j))
    BY <2>1, <2>2, <2>3, Sequenced, Bounds DEF Sending, HasSteps
  <2>5. \A i \in DOMAIN StepsOf(j) : (Done(j, i) => Done(j, i)') /\ (tried[o][i] > 0 => tried'[o][i] > 0)
    BY <1>1, <2>2, <2>3, <2>4, Bounds DEF Done, Persists
  <2>6. ASSUME NEW run, Shown(j, run)
        PROVE  Shown(j, run)'
    <3>1. CASE run = <<>>
      BY <3>1 DEF Shown
    <3>2. CASE DOMAIN run = DOMAIN StepsOf(j) /\ \A i \in DOMAIN run : run[i] = "sent" => tried[o][i] > 0
      <4>1. \A i \in DOMAIN run : run[i] = "sent" => tried'[o][i] > 0
        BY <2>5, <3>2, Zenon
      <4> QED BY <1>1, <2>3, <3>2, <4>1 DEF Shown
    <3> QED BY <2>6, <3>1, <3>2 DEF Shown
  <2>7. DOMAIN job'[j] = JobFields /\ (job[j].of # Nobody => Op(job[j].of, "send")' /\ at'[job[j].of] = "accepted")
    BY <1>1, <2>1, <2>2 DEF JobOK
  <2>8. job[j].state \in {"none", "waiting", "active", "completed", "failed"} /\ Shown(j, job[j].progress)'
    BY <1>1, <2>6 DEF JobOK
  <2>9. job[j].state = "active" =>
         /\ DOMAIN job[j].run = DOMAIN StepsOf(j)' /\ Shown(j, job[j].run)'
         /\ job[j].step \in 0 .. Len(StepsOf(j)')
         /\ \A i \in 1 .. job[j].step : Done(j, i)'
    <3> SUFFICES ASSUME job[j].state = "active"
                 PROVE  /\ DOMAIN job[j].run = DOMAIN StepsOf(j)' /\ Shown(j, job[j].run)'
                        /\ job[j].step \in 0 .. Len(StepsOf(j)')
                        /\ \A i \in 1 .. job[j].step : Done(j, i)'
      OBVIOUS
    <3>1. /\ DOMAIN job[j].run = DOMAIN StepsOf(j) /\ Shown(j, job[j].run)
          /\ job[j].step \in 0 .. Len(StepsOf(j)) /\ \A i \in 1 .. job[j].step : Done(j, i)
      BY <1>1 DEF JobOK
    <3>2. \A i \in 1 .. job[j].step : i \in DOMAIN StepsOf(j)
      BY <2>4, <3>1
    <3>3. \A i \in 1 .. job[j].step : Done(j, i)'
      BY <2>5, <3>1, <3>2, Zenon
    <3>4. Shown(j, job[j].run)'
      BY <2>6, <3>1
    <3> QED BY <2>3, <3>1, <3>3, <3>4
  <2>10. job[j].state = "completed" => \A i \in DOMAIN StepsOf(j)' : Done(j, i)'
    <3>1. job[j].state = "completed" => \A i \in DOMAIN StepsOf(j) : Done(j, i)
      BY <1>1 DEF JobOK
    <3> QED BY <2>3, <2>5, <3>1, Zenon
  <2> QED BY <1>1, <1>3, <2>7, <2>8, <2>9, <2>10 DEF JobOK
<1> QED BY <1>2, <1>3

\* A submission that is not accepted has no job.
LEMMA WorkingKept ==
  ASSUME NEW r \in Asked, Shapes, Sending, Working, UNCHANGED <<world, job, tried>>, Only(r),
         ~(Op(r, "send") /\ at[r] = "accepted")
  PROVE  Working'
<1>1. \A q \in Asked : Accepted(q) => Persists(q)
  BY Sound DEF Accepted, Persists, Only
<1>2. \A j \in Bookings : JobOK(j)'
  BY <1>1, JobKept
<1> QED BY <1>2 DEF Working

\* A step of r that is not about its job leaves calendar, sequences and jobs.
LEMMA Elsewhere ==
  ASSUME NEW r \in Asked, IInv, UNCHANGED <<world, cell, confirmation>>, Only(r),
         DOMAIN at' = Requests, Drafts', expired' \subseteq Asked,
         Op(r, "send") => at[r] # "accepted" /\ HasSteps(draft'[r])
  PROVE  Cells' /\ Shapes' /\ Sending' /\ Working'
<1>1. Cells' /\ Shapes'
  BY DEF IInv, Cells, Shapes, Drafts, Asked
<1>2. Sending' /\ Working'
  BY SendingKept, WorkingKept DEF IInv, confirmation
<1> QED BY <1>1, <1>2

LEMMA RowsKept ==
  ASSUME Rows, UNCHANGED row
  PROVE  Rows' /\ \A b \in Bookings : KeepsRef(b) /\ KeepsStay(b)
  BY DEF Rows, KeepsRef, KeepsStay, Exists

\* A step that changes no row, and of the requests only r.
LEMMA NoRowChanges ==
  ASSUME NEW r \in Asked, IInv, UNCHANGED <<world, row, expired>>, Only(r),
         Op(r, "create") => Creating(r)', Op(r, "edit") => EditOK(r)'
  PROVE  Rows' /\ Requested'
<1>1. Rows' /\ \A b \in Bookings : KeepsRef(b) /\ KeepsStay(b)
  BY RowsKept DEF IInv
<1>2. \A q \in Asked : Op(q, "edit") => Target(q) \in Bookings
  BY Asks DEF IInv
<1> QED BY <1>1, <1>2, RequestedKept DEF IInv

LEMMA Going ==
  ASSUME NEW r \in Asked, NEW pc, Shapes, Goto(r, pc)
  PROVE  /\ r \in Requests /\ at'[r] = pc /\ DOMAIN at' = Requests
         /\ \A q \in Requests : q # r => at'[q] = at[q]
  BY Sound DEF Goto, Shapes, Drafts

\* A request that reads, decides and goes on.
LEMMA Decided ==
  ASSUME NEW r \in Asked, NEW pc, IInv, Goto(r, pc), UNCHANGED <<world, row, cell, draft, expired, confirmation>>,
         Op(r, "send") => at[r] # "accepted", Op(r, "create") => Creating(r)', Op(r, "edit") => EditOK(r)'
  PROVE  IInv'
<1>1. Shapes /\ Sending
  BY DEF IInv
<1>2. Only(r) /\ DOMAIN at' = Requests /\ Drafts' /\ expired' \subseteq Asked
  BY <1>1, Going DEF Only, Shapes, Drafts
<1>3. Op(r, "send") => HasSteps(draft'[r])
  BY <1>1 DEF Sending
<1>4. Cells' /\ Shapes' /\ Sending' /\ Working'
  BY <1>2, <1>3, Elsewhere
<1>5. Rows' /\ Requested'
  BY <1>2, NoRowChanges
<1> QED BY <1>4, <1>5 DEF IInv

\* A status put on rows that are there leaves them bookings.
LEMMA Putting ==
  ASSUME NEW S, NEW status \in Status, Rows, Put(S, status)
  PROVE  Rows' /\ \A b \in Bookings : KeepsRef(b) /\ KeepsStay(b)
<1>1. ASSUME NEW b \in Bookings
      PROVE  KeepsRef(b) /\ KeepsStay(b) /\ (row'[b] = NoRow \/ IsRow(row'[b]))
  <2>1. CASE ~(b \in S /\ Exists(b))
    <3>1. row'[b] = row[b]
      BY <2>1 DEF Put
    <3> QED BY <3>1 DEF Rows, KeepsRef, KeepsStay, Exists
  <2>2. CASE b \in S /\ Exists(b)
    <3>1. row'[b] = [row[b] EXCEPT !.status = status] /\ IsRow(row[b])
      BY <2>2 DEF Put, Rows, Exists
    <3>2. IsRow(row'[b]) /\ row'[b].ref = row[b].ref /\ row'[b].ref # 0
      BY <3>1 DEF IsRow, RowFields
    <3>3. Exists(b)'
      BY <3>2 DEF Exists, NoRow
    <3>4. row'[b].hotel = row[b].hotel /\ row'[b].in = row[b].in /\ row'[b].out = row[b].out /\ row'[b].price = row[b].price
      BY <3>1 DEF IsRow, RowFields
    <3> QED BY <2>2, <3>2, <3>3, <3>4 DEF KeepsRef, KeepsStay
  <2> QED BY <2>1, <2>2
<1>2. DOMAIN row' = Bookings
  BY DEF Put
<1> QED BY <1>1, <1>2 DEF Rows, KeepsRef, Exists

-----------------------------------------------------------------------------
(* The calendar, and the requests that only set a status *)

LEMMA UpsertStep ==
  ASSUME IInv, NEW r \in Requests, NEW n \in 1 .. LastNight, Upsert(r, n)
  PROVE  IInv'
<1>1. /\ r \in Asked /\ Want(r).op = "cells" /\ Want(r).rooms \in 0 .. TotalRooms[Want(r).type]
      /\ cell' = [cell EXCEPT ![Want(r).type][n] = Want(r).rooms]
      /\ UNCHANGED <<world, row, expired, confirmation>>
  BY DEF Upsert, Is
<1>2. /\ draft' = [draft EXCEPT ![r].set = @ \cup {n}]
      /\ at' = [at EXCEPT ![r] = IF draft'[r].set = Want(r).nights THEN "done" ELSE "new"]
  BY DEF Upsert, Goto
<1>3. ~Op(r, "create") /\ ~Op(r, "edit") /\ ~Op(r, "send")
  BY <1>1 DEF Op
<1>4. Only(r) /\ DOMAIN at' = Requests /\ Drafts'
  BY <1>2 DEF IInv, Shapes, Drafts, Only
<1>5. Cells'
  <2>1. DOMAIN cell = Types /\ \A t \in Types : DOMAIN cell[t] = 1 .. LastNight
    BY DEF IInv, Cells
  <2>2. DOMAIN cell' = Types /\ \A t \in Types : DOMAIN cell'[t] = 1 .. LastNight
    BY <1>1, <2>1
  <2>3. \A t \in Types, m \in 1 .. LastNight :
          cell'[t][m] = cell[t][m] \/ (t = Want(r).type /\ cell'[t][m] = Want(r).rooms)
    BY <1>1, <2>1
  <2> QED BY <1>1, <2>2, <2>3 DEF IInv, Cells
<1>6. Rows' /\ Requested'
  BY <1>1, <1>3, <1>4, NoRowChanges
<1>7. Sending' /\ Working'
  BY <1>1, <1>3, <1>4, SendingKept, WorkingKept DEF IInv, confirmation
<1>8. Shapes'
  BY <1>1, <1>4 DEF IInv, Shapes, Drafts, Asked
<1> QED BY <1>5, <1>6, <1>7, <1>8 DEF IInv

\* A status is put, and nothing else is written.
LEMMA StatusPut ==
  ASSUME NEW r \in Asked, NEW pc, NEW S, NEW status \in Status, IInv, Put(S, status), Goto(r, pc),
         UNCHANGED <<world, cell, draft, expired, confirmation>>,
         ~Op(r, "create"), ~Op(r, "edit"), Op(r, "send") => at[r] # "accepted"
  PROVE  IInv'
<1>1. Shapes /\ Sending /\ Rows /\ Requested
  BY DEF IInv
<1>2. Only(r) /\ DOMAIN at' = Requests /\ Drafts' /\ expired' \subseteq Asked
  BY <1>1, Going DEF Only, Shapes, Drafts
<1>3. Op(r, "send") => HasSteps(draft'[r])
  BY <1>1 DEF Sending
<1>4. Cells' /\ Shapes' /\ Sending' /\ Working'
  BY <1>2, <1>3, Elsewhere
<1>5. Rows' /\ \A b \in Bookings : KeepsRef(b) /\ KeepsStay(b)
  BY <1>1, Putting
<1>6. \A q \in Asked : Op(q, "edit") => Target(q) \in Bookings
  BY <1>1, Asks
<1>7. Requested'
  BY <1>1, <1>2, <1>5, <1>6, RequestedKept
<1> QED BY <1>4, <1>5, <1>7 DEF IInv

LEMMA SetStatusStep ==
  ASSUME IInv, NEW r \in Requests, SetStatus(r)
  PROVE  IInv'
<1>1. /\ r \in Asked /\ Want(r).op = "status" /\ Put(Want(r).bookings, Want(r).status) /\ Goto(r, "done")
      /\ UNCHANGED <<world, cell, draft, expired, confirmation>>
  BY DEF SetStatus, Is
<1>2. Want(r).status \in Status
  BY <1>1, Sound DEF IInv, MayAsk, Want
<1>3. ~Op(r, "create") /\ ~Op(r, "edit") /\ ~Op(r, "send")
  BY <1>1 DEF Op
<1> QED BY <1>1, <1>2, <1>3, StatusPut

LEMMA CancelStep ==
  ASSUME IInv, NEW r \in Requests, Cancel(r)
  PROVE  IInv'
<1>1. r \in Asked /\ ~Op(r, "create") /\ ~Op(r, "edit") /\ ~Op(r, "send")
  BY DEF Cancel, CancelRead, CancelWrite, Is, Op
<1>2. CASE CancelRead(r)
  <2>1. \E pc : Goto(r, pc) /\ UNCHANGED <<world, row, cell, draft, expired, confirmation>>
    BY <1>2 DEF CancelRead
  <2> QED BY <1>1, <2>1, Decided
<1>3. CASE CancelWrite(r)
  <2>1. Put({Target(r)}, "CANCELLED") /\ Goto(r, "done") /\ UNCHANGED <<world, cell, draft, expired, confirmation>>
    BY <1>3 DEF CancelWrite
  <2>2. "CANCELLED" \in Status
    BY DEF Status
  <2> QED BY <1>1, <2>1, <2>2, StatusPut
<1> QED BY <1>2, <1>3 DEF Cancel

LEMMA ConfirmStep ==
  ASSUME IInv, NEW r \in Requests, Confirm(r)
  PROVE  IInv'
<1>1. r \in Asked /\ ~Op(r, "create") /\ ~Op(r, "edit") /\ ~Op(r, "send")
  BY DEF Confirm, ConfirmRead, ConfirmWrite, Is, Op
<1>2. CASE ConfirmRead(r)
  <2>1. \E pc : Goto(r, pc) /\ UNCHANGED <<world, row, cell, draft, expired, confirmation>>
    BY <1>2 DEF ConfirmRead
  <2> QED BY <1>1, <2>1, Decided
<1>3. CASE ConfirmWrite(r)
  <2>1. Put({Target(r)}, "CONFIRMED") /\ Goto(r, "done") /\ UNCHANGED <<world, cell, draft, expired, confirmation>>
    BY <1>3 DEF ConfirmWrite
  <2>2. "CONFIRMED" \in Status
    BY DEF Status
  <2> QED BY <1>1, <2>1, <2>2, StatusPut
<1> QED BY <1>2, <1>3 DEF Confirm

-----------------------------------------------------------------------------
(* Creations *)

LEMMA CheckRoomsStep ==
  ASSUME IInv, NEW r \in Requests, CheckRooms(r)
  PROVE  IInv'
<1>1. /\ r \in Asked /\ Op(r, "create") /\ ~Op(r, "edit") /\ ~Op(r, "send") /\ at[r] = "new"
      /\ UNCHANGED <<world, row, cell, draft, expired, confirmation>>
  BY DEF CheckRooms, Is, Op
<1>2. PICK pc \in {"checked", "refused"} :
        Goto(r, pc) /\ (pc = "checked" => Stay(Want(r).in, Want(r).out) # {})
  BY DEF CheckRooms
<1>3. Want(r).in \in Nat /\ Want(r).out \in Nat
  BY <1>1, Sound DEF IInv, MayAsk, Want, Op
<1>4. pc = "checked" => Want(r).in < Want(r).out
  BY <1>2, <1>3 DEF Stay
<1>5. at'[r] = pc
  BY <1>2, Going, <1>1 DEF IInv
<1>6. Creating(r)'
  <2>1. ~Exists(Want(r).booking)
    BY <1>1 DEF IInv, Requested, Creating
  <2>2. Want(r)' = Want(r) /\ draft'[r] = draft[r] /\ (Exists(Want(r).booking)' <=> Exists(Want(r).booking))
    BY <1>1 DEF Want, Exists
  <2> QED BY <1>2, <1>4, <1>5, <2>1, <2>2 DEF Creating
<1> QED BY <1>1, <1>2, <1>6, Decided

LEMMA TakeNumberStep ==
  ASSUME IInv, NEW r \in Requests, TakeNumber(r)
  PROVE  IInv'
<1> DEFINE next == 1 + Max(References)
<1>1. /\ r \in Asked /\ Op(r, "create") /\ ~Op(r, "edit") /\ ~Op(r, "send") /\ at[r] = "checked"
      /\ UNCHANGED <<world, row, cell, expired, confirmation>>
  BY DEF TakeNumber, Is, Op
<1>2. draft' = [draft EXCEPT ![r].ref = next] /\ Goto(r, "numbered") /\ ~Numbering(r)
  BY DEF TakeNumber
<1>3. at'[r] = "numbered" /\ DOMAIN at' = Requests /\ \A q \in Requests : q # r => at'[q] = at[q]
  BY <1>1, <1>2, Going DEF IInv
<1>4. /\ Drafts' /\ \A q \in Requests : q # r => draft'[q] = draft[q]
  BY <1>2 DEF IInv, Shapes, Drafts
<1>5. Only(r)
  BY <1>3, <1>4 DEF Only
<1>6. Want(r).booking \in Bookings /\ Creating(r)
  BY <1>1, Asks DEF IInv, Target, Requested
<1>7. next \in Nat \ {0} /\ \A b \in Bookings : row[b].ref < next
  BY <1>6, NextNumber DEF IInv
<1>8. \A b \in Bookings : row[b].ref \in Nat
  BY Refs DEF IInv
<1>9. Creating(r)'
  <2>1. Want(r)' = Want(r) /\ Hotel(r)' = Hotel(r) /\ (Exists(Want(r).booking)' <=> Exists(Want(r).booking)) /\ Asked' = Asked
    BY <1>1 DEF Want, Exists, Hotel, Asked
  <2>2. ~Exists(Want(r).booking) /\ Want(r).in < Want(r).out
    BY <1>1, <1>6 DEF Creating
  <2>3. /\ draft'[r].ref \in Nat \ {0}
        /\ \A b \in Bookings : row[b].ref # draft'[r].ref
    <3>1. draft'[r].ref = next
      BY <1>1, <1>2, <1>6, Sound DEF IInv, Shapes, Drafts, Creating
    <3> HIDE DEF next
    <3> QED BY <1>7, <1>8, <3>1
  <2>4. \A q \in Asked : Is(q, "create", "numbered")' /\ Hotel(q)' = Hotel(r)' => q = r
    <3> SUFFICES ASSUME NEW q \in Asked, Is(q, "create", "numbered")', Hotel(q)' = Hotel(r)', q # r
                 PROVE  FALSE
      OBVIOUS
    <3>1. Is(q, "create", "numbered") /\ Hotel(q) = Hotel(r)
      BY <1>1, <1>3, <2>1, Sound DEF IInv, Is, Want, Hotel, Asked
    <3> QED BY <1>2, <3>1 DEF Numbering
  <2> QED BY <1>1, <2>1, <2>2, <2>3, <2>4 DEF Creating
<1>10. Cells' /\ Shapes' /\ Sending' /\ Working'
  BY <1>1, <1>3, <1>4, <1>5, Elsewhere DEF IInv, Shapes, Drafts, Asked
<1>11. Rows' /\ Requested'
  BY <1>1, <1>5, <1>9, NoRowChanges
<1> QED BY <1>10, <1>11 DEF IInv

\* Who took a number under the lock of its hotel may find it taken by another
\* hotel only.
LEMMA InsertStep ==
  ASSUME IInv, NEW r \in Requests, Insert(r)
  PROVE  IInv'
<1> DEFINE c == Want(r).booking
<1>1. /\ r \in Asked /\ Op(r, "create") /\ ~Op(r, "edit") /\ ~Op(r, "send") /\ at[r] = "numbered"
      /\ UNCHANGED <<world, cell, draft, expired, confirmation>>
  BY DEF Insert, Is, Op
<1>2. c \in Bookings /\ Creating(r) /\ Want(r)' = Want(r) /\ Asked' = Asked /\ draft'[r] = draft[r]
  BY <1>1, Asks DEF IInv, Target, Requested, Want, Asked
<1>3. ~Exists(c)
  BY <1>1, <1>2 DEF Creating
<1>4. CASE draft[r].ref \in References
  <2>1. Goto(r, "clashed") /\ UNCHANGED row
    BY <1>4 DEF Insert
  <2>2. at'[r] = "clashed"
    BY <1>1, <2>1, Going DEF IInv
  <2>3. Creating(r)'
    BY <1>2, <1>3, <2>1, <2>2 DEF Creating, Exists
  <2> QED BY <1>1, <2>1, <2>3, Decided
<1>5. CASE draft[r].ref \notin References
  <2>1. Goto(r, "done") /\ row' = [row EXCEPT ![c] = NewRow(r)]
    BY <1>5 DEF Insert
  <2>2. /\ at'[r] = "done" /\ Only(r) /\ DOMAIN at' = Requests /\ Drafts' /\ expired' \subseteq Asked
    BY <1>1, <2>1, Going DEF IInv, Only, Shapes, Drafts
  <2>3. Cells' /\ Shapes' /\ Sending' /\ Working'
    BY <1>1, <2>2, Elsewhere
  <2>4. DOMAIN row = Bookings
    BY DEF IInv, Rows
  <2>5. /\ DOMAIN row' = Bookings /\ row'[c] = NewRow(r) /\ row[c] = NoRow
        /\ \A b \in Bookings : b # c => row'[b] = row[b]
    BY <1>2, <1>3, <2>1, <2>4 DEF Exists
  <2>6. IsRow(NewRow(r)) /\ NewRow(r).ref = draft[r].ref /\ NewRow(r).hotel = Hotel(r)
    <3>1. Want(r).in \in Nat /\ Want(r).out \in Nat
      BY <1>1, Sound DEF IInv, MayAsk, Want, Op
    <3>2. Want(r).in < Want(r).out /\ draft[r].ref \in Nat \ {0}
      BY <1>1, <1>2 DEF Creating
    <3>3. "PENDING" \in Status
      BY DEF Status
    <3> QED BY <3>1, <3>2, <3>3 DEF NewRow, IsRow, RowFields
  <2>7. NewRow(r) # NoRow /\ row'[c] # NoRow
    BY <2>5, <2>6 DEF IsRow, NoRow
  <2>8. \A b \in Bookings : b # c => KeepsRef(b) /\ KeepsStay(b)
    BY <2>5 DEF KeepsRef, KeepsStay, Exists
  <2>9. Rows'
    <3>1. \A b \in Bookings : row[b].ref # draft[r].ref
      BY <1>5 DEF References
    <3>2. \A b \in Bookings : b # c => row'[b].ref # row'[c].ref
      BY <2>5, <2>6, <3>1
    <3>3. \A b \in Bookings : row'[b] = NoRow \/ IsRow(row'[b])
      BY <2>5, <2>6 DEF IInv, Rows
    <3>4. \A b, d \in Bookings : b # c /\ d # c /\ row'[b] # NoRow /\ row'[d] # NoRow /\ row'[b].ref = row'[d].ref => b = d
      BY <2>5 DEF IInv, Rows, Exists
    <3>5. \A b, d \in Bookings : row'[b] # NoRow /\ row'[d] # NoRow /\ row'[b].ref = row'[d].ref => b = d
      BY <3>2, <3>4
    <3> QED BY <2>5, <3>3, <3>5 DEF Rows, Exists
  <2>10. Creating(r)'
    BY <1>2, <1>3, <2>2 DEF Creating
  <2>11. ASSUME NEW q \in Asked, q # r, Op(q, "create")
         PROVE  Creating(q)'
    <3>1. /\ Want(q).booking \in Bookings /\ Want(q)' = Want(q) /\ Want(q).booking # c /\ Creating(q)
      <4>1. MayAsk(world, r) /\ world.want[r].op = "create" /\ world.want[q].op = "create"
        BY <1>1, <2>11, Sound DEF IInv, Op, Want
      <4>2. Want(q).booking # c
        BY <2>11, <4>1 DEF MayAsk, Want, Asked
      <4> QED BY <1>1, <2>11, <4>2, Asks DEF IInv, Requested, Target, Want
    <3>2. Exists(Want(q).booking)' => Exists(Want(q).booking)
      BY <2>5, <3>1 DEF Exists
    <3>3. at[q] = "numbered" /\ row'[c].ref = draft[q].ref => row'[c].hotel # Hotel(q)
      <4>1. SUFFICES ASSUME at[q] = "numbered", Hotel(q) = Hotel(r) PROVE FALSE
        BY <2>5, <2>6
      <4>2. Is(r, "create", "numbered")
        BY <1>1 DEF Is, Op
      <4> QED BY <1>1, <2>11, <3>1, <4>1, <4>2 DEF Creating
    <3>4. \A b \in Bookings : KeepsRef(b) \/ (at[q] = "numbered" /\ row'[b].ref = draft[q].ref => row'[b].hotel # Hotel(q))
      BY <2>8, <3>3
    <3> QED BY <1>1, <2>2, <2>10, <2>11, <3>2, <3>4, OtherCreations DEF IInv
  <2>12. ASSUME NEW q \in Asked, Op(q, "edit")
         PROVE  EditOK(q)'
    <3>1. Target(q) \in Bookings /\ Target(q)' = Target(q) /\ EditOK(q) /\ q # r
      BY <1>1, <2>12, Asks DEF IInv, Requested, Target, Want
    <3>2. Exists(Target(q)) => Exists(Target(q))'
      BY <1>3, <2>8, <3>1 DEF KeepsRef, Exists
    <3>3. KeepsStay(Target(q)) \/ Outlived(Target(q)) \/ at[q] # "writing"
      BY <1>3, <2>8, <3>1 DEF EditOK
    <3> QED BY <1>1, <2>2, <2>12, <3>1, <3>2, <3>3, OtherEdits DEF IInv
  <2>13. \A q \in Asked : (Op(q, "create") => Creating(q)') /\ (Op(q, "edit") => EditOK(q)')
    BY <2>10, <2>11, <2>12
  <2>14. Requested'
    BY <1>1, <1>2, <2>13 DEF Requested, Op, Want
  <2> QED BY <2>3, <2>9, <2>14 DEF IInv
<1> QED BY <1>4, <1>5

LEMMA CreateStep ==
  ASSUME IInv, NEW r \in Requests, Create(r)
  PROVE  IInv'
  BY CheckRoomsStep, TakeNumberStep, InsertStep DEF Create

-----------------------------------------------------------------------------
(* Edits *)

\* Two edits of a booking are under way only if one of them outlived its lock.
LEMMA Excluded ==
  ASSUME NEW r \in Asked, NEW q \in Asked, r # q, Shapes, Requested, Op(r, "edit"), Op(q, "edit"),
         Target(q) = Target(r), at[r] \in Editing, at[q] \in Editing
  PROVE  Outlived(Target(q))
<1>1. CASE r \in expired \/ q \in expired
  BY <1>1 DEF Outlived
<1>2. CASE r \notin expired /\ q \notin expired
  BY <1>2 DEF Requested, EditOK
<1> QED BY <1>1, <1>2

\* An edit that has its lock keeps it.
LEMMA LockKept ==
  ASSUME NEW r \in Asked, Shapes, Requested, Op(r, "edit"), at[r] \in Editing, UNCHANGED <<world, expired>>,
         \A q \in Requests : q # r => at'[q] = at[q], r \notin expired,
         NEW q \in (Asked \ expired)', Op(q, "edit")', Target(q)' = Target(r)', at'[q] \in Editing
  PROVE  q = r
<1>1. q \in Asked \ expired /\ Op(q, "edit") /\ Target(q) = Target(r) /\ (q # r => at[q] \in Editing)
  BY Sound DEF Op, Target, Want, Asked
<1> QED BY <1>1 DEF Requested, EditOK

LEMMA EditLockStep ==
  ASSUME IInv, NEW r \in Requests, EditLock(r)
  PROVE  IInv'
<1>1. /\ r \in Asked /\ Op(r, "edit") /\ ~Op(r, "create") /\ ~Op(r, "send") /\ at[r] = "new" /\ ~Locked(Target(r))
      /\ Goto(r, "locked") /\ UNCHANGED <<world, row, cell, draft, expired, confirmation>>
  BY DEF EditLock, Is, Op
<1>2. at'[r] = "locked" /\ \A q \in Requests : q # r => at'[q] = at[q]
  BY <1>1, Going DEF IInv
<1>3. \A q \in (Asked \ expired)' : Op(q, "edit")' /\ Target(q)' = Target(r)' /\ at'[q] \in Editing => q = r
  BY <1>1, <1>2, Sound DEF IInv, Locked, Op, Target, Want, Asked
<1>4. EditOK(r)'
  BY <1>2, <1>3 DEF EditOK
<1> QED BY <1>1, <1>4, Decided

LEMMA EditReadStep ==
  ASSUME IInv, NEW r \in Requests, EditRead(r)
  PROVE  IInv'
<1> DEFINE t == Target(r)
           in == Given(r, "in", row[t].in)
           out == Given(r, "out", row[t].out)
<1>1. /\ r \in Asked /\ Op(r, "edit") /\ ~Op(r, "create") /\ ~Op(r, "send") /\ at[r] = "locked"
      /\ UNCHANGED <<world, row, cell, expired, confirmation>>
  BY DEF EditRead, Is, Op
<1>2. t \in Bookings /\ t' = t /\ Want(r)' = Want(r)
  BY <1>1, Asks DEF IInv, Target, Want
<1>3. CASE \E pc : pc = "refused" /\ Goto(r, pc) /\ UNCHANGED draft
  <2>1. at'[r] = "refused" /\ \A q \in Requests : q # r => at'[q] = at[q]
    BY <1>1, <1>3, Going DEF IInv
  <2>2. EditOK(r)'
    BY <2>1 DEF EditOK, Editing
  <2> QED BY <1>1, <1>3, <2>2, Decided
<1>4. CASE \E pc \in {"pricing", "writing"} : \E type, price, todo :
             /\ Exists(t) /\ Stay(in, out) # {} /\ price = Given(r, "price", row[t].price) /\ Goto(r, pc)
             /\ draft' = [draft EXCEPT ![r] = [draft[r] EXCEPT !.in = in, !.out = out, !.type = type, !.price = price, !.todo = todo]]
  <2>0. PICK pc \in {"pricing", "writing"} : \E type, price, todo :
             /\ Exists(t) /\ Stay(in, out) # {} /\ price = Given(r, "price", row[t].price) /\ Goto(r, pc)
             /\ draft' = [draft EXCEPT ![r] = [draft[r] EXCEPT !.in = in, !.out = out, !.type = type, !.price = price, !.todo = todo]]
    BY <1>4
  <2>1. PICK type, price, todo :
             /\ Exists(t) /\ Stay(in, out) # {} /\ price = Given(r, "price", row[t].price) /\ Goto(r, pc)
             /\ draft' = [draft EXCEPT ![r] = [draft[r] EXCEPT !.in = in, !.out = out, !.type = type, !.price = price, !.todo = todo]]
    BY <2>0
  <2>2. at'[r] = pc /\ Only(r) /\ DOMAIN at' = Requests /\ Drafts'
    BY <1>1, <2>1, Going DEF IInv, Only, Shapes, Drafts
  <2>4. draft'[r].in = in /\ draft'[r].out = out /\ draft'[r].price = price
    BY <2>1 DEF IInv, Shapes, Drafts, DraftFields
  <2>5. in \in Int /\ out \in Int /\ in < out
    <3>1. row[t].in \in Int /\ row[t].out \in Int
      BY <1>2, <2>1, Refs DEF IInv, IsRow
    <3>2. \A f \in {"in", "out"} \cap DOMAIN Want(r).sets : Want(r).sets[f] \in Nat
      BY <1>1, Sound DEF IInv, MayAsk, Want, Op
    <3>3. in \in Int /\ out \in Int
      BY <3>1, <3>2 DEF Given
    <3> HIDE DEF in, out
    <3> QED BY <2>1, <3>3 DEF Stay
  <2>6. \A f \in {"in", "out", "price"} \ DOMAIN Want(r).sets : draft'[r][f] = row[t][f]
    BY <2>1, <2>4 DEF Given
  <2>7. EditOK(r)'
    <3>1. at[r] \in Editing
      BY <1>1 DEF Editing
    <3>2. r \notin expired => \A q \in (Asked \ expired)' : Op(q, "edit")' /\ Target(q)' = Target(r)' /\ at'[q] \in Editing => q = r
      BY <1>1, <2>2, <3>1, LockKept DEF IInv, Only
    <3>3. Exists(t)' /\ row'[t] = row[t]
      BY <1>1, <1>2, <2>1 DEF Exists
    <3> HIDE DEF in, out
    <3> QED BY <1>1, <1>2, <2>4, <2>5, <2>6, <3>2, <3>3 DEF EditOK
  <2>8. Cells' /\ Shapes' /\ Sending' /\ Working'
    BY <1>1, <2>2, Elsewhere DEF IInv, Shapes, Drafts, Asked
  <2>9. Rows' /\ Requested'
    BY <1>1, <2>2, <2>7, NoRowChanges
  <2> QED BY <2>8, <2>9 DEF IInv
<1> QED BY <1>1, <1>3, <1>4 DEF EditRead

\* An edit writes the row it has, and is done or goes on.
LEMMA RowWritten ==
  ASSUME IInv, NEW r \in Asked, Op(r, "edit"), at[r] \in {"pricing", "writing"},
         UNCHANGED <<world, cell, expired, confirmation>>,
         DOMAIN row' = Bookings, IsRow(row'[Target(r)]),
         row'[Target(r)].ref = row[Target(r)].ref, row'[Target(r)].hotel = row[Target(r)].hotel,
         \A b \in Bookings : b # Target(r) => row'[b] = row[b],
         Only(r), DOMAIN at' = Requests, Drafts', EditOK(r)'
  PROVE  IInv'
<1>1. /\ Target(r) \in Bookings /\ Exists(Target(r)) /\ ~Op(r, "create") /\ ~Op(r, "send")
      /\ at[r] \in Editing
  BY Asks DEF IInv, Requested, EditOK, Op, Editing
<1>2. Cells' /\ Shapes' /\ Sending' /\ Working'
  BY <1>1, Elsewhere DEF IInv, Shapes, Drafts, Asked
<1>3. row'[Target(r)] # NoRow
  BY DEF IsRow, NoRow
<1>4. \A b \in Bookings : KeepsRef(b) /\ (b # Target(r) => KeepsStay(b))
  BY <1>1, <1>3 DEF KeepsRef, KeepsStay, Exists
<1>5. Rows'
  <2>1. \A b \in Bookings : row'[b] = NoRow \/ IsRow(row'[b])
    BY DEF IInv, Rows
  <2>2. \A b \in Bookings : row'[b].ref = row[b].ref /\ (row'[b] # NoRow <=> row[b] # NoRow)
    BY <1>1, <1>3 DEF Exists
  <2>3. \A b, c \in Bookings : row'[b] # NoRow /\ row'[c] # NoRow /\ row'[b].ref = row'[c].ref => b = c
    BY <2>2 DEF IInv, Rows, Exists
  <2> QED BY <2>1, <2>3 DEF Rows, Exists
<1>6. ASSUME NEW q \in Asked, q # r, Op(q, "edit")
      PROVE  KeepsStay(Target(q)) \/ Outlived(Target(q)) \/ at[q] # "writing"
  <2>1. Target(q) \in Bookings
    BY <1>6, Asks DEF IInv
  <2>2. CASE Target(q) # Target(r)
    BY <1>4, <2>1, <2>2
  <2>3. CASE Target(q) = Target(r) /\ at[q] = "writing"
    <3>1. at[q] \in Editing
      BY <2>3 DEF Editing
    <3> QED BY <1>1, <1>6, <2>3, <3>1, Excluded DEF IInv
  <2> QED BY <2>2, <2>3
<1>7. Requested'
  BY <1>1, <1>4, <1>6, RequestedKept DEF IInv
<1> QED BY <1>2, <1>5, <1>7 DEF IInv

LEMMA EditRoomStep ==
  ASSUME IInv, NEW r \in Requests, EditRoom(r)
  PROVE  IInv'
<1> DEFINE t == Target(r)
<1>1. /\ r \in Asked /\ Op(r, "edit") /\ at[r] = "pricing" /\ UNCHANGED <<world, cell, at, expired, confirmation>>
  BY DEF EditRoom, Is, Op
<1>2. PICK i, todo, price, total :
        /\ row' = [row EXCEPT ![t].rooms[i].price = price, ![t].rooms[i].total = total]
        /\ draft' = [draft EXCEPT ![r].todo = todo]
  BY DEF EditRoom
<1>3. /\ t \in Bookings /\ t' = t /\ Want(r)' = Want(r) /\ Exists(t) /\ EditOK(r) /\ IsRow(row[t])
      /\ DOMAIN row = Bookings
  BY <1>1, Asks, Refs DEF IInv, Target, Want, Requested, EditOK, Rows
<1>4. DOMAIN row' = Bookings /\ \A b \in Bookings : b # t => row'[b] = row[b]
  BY <1>2, <1>3
<1>5. /\ DOMAIN row'[t] = DOMAIN row[t] /\ \A f \in RowFields : f # "rooms" => row'[t][f] = row[t][f]
  BY <1>2, <1>3 DEF IsRow
<1>6. IsRow(row'[t]) /\ row'[t].ref = row[t].ref /\ row'[t].hotel = row[t].hotel
      /\ row'[t].in = row[t].in /\ row'[t].out = row[t].out /\ row'[t].price = row[t].price
  BY <1>3, <1>5 DEF IsRow, RowFields
<1>7. Only(r) /\ DOMAIN at' = Requests /\ Drafts'
  BY <1>1, <1>2 DEF IInv, Shapes, Drafts, Only
<1>8. EditOK(r)'
  <2>1. at'[r] = "pricing" /\ at[r] \in Editing
    BY <1>1 DEF Editing
  <2>2. r \notin expired => \A q \in (Asked \ expired)' : Op(q, "edit")' /\ Target(q)' = Target(r)' /\ at'[q] \in Editing => q = r
    BY <1>1, <2>1, LockKept DEF IInv
  <2>3. Exists(t)'
    BY <1>3, <1>6 DEF Exists, IsRow, NoRow
  <2>4. DOMAIN draft'[r] = DOMAIN draft[r] /\ \A f \in {"in", "out"} : draft'[r][f] = draft[r][f]
    BY <1>1, <1>2, <1>3 DEF IInv, Shapes, Drafts, DraftFields
  <2>5. draft[r].in \in Int /\ draft[r].out \in Int /\ draft[r].in < draft[r].out
    BY <1>1, <1>3 DEF EditOK
  <2> QED BY <1>1, <1>3, <2>1, <2>2, <2>3, <2>4, <2>5 DEF EditOK
<1> QED BY <1>1, <1>4, <1>6, <1>7, <1>8, RowWritten

LEMMA EditGroupStep ==
  ASSUME IInv, NEW r \in Requests, EditGroup(r)
  PROVE  IInv'
<1> DEFINE t == Target(r)
<1>1. /\ r \in Asked /\ Op(r, "edit") /\ at[r] = "pricing" /\ Goto(r, "done")
      /\ UNCHANGED <<world, cell, draft, expired, confirmation>>
  BY DEF EditGroup, Is, Op
<1>2. PICK type, price, total :
        row' = [row EXCEPT ![t] = [row[t] EXCEPT !.in = draft[r].in, !.out = draft[r].out, !.type = type,
                                                 !.price = price, !.total = total]]
  BY DEF EditGroup
<1>3. /\ t \in Bookings /\ EditOK(r) /\ IsRow(row[t]) /\ DOMAIN row = Bookings
  BY <1>1, Asks, Refs DEF IInv, Requested, EditOK, Rows
<1>4. DOMAIN row' = Bookings /\ \A b \in Bookings : b # t => row'[b] = row[b]
  BY <1>2, <1>3
<1>5. draft[r].in \in Int /\ draft[r].out \in Int /\ draft[r].in < draft[r].out
  BY <1>1, <1>3 DEF EditOK
<1>6. IsRow(row'[t]) /\ row'[t].ref = row[t].ref /\ row'[t].hotel = row[t].hotel
  BY <1>2, <1>3, <1>5 DEF IsRow, RowFields
<1>7. at'[r] = "done" /\ Only(r) /\ DOMAIN at' = Requests /\ Drafts'
  BY <1>1, Going DEF IInv, Shapes, Drafts, Only
<1>8. EditOK(r)'
  BY <1>7 DEF EditOK, Editing
<1> QED BY <1>1, <1>4, <1>6, <1>7, <1>8, RowWritten

LEMMA EditSingleStep ==
  ASSUME IInv, NEW r \in Requests, EditSingle(r)
  PROVE  IInv'
<1> DEFINE t == Target(r)
<1>1. /\ r \in Asked /\ Op(r, "edit") /\ at[r] = "writing" /\ Goto(r, "done")
      /\ UNCHANGED <<world, cell, draft, expired, confirmation>>
  BY DEF EditSingle, Is, Op
<1>3. /\ t \in Bookings /\ EditOK(r) /\ IsRow(row[t]) /\ DOMAIN row = Bookings
  BY <1>1, Asks, Refs DEF IInv, Requested, EditOK, Rows
<1>2. PICK type, price, total :
        row' = [row EXCEPT ![t] = [row[t] EXCEPT !.in = draft[r].in, !.out = draft[r].out, !.price = price,
                                                 !.total = total, !.type = type]]
  BY <1>3 DEF EditSingle
<1>4. DOMAIN row' = Bookings /\ \A b \in Bookings : b # t => row'[b] = row[b]
  BY <1>2, <1>3
<1>5. draft[r].in \in Int /\ draft[r].out \in Int /\ draft[r].in < draft[r].out
  BY <1>1, <1>3 DEF EditOK
<1>6. IsRow(row'[t]) /\ row'[t].ref = row[t].ref /\ row'[t].hotel = row[t].hotel
  BY <1>2, <1>3, <1>5 DEF IsRow, RowFields
<1>7. at'[r] = "done" /\ Only(r) /\ DOMAIN at' = Requests /\ Drafts'
  BY <1>1, Going DEF IInv, Shapes, Drafts, Only
<1>8. EditOK(r)'
  BY <1>7 DEF EditOK, Editing
<1> QED BY <1>1, <1>4, <1>6, <1>7, <1>8, RowWritten

LEMMA EditStep ==
  ASSUME IInv, NEW r \in Requests, Edit(r)
  PROVE  IInv'
  BY EditLockStep, EditReadStep, EditRoomStep, EditGroupStep, EditSingleStep DEF Edit

LEMMA EditFailsStep ==
  ASSUME IInv, NEW r \in Requests, EditFails(r)
  PROVE  IInv'
<1>1. /\ r \in Asked /\ Op(r, "edit") /\ ~Op(r, "create") /\ ~Op(r, "send") /\ Goto(r, "failed")
      /\ UNCHANGED <<world, row, cell, draft, expired, confirmation>>
  BY DEF EditFails, Is, Op
<1>2. at'[r] = "failed"
  BY <1>1, Going DEF IInv
<1>3. EditOK(r)'
  BY <1>2 DEF EditOK, Editing
<1> QED BY <1>1, <1>3, Decided

\* An edit that outlives its lock excuses the others.
LEMMA ExpireStep ==
  ASSUME IInv, NEW r \in Requests, Expire(r)
  PROVE  IInv'
<1>1. /\ r \in Asked /\ Op(r, "edit") /\ expired' = expired \cup {r}
      /\ UNCHANGED <<world, row, cell, at, draft, confirmation>>
  BY DEF Expire, Op
<1>2. Only(r) /\ DOMAIN at' = Requests /\ Drafts' /\ expired' \subseteq Asked /\ ~Op(r, "send")
  BY <1>1 DEF IInv, Shapes, Drafts, Only, Op
<1>3. Cells' /\ Shapes' /\ Sending' /\ Working'
  BY <1>1, <1>2, Elsewhere
<1>4. Rows'
  BY <1>1, RowsKept DEF IInv
<1>5. Asked' = Asked /\ \A q : Want(q)' = Want(q) /\ Target(q)' = Target(q) /\ Hotel(q)' = Hotel(q)
  BY <1>1 DEF Asked, Want, Target, Hotel
<1>6. \A q \in Asked : Op(q, "create") => Creating(q)'
  BY <1>1, <1>5 DEF IInv, Requested, Creating, Exists, Is
<1>7. ASSUME NEW q \in Asked, Op(q, "edit")
      PROVE  EditOK(q)'
  <2>1. EditOK(q) /\ (Outlived(Target(q)) => Outlived(Target(q))') /\ (Exists(Target(q))' <=> Exists(Target(q)))
    BY <1>1, <1>5, <1>7 DEF IInv, Requested, Outlived, Exists
  <2> QED BY <1>1, <1>5, <2>1 DEF EditOK, Op
<1>8. Requested'
  BY <1>5, <1>6, <1>7 DEF Requested, Op
<1> QED BY <1>3, <1>4, <1>8 DEF IInv

-----------------------------------------------------------------------------
(* The sequences a hotel keeps *)

\* Nothing but the sequences changes, and r goes on.
LEMMA PlansChanged ==
  ASSUME IInv, NEW r \in Asked, NEW pc, Goto(r, pc), ~Op(r, "create"), ~Op(r, "edit"), ~Op(r, "send"),
         UNCHANGED <<world, row, cell, draft, expired, job, tried, displaced>>,
         IsSequence(plans'), \A p \in ToSet(plans') : HasSteps(p)
  PROVE  IInv'
<1>1. Only(r) /\ DOMAIN at' = Requests /\ Drafts'
  BY Going DEF IInv, Shapes, Drafts, Only
<1>2. Rows' /\ Requested'
  BY <1>1, NoRowChanges
<1>3. Working'
  BY <1>1, WorkingKept DEF IInv
<1>4. Cells' /\ Shapes'
  BY <1>1 DEF IInv, Cells, Shapes, Asked
<1>5. Sending'
  BY DEF IInv, Sending, Op, Want, Asked, ToSet
<1> QED BY <1>2, <1>3, <1>4, <1>5 DEF IInv

LEMMA PlanWriteStep ==
  ASSUME IInv, NEW r \in Requests, PlanWrite(r)
  PROVE  IInv'
<1>1. /\ r \in Asked /\ Want(r).op = "plan" /\ ~Op(r, "create") /\ ~Op(r, "edit") /\ ~Op(r, "send")
      /\ UNCHANGED <<world, row, cell, draft, expired, job, tried, displaced>>
  BY DEF PlanWrite, Is, Op
<1> DEFINE mine == Plan(Want(r).id)
           kept == [i \in DOMAIN plans |->
                      IF i \in mine THEN Planned(r)
                      ELSE [plans[i] EXCEPT !.default = plans[i].default /\ plans[i].id \notin draft[r].cleared]]
<1>2. HasSteps(Want(r)) /\ HasSteps(Planned(r))
  <2>1. HasSteps(Want(r))
    BY <1>1, Sound DEF IInv, MayAsk, Want
  <2> QED BY <2>1 DEF HasSteps, Planned
<1>3. IsSequence(plans) /\ \A i \in DOMAIN plans : HasSteps(plans[i])
  BY DEF IInv, Sending, ToSet
<1>4. Len(plans) \in Nat /\ DOMAIN plans = 1 .. Len(plans)
  BY <1>3, Sequenced
<1>5. \A i \in DOMAIN plans : HasSteps(kept[i])
  BY <1>2, <1>3 DEF HasSteps
<1>6. IsSequence(kept) /\ Len(kept) = Len(plans) /\ DOMAIN kept = 1 .. Len(plans)
  <2>1. kept = [i \in 1 .. Len(plans) |-> kept[i]]
    BY <1>4
  <2> HIDE DEF kept
  <2> QED BY <1>4, <2>1, Lengths
<1>7. CASE Goto(r, "failed") /\ UNCHANGED plans
  BY <1>1, <1>7, PlansChanged DEF IInv, Sending, ToSet
<1>8. CASE Goto(r, "done") /\ plans' = kept
  <2>1. \A p \in ToSet(kept) : HasSteps(p)
    BY <1>4, <1>5, <1>6 DEF ToSet
  <2> HIDE DEF kept
  <2> QED BY <1>1, <1>6, <1>8, <2>1, PlansChanged
<1>9. CASE Goto(r, "done") /\ plans' = Append(kept, Planned(r))
  <2> DEFINE S == ToSet(kept) \cup {Planned(r)}
  <2>1. \A p \in S : HasSteps(p)
    BY <1>2, <1>4, <1>5, <1>6 DEF ToSet
  <2>2. kept \in Seq(S)
    <3> HIDE DEF kept
    <3>1. kept \in Seq(ToSet(kept)) /\ ToSet(kept) \subseteq S
      BY <1>6 DEF IsSequence
    <3> HIDE DEF S
    <3> QED BY <3>1, SeqDef
  <2> HIDE DEF kept
  <2>3. Planned(r) \in S
    OBVIOUS
  <2> HIDE DEF S
  <2>4. plans' \in Seq(S)
    BY <1>9, <2>2, <2>3, AppendProperties
  <2>5. IsSequence(plans') /\ \A p \in ToSet(plans') : HasSteps(p)
    BY <2>1, <2>4, SequenceOf
  <2> QED BY <1>1, <1>9, <2>5, PlansChanged
<1> QED BY <1>7, <1>8, <1>9 DEF PlanWrite

LEMMA DropPlanStep ==
  ASSUME IInv, NEW r \in Requests, DropPlan(r)
  PROVE  IInv'
<1>1. /\ r \in Asked /\ ~Op(r, "create") /\ ~Op(r, "edit") /\ ~Op(r, "send") /\ Goto(r, "done")
      /\ UNCHANGED <<world, row, cell, draft, expired, job, tried, displaced>>
  BY DEF DropPlan, Is, Op
<1> DEFINE S == ToSet(plans)
<1>2. plans \in Seq(S) /\ \A p \in S : HasSteps(p)
  BY DEF IInv, Sending, IsSequence
<1>3. CASE UNCHANGED plans
  BY <1>1, <1>2, <1>3, PlansChanged DEF IInv, Sending, ToSet
<1>4. CASE \E i \in DOMAIN plans : plans' = RemoveAt(plans, i)
  <2>1. PICK i \in DOMAIN plans : plans' = SubSeq(plans, 1, i - 1) \o SubSeq(plans, i + 1, Len(plans))
    BY <1>4 DEF RemoveAt
  <2> HIDE DEF S
  <2>2. Len(plans) \in Nat /\ i \in 1 .. Len(plans)
    BY <1>2, <2>1, LenProperties
  <2>3. SubSeq(plans, 1, i - 1) \in Seq(S) /\ SubSeq(plans, i + 1, Len(plans)) \in Seq(S)
    BY <1>2, <2>2, SubSeqProperties
  <2>4. plans' \in Seq(S)
    BY <2>1, <2>3, ConcatProperties
  <2>5. IsSequence(plans') /\ \A p \in ToSet(plans') : HasSteps(p)
    BY <1>2, <2>4, SequenceOf
  <2> QED BY <1>1, <2>5, PlansChanged
<1> QED BY <1>3, <1>4 DEF DropPlan, Plan

LEMMA KeepStep ==
  ASSUME IInv, NEW r \in Requests, Keep(r)
  PROVE  IInv'
<1>1. r \in Asked /\ ~Op(r, "create") /\ ~Op(r, "edit") /\ ~Op(r, "send")
  BY DEF Keep, PlanCheck, PlanClear, PlanWrite, DropPlan, Is, Op
<1>2. CASE PlanCheck(r)
  <2>1. \E pc : Goto(r, pc) /\ UNCHANGED <<world, row, cell, draft, expired, confirmation>>
    BY <1>2 DEF PlanCheck
  <2> QED BY <1>1, <2>1, Decided
<1>3. CASE PlanClear(r)
  <2>1. /\ Goto(r, "clearing") /\ UNCHANGED <<world, row, cell, expired, confirmation>>
        /\ \E C : draft' = [draft EXCEPT ![r].cleared = C]
    BY <1>3 DEF PlanClear
  <2>2. Only(r) /\ DOMAIN at' = Requests /\ Drafts'
    BY <1>1, <2>1, Going DEF IInv, Shapes, Drafts, Only
  <2>3. Cells' /\ Shapes' /\ Sending' /\ Working'
    BY <1>1, <2>1, <2>2, Elsewhere DEF IInv, Shapes, Drafts, Asked
  <2>4. Rows' /\ Requested'
    BY <1>1, <2>1, <2>2, NoRowChanges
  <2> QED BY <2>3, <2>4 DEF IInv
<1> QED BY <1>2, <1>3, PlanWriteStep, DropPlanStep DEF Keep

-----------------------------------------------------------------------------
(* Submissions *)

\* What the staff are shown has no more steps than a confirmation may have.
LEMMA PreviewSteps ==
  ASSUME Sending, NEW channel, NEW type, NEW available
  PROVE  \E n \in 0 .. Steps : DOMAIN ConfirmationPreview(plans, channel, type, available) = 1 .. n
<1> DEFINE plan == ResolveConfirmationSequence(plans, channel, type)
           kinds == ConfirmationPreview(plans, channel, type, available)
<1> SUFFICES \E n \in 0 .. Steps : DOMAIN kinds = 1 .. n
  OBVIOUS
<1>1. DOMAIN plans \in SUBSET Nat
  BY Sequenced DEF Sending
<1>2. \A S \in SUBSET DOMAIN plans : S # {} => Min(S) \in S
  <2> SUFFICES ASSUME NEW S \in SUBSET DOMAIN plans, S # {} PROVE Min(S) \in S
    OBVIOUS
  <2>1. \E x \in S : \A y \in S : x <= y
    BY <1>1, Least
  <2> QED BY <2>1 DEF Min
<1>3. plan = {} \/ \E i \in DOMAIN plans : plan = {plans[i]}
  BY <1>2 DEF ResolveConfirmationSequence
<1>4. CASE plan = {}
  <2>1. kinds = <<>> \/ \E kind : kinds = <<kind>>
    BY <1>4 DEF ConfirmationPreview, Legacy
  <2>2. DOMAIN kinds = 1 .. 0 \/ DOMAIN kinds = 1 .. 1
    BY <2>1
  <2>3. 0 \in 0 .. Steps /\ 1 \in 0 .. Steps
    BY Bounds
  <2> HIDE DEF kinds
  <2> QED BY <2>2, <2>3
<1>5. CASE \E i \in DOMAIN plans : plan = {plans[i]}
  <2>1. PICK i \in DOMAIN plans : plan = {plans[i]}
    BY <1>5
  <2>2. kinds = Delivered(plans[i].steps)
    BY <2>1 DEF ConfirmationPreview
  <2>3. HasSteps(plans[i])
    BY DEF Sending, ToSet
  <2>4. Len(plans[i].steps) \in 0 .. Steps /\ DOMAIN plans[i].steps = 1 .. Len(plans[i].steps)
    BY <2>3, Sequenced, Bounds DEF HasSteps
  <2>5. DOMAIN kinds = DOMAIN plans[i].steps
    BY <2>2 DEF Delivered
  <2> QED BY <2>4, <2>5
<1> QED BY <1>3, <1>4, <1>5

LEMMA PreviewStep ==
  ASSUME IInv, NEW r \in Requests, Preview(r)
  PROVE  IInv'
<1> DEFINE kinds == ConfirmationPreview(plans, world.channel, row[Target(r)].type, world.available)
           steps == [i \in DOMAIN kinds |-> [kind |-> kinds[i], skip |-> i \in Want(r).skip]]
<1>1. /\ r \in Asked /\ ~Op(r, "create") /\ ~Op(r, "edit") /\ Op(r, "send") /\ at[r] = "new" /\ Goto(r, "previewed")
      /\ draft' = [draft EXCEPT ![r].steps = steps] /\ UNCHANGED <<world, row, cell, expired, confirmation>>
  BY DEF Preview, Is, Op
<1>2. PICK n \in 0 .. Steps : DOMAIN kinds = 1 .. n
  BY PreviewSteps DEF IInv
<1>3. IsSequence(steps) /\ Len(steps) = n
  <2>1. steps = [i \in 1 .. n |-> steps[i]] /\ n \in Nat
    BY <1>2, Bounds
  <2> HIDE DEF steps
  <2> QED BY <2>1, Lengths
<1> HIDE DEF steps
<1>4. Only(r) /\ DOMAIN at' = Requests /\ Drafts' /\ draft'[r].steps = steps /\ "steps" \in DOMAIN draft'[r]
  BY <1>1, Going DEF IInv, Shapes, Drafts, Only, DraftFields
<1>5. HasSteps(draft'[r])
  BY <1>2, <1>3, <1>4, Bounds DEF HasSteps
<1>6. Cells' /\ Shapes' /\ Sending' /\ Working'
  BY <1>1, <1>4, <1>5, Elsewhere DEF IInv, Shapes, Drafts, Asked
<1>7. Rows' /\ Requested'
  BY <1>1, <1>4, NoRowChanges
<1> QED BY <1>6, <1>7 DEF IInv

\* One job changes, in the hands of the worker or of a submission.
LEMMA JobChanged ==
  ASSUME IInv, NEW j \in Bookings, UNCHANGED <<world, row, cell, draft, expired, plans>>,
         DOMAIN job' = Bookings, \A i \in Bookings : i # j => job'[i] = job[i], JobOK(j)',
         DOMAIN tried' = Requests, \A q \in Requests : tried'[q] \in [1 .. Steps -> Nat],
         \A q \in Requests, s \in 1 .. Steps : tried[q][s] > 0 => tried'[q][s] > 0,
         \A q \in Asked : Accepted(q) => at'[q] = at[q]
  PROVE  Sending' /\ Working' /\ Cells' /\ Rows'
<1>1. Shapes /\ Sending /\ Working /\ Asked' = Asked /\ Asked \subseteq Requests
  BY Sound DEF IInv, Asked
<1>2. \A q \in Asked : Accepted(q) => Persists(q)
  BY <1>1 DEF Persists
<1>3. \A i \in Bookings : JobOK(i)'
  BY <1>1, <1>2, JobKept
<1>4. Working'
  BY <1>3 DEF Working
<1>5. Sending'
  BY <1>1 DEF Sending, Op, Want
<1>6. Rows' /\ Cells'
  BY RowsKept DEF IInv, Cells
<1> QED BY <1>4, <1>5, <1>6

\* A job that is gone claims nothing.
LEMMA NoJobOK ==
  ASSUME NEW j, job'[j] = NoJob
  PROVE  JobOK(j)'
<1>1. StepsOf(j)' = <<>>
  BY DEF StepsOf, NoJob
<1> QED BY <1>1 DEF JobOK, NoJob, JobFields, Shown

\* A submission changes the job of its booking, and goes on.
LEMMA Submitted ==
  ASSUME IInv, NEW r \in Asked, NEW pc, NEW j \in Bookings, Op(r, "send"), at[r] # "accepted", Goto(r, pc),
         UNCHANGED <<world, row, cell, draft, expired, plans, tried>>,
         DOMAIN job' = Bookings, \A i \in Bookings : i # j => job'[i] = job[i], JobOK(j)'
  PROVE  IInv'
<1>1. ~Op(r, "create") /\ ~Op(r, "edit")
  BY DEF Op
<1>2. Only(r) /\ DOMAIN at' = Requests
  BY Going DEF IInv, Only
<1>3. \A q \in Asked : Accepted(q) => at'[q] = at[q]
  BY <1>2, Sound DEF Accepted, Only, IInv
<1>4. DOMAIN tried' = Requests /\ \A q \in Requests : tried'[q] \in [1 .. Steps -> Nat]
  BY DEF IInv, Sending
<1>5. Sending' /\ Working' /\ Cells' /\ Rows'
  BY <1>3, <1>4, JobChanged
<1>6. Requested'
  BY <1>1, <1>2, NoRowChanges
<1>7. Shapes'
  BY <1>2 DEF IInv, Shapes, Drafts, Asked
<1> QED BY <1>5, <1>6, <1>7 DEF IInv

LEMMA SubmitStep ==
  ASSUME IInv, NEW r \in Requests, Submit(r)
  PROVE  IInv'
<1>1. r \in Asked /\ Op(r, "send") /\ ~Op(r, "create") /\ ~Op(r, "edit") /\ at[r] # "accepted"
  BY DEF Submit, Preview, SendCheck, SendRemove, SendConfirm, SendAdd, Is, Op
<1>2. PICK j \in Bookings : j = Target(r)
  BY <1>1, Asks DEF IInv
<1>3. DOMAIN job = Bookings
  BY DEF IInv, Working
<1>4. CASE SendCheck(r)
  <2>1. \E pc : Goto(r, pc) /\ UNCHANGED <<world, row, cell, draft, expired, confirmation>>
    BY <1>4 DEF SendCheck
  <2> QED BY <1>1, <2>1, Decided
<1>5. CASE SendRemove(r)
  <2>1. /\ Goto(r, "confirming") /\ UNCHANGED <<world, row, cell, draft, expired, plans, tried>>
        /\ job' = [job EXCEPT ![j] = IF job[j].state = "active" THEN job[j] ELSE NoJob]
    BY <1>2, <1>5 DEF SendRemove, JobId
  <2>2. /\ DOMAIN job' = Bookings /\ (\A i \in Bookings : i # j => job'[i] = job[i])
        /\ (job'[j] = job[j] \/ job'[j] = NoJob)
    BY <1>3, <2>1
  <2>3. JobOK(j)'
    <3>1. CASE job'[j] = NoJob
      BY <2>2, <3>1, NoJobOK
    <3>2. CASE job'[j] = job[j]
      <4>1. \A q \in Asked : Accepted(q) => Persists(q)
        BY <1>1, <2>1, Going, Sound DEF IInv, Accepted, Persists
      <4> QED BY <2>1, <3>2, <4>1, JobKept DEF IInv
    <3> QED BY <2>2, <3>1, <3>2
  <2> QED BY <1>1, <2>1, <2>2, <2>3, Submitted
<1>6. CASE SendConfirm(r)
  <2>1. Put({Target(r)}, "CONFIRMED") /\ Goto(r, "adding") /\ UNCHANGED <<world, cell, draft, expired, confirmation>>
    BY <1>6 DEF SendConfirm
  <2>2. "CONFIRMED" \in Status
    BY DEF Status
  <2> QED BY <1>1, <2>1, <2>2, StatusPut
<1>7. CASE SendAdd(r)
  <2>1. UNCHANGED <<world, row, cell, draft, expired, plans, tried, displaced>>
    BY <1>7 DEF SendAdd
  <2>2. CASE Goto(r, "ignored") /\ UNCHANGED job
    <3>1. UNCHANGED <<world, row, cell, draft, expired, confirmation>>
      BY <2>1, <2>2 DEF confirmation
    <3> QED BY <1>1, <2>2, <3>1, Decided
  <2>3. CASE Goto(r, "accepted") /\ job' = [job EXCEPT ![j] = [NoJob EXCEPT !.state = "waiting", !.of = r]]
    <3>1. /\ DOMAIN job' = Bookings /\ (\A i \in Bookings : i # j => job'[i] = job[i])
          /\ job'[j] = [NoJob EXCEPT !.state = "waiting", !.of = r]
      BY <1>3, <2>1, <2>3
    <3>2. at'[r] = "accepted" /\ Op(r, "send")' /\ r # Nobody
      BY <1>1, <2>1, <2>3, Going, Bounds DEF IInv, Op, Want, Asked
    <3>3. /\ DOMAIN job'[j] = JobFields /\ job'[j].of = r /\ job'[j].state = "waiting" /\ job'[j].progress = <<>>
      BY <3>1 DEF NoJob, JobFields
    <3>5. JobOK(j)'
      BY <3>1, <3>2, <3>3 DEF JobOK, Shown
    <3> QED BY <1>1, <2>1, <2>3, <3>1, <3>5, Submitted
  <2> QED BY <1>2, <1>7, <2>2, <2>3 DEF SendAdd, JobId
<1> QED BY <1>4, <1>5, <1>6, <1>7, PreviewStep DEF Submit

LEMMA SendFailsStep ==
  ASSUME IInv, NEW r \in Requests, SendFails(r)
  PROVE  IInv'
<1>1. /\ r \in Asked /\ ~Op(r, "create") /\ ~Op(r, "edit") /\ at[r] # "accepted" /\ Goto(r, "failed")
      /\ UNCHANGED <<world, row, cell, draft, expired, confirmation>>
  BY DEF SendFails, Is, Op
<1> QED BY <1>1, Decided

-----------------------------------------------------------------------------
(* The worker *)

\* What is known of the requests does not depend on the jobs.
LEMMA RequestsUntouched ==
  ASSUME Requested, Shapes, UNCHANGED <<world, row, at, draft, expired>>
  PROVE  Requested' /\ Shapes'
<1>1. Shapes'
  BY DEF Shapes, Drafts, Asked
<1>2. /\ Asked' = Asked
      /\ \A r : Want(r)' = Want(r) /\ Target(r)' = Target(r) /\ Hotel(r)' = Hotel(r)
      /\ \A b : Exists(b)' = Exists(b)
  BY DEF Asked, Want, Target, Hotel, Exists
<1>3. \A r \in Asked : Creating(r) => Creating(r)'
  BY <1>2 DEF Creating, Is
<1>4. \A r \in Asked : EditOK(r) => EditOK(r)'
  BY <1>2 DEF EditOK, Outlived, Op
<1> QED BY <1>1, <1>2, <1>3, <1>4 DEF Requested, Op

\* What the worker does to a job is seen by that job only.
LEMMA Worked ==
  ASSUME IInv, NEW j \in Bookings, UNCHANGED <<world, row, cell, at, draft, expired, plans, tried>>,
         DOMAIN job' = Bookings, \A i \in Bookings : i # j => job'[i] = job[i], JobOK(j)'
  PROVE  IInv'
<1>1. DOMAIN tried' = Requests /\ \A q \in Requests : tried'[q] \in [1 .. Steps -> Nat]
  BY DEF IInv, Sending
<1>2. Sending' /\ Working' /\ Cells' /\ Rows'
  BY <1>1, JobChanged
<1>3. Requested' /\ Shapes'
  BY RequestsUntouched DEF IInv
<1> QED BY <1>2, <1>3 DEF IInv

\* A job in the hands of the worker is an accepted submission's.
LEMMA Owned ==
  ASSUME IInv, NEW j \in Bookings, job[j].of # Nobody
  PROVE  LET o == job[j].of
         IN  /\ o \in Asked /\ o \in Requests /\ Accepted(o) /\ StepsOf(j) = draft[o].steps
             /\ Len(StepsOf(j)) \in 0 .. Steps /\ DOMAIN StepsOf(j) = 1 .. Len(StepsOf(j))
             /\ DOMAIN job = Bookings /\ JobOK(j)
<1> DEFINE o == job[j].of
<1>1. DOMAIN job = Bookings /\ JobOK(j)
  BY DEF IInv, Working
<1>2. o \in Asked /\ Accepted(o) /\ o \in Requests
  BY <1>1, Sound DEF IInv, JobOK, Op, Accepted
<1>3. StepsOf(j) = draft[o].steps
  BY DEF StepsOf
<1>4. HasSteps(draft[o])
  BY <1>2 DEF IInv, Sending, Accepted
<1>5. Len(StepsOf(j)) \in 0 .. Steps /\ DOMAIN StepsOf(j) = 1 .. Len(StepsOf(j))
  BY <1>3, <1>4, Sequenced, Bounds DEF HasSteps
<1> QED BY <1>1, <1>2, <1>3, <1>5

LEMMA TakeStep ==
  ASSUME IInv, NEW j \in Bookings, Take(j)
  PROVE  IInv'
<1>1. job[j].state = "waiting" /\ UNCHANGED <<world, row, cell, at, draft, expired, plans, tried>>
  BY DEF Take
<1>2. PICK o, s, old, pending : /\ o = job[j].of /\ s = StepsOf(j) /\ old = job[j].progress
                                /\ pending = [i \in DOMAIN StepsOf(j) |-> "pending"]
  OBVIOUS
<1>3. DOMAIN job = Bookings /\ JobOK(j) /\ o # Nobody
  BY <1>1, <1>2 DEF IInv, Working, JobOK
<1>4. PICK v : /\ job' = [job EXCEPT ![j] = v]
               /\ \/ v = [job[j] EXCEPT !.state = "active", !.step = 0, !.run = pending, !.progress = pending]
                  \/ v = [job[j] EXCEPT !.state = "active", !.step = 0, !.run = pending]
  BY <1>2 DEF Take
<1>5. DOMAIN job' = Bookings /\ job'[j] = v /\ \A i \in Bookings : i # j => job'[i] = job[i]
  BY <1>3, <1>4
<1>6. /\ DOMAIN v = JobFields /\ v.of = o /\ v.state = "active" /\ v.step = 0 /\ v.run = pending
      /\ v.progress = pending \/ v.progress = old
  BY <1>2, <1>3, <1>4 DEF JobOK, JobFields
<1>7. Accepted(o) /\ StepsOf(j) = draft[o].steps /\ Len(s) \in 0 .. Steps
  BY <1>2, <1>3, Owned
<1>8. StepsOf(j)' = s
  BY <1>1, <1>2, <1>3, <1>5, <1>6, <1>7 DEF StepsOf
<1>9. Op(o, "send")' /\ at'[o] = "accepted"
  BY <1>1, <1>7 DEF Accepted, Op, Want, Asked
<1>10. Shown(j, pending)'
  <2>1. DOMAIN pending = DOMAIN s /\ \A i \in DOMAIN pending : pending[i] # "sent"
    BY <1>2
  <2> QED BY <1>8, <2>1 DEF Shown
<1>11. Shown(j, old)'
  <2>1. Shown(j, old)
    BY <1>2, <1>3 DEF JobOK
  <2> QED BY <1>1, <1>2, <1>5, <1>6, <1>8, <2>1 DEF Shown
<1>12. JobOK(j)'
  <2>1. DOMAIN pending = DOMAIN s
    BY <1>2
  <2>2. 0 \in 0 .. Len(s) /\ 1 .. 0 = {}
    BY <1>7, Bounds
  <2> QED BY <1>3, <1>5, <1>6, <1>8, <1>9, <1>10, <1>11, <2>1, <2>2 DEF JobOK
<1> QED BY <1>1, <1>5, <1>12, Worked

\* The worker's step: what it notes of the step at hand is true, and it goes on
\* past a step that was tried or left out only.
LEMMA Noted ==
  ASSUME NEW j \in Bookings, NEW step, NEW result \in {"skipped", "sending", "sent", "failed"}, NEW o, NEW c,
         IInv, job[j].state = "active", Persevere(j),
         Proceed(j, step, [job[j].run EXCEPT ![Current(j)] = result]),
         UNCHANGED <<world, row, cell, at, draft, expired, plans>>,
         DOMAIN tried' = Requests, \A q \in Requests : tried'[q] \in [1 .. Steps -> Nat],
         \A q \in Requests, i \in 1 .. Steps : tried[q][i] > 0 => tried'[q][i] > 0,
         o = job[j].of, c = Current(j),
         step = job[j].step \/ (step = job[j].step + 1 /\ (StepsOf(j)[c].skip \/ tried'[o][c] > 0)),
         result = "sent" => tried'[o][c] > 0
  PROVE  IInv'
<1>1. PICK s, old, before, run :
        /\ s = StepsOf(j) /\ old = job[j].progress /\ before = job[j].run
        /\ run = [job[j].run EXCEPT ![c] = result]
  OBVIOUS
<1>2. DOMAIN job = Bookings /\ JobOK(j) /\ o # Nobody
  BY DEF IInv, Working, JobOK
<1>3. o \in Requests /\ Accepted(o) /\ Len(s) \in 0 .. Steps /\ DOMAIN s = 1 .. Len(s) /\ s = draft[o].steps
  BY <1>1, <1>2, Owned
<1>4. PICK v : /\ job' = [job EXCEPT ![j] = v]
               /\ \/ v = [job[j] EXCEPT !.step = step, !.run = run, !.progress = run]
                  \/ v = [job[j] EXCEPT !.step = step, !.run = run]
  BY <1>1, <1>2 DEF Proceed
<1>5. DOMAIN job' = Bookings /\ job'[j] = v /\ \A i \in Bookings : i # j => job'[i] = job[i]
  BY <1>2, <1>4
<1>6. /\ DOMAIN v = JobFields /\ v.of = o /\ v.state = "active" /\ v.step = step /\ v.run = run
      /\ v.progress = run \/ v.progress = old
  BY <1>1, <1>2, <1>4 DEF JobOK, JobFields
<1>7. /\ DOMAIN before = DOMAIN s /\ Shown(j, before) /\ Shown(j, old)
      /\ job[j].step \in 0 .. Len(s) /\ \A i \in 1 .. job[j].step : Done(j, i)
  BY <1>1, <1>2 DEF JobOK
<1>8. PICK m : m = job[j].step
  OBVIOUS
<1>9. m \in Nat /\ Len(s) \in Nat /\ c \in 1 .. Len(s) /\ c = m + 1 /\ step \in 0 .. Len(s) /\ step \in {m, m + 1}
  <2>1. m < Len(s)
    BY <1>1, <1>8 DEF Persevere
  <2>2. m \in Nat /\ Len(s) \in Nat /\ c = m + 1
    BY <1>3, <1>7, <1>8, Bounds DEF Current
  <2>3. step = m \/ step = m + 1
    BY <1>8
  <2> QED BY <2>1, <2>2, <2>3
<1>10. StepsOf(j)' = s
  BY <1>2, <1>3, <1>5, <1>6 DEF StepsOf
<1>11. \A i \in DOMAIN s : tried[o][i] > 0 => tried'[o][i] > 0
  BY <1>3, Bounds
<1>12. job'[j].of = o /\ Op(o, "send")' /\ at'[o] = "accepted"
  BY <1>3, <1>5, <1>6 DEF Accepted, Op, Want, Asked
<1>13. DOMAIN run = DOMAIN s /\ run[c] = result /\ \A i \in DOMAIN s : i # c => run[i] = before[i]
  BY <1>1, <1>3, <1>7, <1>9
<1>14. Shown(j, run)'
  <2>1. ASSUME NEW i \in DOMAIN s, run[i] = "sent"
        PROVE  tried'[o][i] > 0
    <3>1. CASE i = c
      BY <1>13, <2>1, <3>1
    <3>2. CASE i # c
      <4>1. before[i] = "sent" /\ before # <<>>
        BY <1>7, <1>13, <2>1, <3>2
      <4>2. tried[o][i] > 0
        BY <1>7, <2>1, <4>1 DEF Shown
      <4> QED BY <1>11, <2>1, <4>2
    <3> QED BY <3>1, <3>2
  <2> QED BY <1>10, <1>12, <1>13, <2>1 DEF Shown
<1>15. Shown(j, old)'
  <2>1. CASE old = <<>>
    BY <2>1 DEF Shown
  <2>2. CASE DOMAIN old = DOMAIN s /\ \A i \in DOMAIN s : old[i] = "sent" => tried[o][i] > 0
    <3>1. \A i \in DOMAIN s : old[i] = "sent" => tried'[o][i] > 0
      BY <1>11, <2>2
    <3> QED BY <1>10, <1>12, <2>2, <3>1 DEF Shown
  <2> QED BY <1>1, <1>7, <2>1, <2>2 DEF Shown
<1>16. \A i \in 1 .. step : Done(j, i)'
  <2>0. SUFFICES ASSUME NEW i \in 1 .. step PROVE s[i].skip \/ tried'[o][i] > 0
    BY <1>10, <1>12 DEF Done
  <2>1. i \in DOMAIN s /\ i \in Nat
    BY <1>3, <1>9
  <2>2. CASE i \in 1 .. m
    <3>1. s[i].skip \/ tried[o][i] > 0
      BY <1>1, <1>7, <1>8, <2>2 DEF Done
    <3> QED BY <1>11, <2>1, <3>1
  <2>3. CASE i \notin 1 .. m
    <3>1. step = m + 1 /\ i = c /\ step # m
      BY <1>9, <2>0, <2>1, <2>3
    <3> QED BY <1>1, <1>8, <3>1
  <2> QED BY <2>2, <2>3
<1>17. JobOK(j)'
  <2>1. Shown(j, v.progress)'
    BY <1>6, <1>14, <1>15
  <2> QED BY <1>2, <1>5, <1>6, <1>9, <1>10, <1>12, <1>13, <1>14, <1>16, <2>1 DEF JobOK
<1>18. Sending' /\ Working' /\ Cells' /\ Rows'
  BY <1>5, <1>17, JobChanged
<1>19. Requested' /\ Shapes'
  BY RequestsUntouched DEF IInv
<1> QED BY <1>18, <1>19 DEF IInv

LEMMA WorkStep ==
  ASSUME IInv, NEW j \in Bookings, Work(j)
  PROVE  IInv'
<1>1. PICK o, c, m : o = job[j].of /\ c = Current(j) /\ m = job[j].step
  OBVIOUS
<1>2. DOMAIN tried = Requests /\ \A q \in Requests : tried[q] \in [1 .. Steps -> Nat]
  BY DEF IInv, Sending
<1>3. DOMAIN job = Bookings /\ JobOK(j)
  BY DEF IInv, Working
<1>4. CASE SkipStep(j)
  <2>1. /\ job[j].state = "active" /\ Persevere(j) /\ StepsOf(j)[c].skip
        /\ Proceed(j, m + 1, [job[j].run EXCEPT ![Current(j)] = "skipped"])
        /\ UNCHANGED <<world, row, cell, at, draft, expired, plans, tried>>
    BY <1>1, <1>4 DEF SkipStep
  <2> QED BY <1>1, <1>2, <2>1, Noted
<1>5. CASE BeginStep(j)
  <2>1. /\ job[j].state = "active" /\ Persevere(j)
        /\ Proceed(j, m, [job[j].run EXCEPT ![Current(j)] = "sending"])
        /\ UNCHANGED <<world, row, cell, at, draft, expired, plans, tried>>
    BY <1>1, <1>5 DEF BeginStep
  <2> QED BY <1>1, <1>2, <2>1, Noted
<1>6. CASE SendStep(j)
  <2>1. PICK result \in {"sent", "failed"} : Proceed(j, m + 1, [job[j].run EXCEPT ![Current(j)] = result])
    BY <1>1, <1>6 DEF SendStep
  <2>2. /\ job[j].state = "active" /\ Persevere(j) /\ tried' = [tried EXCEPT ![o][c] = tried[o][c] + 1]
        /\ UNCHANGED <<world, row, cell, at, draft, expired, plans>>
    BY <1>1, <1>6 DEF SendStep
  <2>3. o # Nobody
    BY <1>1, <1>3, <2>2 DEF JobOK
  <2>4. o \in Requests /\ Len(StepsOf(j)) \in 0 .. Steps
    BY <1>1, <2>3, Owned
  <2>5. c \in 1 .. Steps
    <3>1. m \in 0 .. Len(StepsOf(j)) /\ m < Len(StepsOf(j))
      BY <1>1, <1>3, <2>2 DEF JobOK, Persevere
    <3> QED BY <1>1, <2>4, <3>1, Bounds DEF Current
  <2>6. PICK n \in Nat : n = tried[o][c]
    BY <1>2, <2>4, <2>5
  <2>7. /\ DOMAIN tried' = Requests /\ tried'[o] = [tried[o] EXCEPT ![c] = n + 1]
        /\ \A q \in Requests : q # o => tried'[q] = tried[q]
    BY <1>2, <2>2, <2>4, <2>6
  <2>8. n + 1 \in Nat /\ n + 1 > 0
    OBVIOUS
  <2>9. tried'[o] \in [1 .. Steps -> Nat] /\ tried'[o][c] > 0 /\ \A i \in 1 .. Steps : i # c => tried'[o][i] = tried[o][i]
    BY <1>2, <2>4, <2>5, <2>7, <2>8
  <2>10. \A q \in Requests : tried'[q] \in [1 .. Steps -> Nat]
    BY <1>2, <2>7, <2>9
  <2>11. ASSUME NEW q \in Requests, NEW i \in 1 .. Steps, tried[q][i] > 0
         PROVE  tried'[q][i] > 0
    BY <2>7, <2>9, <2>11
  <2>12. UNCHANGED <<world, row, cell, at, draft, expired, plans>> /\ DOMAIN tried' = Requests /\ job[j].state = "active"
    BY <2>2, <2>7
  <2>13. \A q \in Requests, i \in 1 .. Steps : tried[q][i] > 0 => tried'[q][i] > 0
    BY <2>11
  <2>14. Persevere(j) /\ result \in {"skipped", "sending", "sent", "failed"}
    BY <2>2
  <2>15. PICK step : step = m + 1
    OBVIOUS
  <2>16. step = job[j].step + 1 /\ Proceed(j, step, [job[j].run EXCEPT ![Current(j)] = result])
    BY <1>1, <2>1, <2>15
  <2>17. tried'[o][c] > 0 /\ o = job[j].of /\ c = Current(j)
    BY <1>1, <2>9
  <2> QED BY <2>10, <2>12, <2>13, <2>14, <2>16, <2>17, Noted
<1>7. CASE Finish(j)
  <2>1. /\ job[j].state = "active" /\ ~Persevere(j) /\ job' = [job EXCEPT ![j] = [job[j] EXCEPT !.state = "completed"]]
        /\ UNCHANGED <<world, row, cell, at, draft, expired, plans, tried>>
    BY <1>7 DEF Finish
  <2>2. PICK v, s, old : v = [job[j] EXCEPT !.state = "completed"] /\ s = StepsOf(j) /\ old = job[j].progress
    OBVIOUS
  <2>3. DOMAIN job' = Bookings /\ job'[j] = v /\ \A i \in Bookings : i # j => job'[i] = job[i]
    BY <1>3, <2>1, <2>2
  <2>4. DOMAIN v = JobFields /\ v.of = o /\ v.state = "completed" /\ v.progress = old
    BY <1>1, <1>3, <2>2 DEF JobOK, JobFields
  <2>5. o # Nobody
    BY <1>1, <1>3, <2>1 DEF JobOK
  <2>6. o \in Requests /\ Accepted(o) /\ Len(s) \in 0 .. Steps /\ DOMAIN s = 1 .. Len(s) /\ s = draft[o].steps
    BY <1>1, <2>2, <2>5, Owned
  <2>7. StepsOf(j)' = s /\ Op(o, "send")' /\ at'[o] = "accepted"
    BY <2>1, <2>3, <2>4, <2>5, <2>6 DEF StepsOf, Accepted, Op, Want, Asked
  <2>8. m \in 0 .. Len(s) /\ ~(m < Len(s)) /\ Shown(j, old) /\ \A i \in 1 .. m : Done(j, i)
    BY <1>1, <1>3, <2>1, <2>2 DEF JobOK, Persevere
  <2>9. m = Len(s)
    BY <2>6, <2>8, Bounds
  <2>10. \A i \in DOMAIN s : Done(j, i)'
    BY <1>1, <2>1, <2>2, <2>3, <2>4, <2>6, <2>7, <2>8, <2>9 DEF Done
  <2>11. Shown(j, old)'
    BY <1>1, <2>1, <2>2, <2>3, <2>4, <2>7, <2>8 DEF Shown
  <2>12. JobOK(j)'
    BY <2>3, <2>4, <2>5, <2>7, <2>10, <2>11 DEF JobOK
  <2> QED BY <2>1, <2>3, <2>12, Worked
<1> QED BY <1>4, <1>5, <1>6, <1>7, TakeStep DEF Work

LEMMA StallStep ==
  ASSUME IInv, NEW j \in Bookings, Stall(j)
  PROVE  IInv'
<1>1. PICK o, s, old : o = job[j].of /\ s = StepsOf(j) /\ old = job[j].progress
  OBVIOUS
<1>2. DOMAIN job = Bookings /\ JobOK(j)
  BY DEF IInv, Working
<1>3. job[j].state = "active" /\ UNCHANGED <<world, row, cell, at, draft, expired, plans, tried>>
  BY DEF Stall
<1>4. PICK v : /\ job' = [job EXCEPT ![j] = v]
               /\ v = [job[j] EXCEPT !.state = "failed"] \/ v = [job[j] EXCEPT !.state = "waiting", !.stalled = TRUE]
  BY DEF Stall
<1>5. DOMAIN job' = Bookings /\ job'[j] = v /\ \A i \in Bookings : i # j => job'[i] = job[i]
  BY <1>2, <1>4
<1>6. DOMAIN v = JobFields /\ v.of = o /\ v.state \in {"failed", "waiting"} /\ v.progress = old
  BY <1>1, <1>2, <1>4 DEF JobOK, JobFields
<1>7. o # Nobody /\ Shown(j, old)
  BY <1>1, <1>2, <1>3 DEF JobOK
<1>8. Accepted(o) /\ s = draft[o].steps
  BY <1>1, <1>7, Owned
<1>9. StepsOf(j)' = s /\ Op(o, "send")' /\ at'[o] = "accepted"
  BY <1>3, <1>5, <1>6, <1>7, <1>8 DEF StepsOf, Accepted, Op, Want, Asked
<1>10. Shown(j, old)'
  BY <1>1, <1>3, <1>5, <1>6, <1>7, <1>9 DEF Shown
<1>11. JobOK(j)'
  BY <1>5, <1>6, <1>7, <1>9, <1>10 DEF JobOK
<1> QED BY <1>3, <1>5, <1>11, Worked

LEMMA TrimStep ==
  ASSUME IInv, NEW j \in Bookings, Trim(j)
  PROVE  IInv'
<1>1. job' = [job EXCEPT ![j] = NoJob] /\ UNCHANGED <<world, row, cell, at, draft, expired, plans, tried>>
  BY DEF Trim
<1>2. DOMAIN job' = Bookings /\ job'[j] = NoJob /\ \A i \in Bookings : i # j => job'[i] = job[i]
  BY <1>1 DEF IInv, Working
<1> QED BY <1>1, <1>2, NoJobOK, Worked

-----------------------------------------------------------------------------
(* The theorems *)

LEMMA InitHolds == Init => IInv
<1> SUFFICES ASSUME Init PROVE IInv
  OBVIOUS
<1>1. Shapes
  BY DEF Init, Shapes, Drafts, DraftFields, NoDraft
<1>2. HasRows(world) /\ HasPlans(world) /\ \A r \in Asked : MayAsk(world, r)
  BY <1>1, Sound
<1>3. Rows
  <2>1. DOMAIN row = Bookings /\ \A b \in Bookings : row[b] = IF b \in DOMAIN world.rows THEN world.rows[b] ELSE NoRow
    BY DEF Init
  <2>2. \A b \in DOMAIN world.rows : IsRow(world.rows[b])
    BY <1>2 DEF HasRows, IsRow, RowFields
  <2>3. \A b \in Bookings : Exists(b) => b \in DOMAIN world.rows /\ row[b] = world.rows[b]
    BY <2>1 DEF Exists
  <2>4. \A b, c \in Bookings : Exists(b) /\ Exists(c) /\ row[b].ref = row[c].ref => b = c
    BY <1>2, <2>3 DEF HasRows
  <2> QED BY <2>1, <2>2, <2>4 DEF Rows
<1>4. Cells
  BY DEF Init, Cells
<1>5. Requested
  <2>1. \A r \in Asked : r \in Requests /\ at[r] = "new"
    BY <1>1, Sound DEF Init
  <2>2. ASSUME NEW r \in Asked, Op(r, "create")
        PROVE  ~Exists(Want(r).booking)
    <3>1. Want(r).booking \in Bookings /\ Want(r).booking \notin DOMAIN world.rows
      BY <1>1, <1>2, <2>2, Asks DEF MayAsk, Want, Op, Target
    <3> QED BY <3>1 DEF Init, Exists
  <2> QED BY <2>1, <2>2 DEF Requested, Creating, EditOK, Editing
<1>6. Sending
  <2>1. IsSequence(plans) /\ \A p \in ToSet(plans) : HasSteps(p)
    BY <1>2 DEF Init, HasPlans
  <2>2. IsSequence(<<>>) /\ Len(<<>>) = 0
    <3>1. <<>> \in Seq({})
      OBVIOUS
    <3> QED BY <3>1, SequenceOf
  <2>3. HasSteps(NoDraft)
    BY <2>2, Bounds DEF HasSteps, NoDraft
  <2>4. \A r \in Requests : draft[r] = NoDraft
    BY DEF Init
  <2>5. \A r \in Asked : HasSteps(draft[r])
    BY <1>1, <2>3, <2>4, Sound
  <2>6. DOMAIN tried = Requests /\ \A r \in Requests : tried[r] \in [1 .. Steps -> Nat]
    BY DEF Init
  <2> QED BY <2>1, <2>5, <2>6 DEF Sending
<1>7. Working
  <2>1. DOMAIN job = Bookings /\ \A j \in Bookings : job[j] = NoJob \/ job[j] = [NoJob EXCEPT !.state = "completed"]
    BY DEF Init, Jobs
  <2>2. \A j \in Bookings : StepsOf(j) = <<>>
    BY <2>1 DEF StepsOf, NoJob
  <2> QED BY <2>1, <2>2 DEF Working, JobOK, NoJob, JobFields, Shown
<1> QED BY <1>1, <1>3, <1>4, <1>5, <1>6, <1>7 DEF IInv

LEMMA Stutters == IInv /\ UNCHANGED vars => IInv'
<1> SUFFICES ASSUME IInv, UNCHANGED vars PROVE IInv'
  OBVIOUS
<1> USE DEF vars
<1>1. Rows' /\ Cells' /\ Shapes' /\ Requested'
  BY DEF IInv, Rows, Cells, Requested, Creating, EditOK, Shapes, Drafts, Op, Is, Want, Target, Exists, Hotel, Outlived, Asked
<1>2. Sending'
  BY DEF IInv, Sending, Op, Want, Asked
<1>3. Working'
  <2>1. \A j, i : StepsOf(j)' = StepsOf(j) /\ (Done(j, i)' <=> Done(j, i)) /\ (Shown(j, i)' <=> Shown(j, i))
    BY DEF StepsOf, Done, Shown
  <2>2. \A j \in Bookings : JobOK(j) => JobOK(j)'
    <3> SUFFICES ASSUME NEW j \in Bookings, JobOK(j) PROVE JobOK(j)'
      OBVIOUS
    <3>1. Shown(j, job[j].progress)' /\ (job[j].state = "active" => Shown(j, job[j].run)')
      BY <2>1 DEF JobOK, Shown, StepsOf
    <3> QED BY <2>1, <3>1 DEF JobOK, Op, Want, Asked
  <2> QED BY <2>2 DEF IInv, Working
<1> QED BY <1>1, <1>2, <1>3 DEF IInv

LEMMA NextHolds == IInv /\ [Next]_vars => IInv'
<1> SUFFICES ASSUME IInv, [Next]_vars PROVE IInv'
  OBVIOUS
<1>1. ASSUME NEW r \in Requests, NEW n \in 1 .. LastNight, Upsert(r, n) PROVE IInv'
  BY <1>1, UpsertStep
<1>2. ASSUME NEW r \in Requests,
             Create(r) \/ Edit(r) \/ EditFails(r) \/ Expire(r) \/ SetStatus(r) \/ Cancel(r)
             \/ Confirm(r) \/ Keep(r) \/ Submit(r) \/ SendFails(r)
      PROVE  IInv'
  BY <1>2, CreateStep, EditStep, EditFailsStep, ExpireStep, SetStatusStep, CancelStep, ConfirmStep, KeepStep, SubmitStep, SendFailsStep
<1>3. ASSUME NEW j \in Bookings, Work(j) \/ Stall(j) \/ Trim(j) PROVE IInv'
  BY <1>3, WorkStep, StallStep, TrimStep
<1>4. CASE UNCHANGED vars
  BY <1>4, Stutters
<1> QED BY <1>1, <1>2, <1>3, <1>4 DEF Next, Jobs

\* The rows, the requests, the sequences and the jobs are as the invariant says,
\* in every reachable state.
THEOREM Held == Spec => []IInv
  BY InitHolds, NextHolds, PTL DEF Spec

\* Every row is a booking of at least one night, every override is within the
\* type's rooms, no two bookings share a reference, and the checklist of a
\* confirmation shows no step as sent that was not tried.
THEOREM Typed == Spec => []TypeOK
<1>1. IInv => TypeOK
  <2> SUFFICES ASSUME IInv PROVE TypeOK
    OBVIOUS
  <2>1. \A b \in Bookings : Exists(b) => row[b].status \in Status /\ row[b].in < row[b].out
    BY DEF IInv, Rows, IsRow, Exists
  <2>2. \A t \in Types, n \in 1 .. LastNight : cell[t][n] \in {NoCell} \cup 0 .. TotalRooms[t]
    BY DEF IInv, Cells
  <2>3. \A b, c \in Bookings : Exists(b) /\ Exists(c) /\ b # c => row[b].ref # row[c].ref
    BY DEF IInv, Rows
  <2>4. ASSUME NEW j \in Jobs, NEW shown, shown = ReconstructStatus(job[j].state, StepsOf(j), job[j].progress),
               NEW i \in DOMAIN shown, shown[i] = "sent"
        PROVE  tried[job[j].of][i] > 0
    <3>1. JobOK(j) /\ j \in Bookings
      BY DEF IInv, Working, Jobs
    <3>2. CASE job[j].state = "none"
      BY <2>4, <3>2 DEF ReconstructStatus
    <3>3. CASE job[j].state # "none" /\ job[j].progress # <<>>
      <4>1. shown = job[j].progress
        BY <2>4, <3>3 DEF ReconstructStatus
      <4> QED BY <2>4, <3>1, <3>3, <4>1 DEF JobOK, Shown
    <3>4. CASE job[j].state # "none" /\ job[j].progress = <<>>
      <4>1. shown = [k \in DOMAIN StepsOf(j) |-> IF StepsOf(j)[k].skip THEN "skipped"
                                                 ELSE IF job[j].state = "completed" THEN "sent" ELSE "pending"]
        BY <2>4, <3>4 DEF ReconstructStatus
      <4>2. i \in DOMAIN StepsOf(j) /\ ~StepsOf(j)[i].skip /\ job[j].state = "completed"
        BY <2>4, <4>1
      <4> QED BY <3>1, <4>2 DEF JobOK, Done
    <3> QED BY <3>2, <3>3, <3>4
  <2>5. \A j \in Jobs :
          LET shown == ReconstructStatus(job[j].state, StepsOf(j), job[j].progress)
          IN  \A i \in DOMAIN shown : shown[i] = "sent" => tried[job[j].of][i] > 0
    BY <2>4
  <2> QED BY <2>1, <2>2, <2>3, <2>5 DEF TypeOK
<1> QED BY <1>1, Held, PTL

\* Who moves acts.
Acts(r) ==
    \/ \E n \in 1 .. LastNight : Upsert(r, n)
    \/ Create(r) \/ Edit(r) \/ EditFails(r) \/ Expire(r) \/ SetStatus(r) \/ Cancel(r)
    \/ Confirm(r) \/ Keep(r) \/ Submit(r) \/ SendFails(r)
LEMMA Mover ==
  ASSUME Next, NEW r \in Asked, at'[r] # at[r]
  PROVE  Acts(r)
<1>1. ASSUME NEW q \in Requests, Acts(q)
      PROVE  UNCHANGED at \/ \E pc : Goto(q, pc)
  <2>1. CASE \E n \in 1 .. LastNight : Upsert(q, n)
    BY <2>1, Zenon DEF Upsert
  <2>2. CASE Create(q)
    BY <2>2, Zenon DEF Create, CheckRooms, TakeNumber, Insert
  <2>3. CASE Edit(q) \/ EditFails(q) \/ Expire(q)
    BY <2>3, Zenon DEF Edit, EditLock, EditRead, EditRoom, EditGroup, EditSingle, EditFails, Expire
  <2>4. CASE SetStatus(q) \/ Cancel(q) \/ Confirm(q)
    BY <2>4, Zenon DEF SetStatus, Cancel, CancelRead, CancelWrite, Confirm, ConfirmRead, ConfirmWrite
  <2>5. CASE Keep(q)
    BY <2>5, Zenon DEF Keep, PlanCheck, PlanClear, PlanWrite, DropPlan
  <2>6. CASE Submit(q) \/ SendFails(q)
    BY <2>6, Zenon DEF Submit, Preview, SendCheck, SendRemove, SendConfirm, SendAdd, SendFails
  <2> QED BY <1>1, <2>1, <2>2, <2>3, <2>4, <2>5, <2>6 DEF Acts
<1>2. ASSUME NEW j \in Jobs, Work(j) \/ Stall(j) \/ Trim(j)
      PROVE  UNCHANGED at
  BY <1>2, Zenon DEF Work, Take, SkipStep, BeginStep, SendStep, Finish, Stall, Trim
<1>3. PICK q \in Requests : Acts(q)
  BY <1>2, Zenon DEF Next, Acts
<1>4. \E pc : Goto(q, pc)
  BY <1>1, <1>3
<1>5. q = r
  BY <1>4 DEF Goto
<1> QED BY <1>3, <1>5

\* The lock on a hotel's numbers does its work (booking.service.ts): only a
\* booking of another hotel can have the number a creation took, up to the 99,999
\* references a year whose text sorts as their numbers do (see TakeNumber).
THEOREM NumbersClashAcrossHotels == Spec => ClashOnlyAcrossHotels
<1> DEFINE Claimed == \A r \in Asked : at[r] # "clashed" /\ at'[r] = "clashed" =>
                        \A b \in Bookings : row[b].ref = draft[r].ref => row[b].hotel # Hotel(r)
<1>1. IInv /\ [Next]_vars => [Claimed]_vars
  <2> SUFFICES ASSUME IInv, Next, NEW r \in Asked, at[r] # "clashed", at'[r] = "clashed"
               PROVE  \A b \in Bookings : row[b].ref = draft[r].ref => row[b].hotel # Hotel(r)
    OBVIOUS
  <2>1. Insert(r)
    <3>1. r \in Requests /\ DOMAIN at = Requests /\ Acts(r)
      BY Sound, Mover DEF IInv, Shapes
    <3>2. ASSUME NEW pc, Goto(r, pc) PROVE pc = "clashed"
      BY <3>1, <3>2 DEF Goto
    <3>3. ~ \E n \in 1 .. LastNight : Upsert(r, n)
      BY <3>2 DEF Upsert
    <3>4. ~CheckRooms(r) /\ ~TakeNumber(r)
      BY <3>2 DEF CheckRooms, TakeNumber
    <3>5. ~Edit(r) /\ ~EditFails(r) /\ ~Expire(r)
      BY <3>2 DEF Edit, EditLock, EditRead, EditRoom, EditGroup, EditSingle, EditFails, Expire
    <3>6. ~SetStatus(r) /\ ~Cancel(r) /\ ~Confirm(r)
      BY <3>2 DEF SetStatus, Cancel, CancelRead, CancelWrite, Confirm, ConfirmRead, ConfirmWrite
    <3>7. ~Keep(r)
      BY <3>2 DEF Keep, PlanCheck, PlanClear, PlanWrite, DropPlan
    <3>8. ~Submit(r) /\ ~SendFails(r)
      BY <3>2 DEF Submit, Preview, SendCheck, SendRemove, SendConfirm, SendAdd, SendFails
    <3> QED BY <3>1, <3>3, <3>4, <3>5, <3>6, <3>7, <3>8 DEF Acts, Create
  <2>2. Op(r, "create") /\ at[r] = "numbered"
    BY <2>1 DEF Insert, Is, Op
  <2> QED BY <2>2 DEF IInv, Requested, Creating
<1> QED BY <1>1, Held, PTL DEF Spec, ClashOnlyAcrossHotels

\* An edit writes back nothing it was not asked to change but what the row
\* holds, whatever edit of the booking runs beside it, unless one of them
\* outlived the lock (booking.controller.ts: no lost updates).
THEOREM LockKeepsTheRest == Spec => EditKeepsTheRest
<1> DEFINE Kept == \A r \in Asked : Want(r).op = "edit" /\ at[r] = "writing" /\ at'[r] = "done" =>
               \/ \E q \in expired : Target(q) = Target(r)
               \/ \A f \in {"in", "out", "price"} \ DOMAIN Want(r).sets : row'[Target(r)][f] = row[Target(r)][f]
<1>1. IInv /\ [Next]_vars => [Kept]_vars
  <2> SUFFICES ASSUME IInv, Next, NEW r \in Asked, Want(r).op = "edit", at[r] = "writing", at'[r] = "done",
                      ~Outlived(Target(r)), NEW f \in {"in", "out", "price"} \ DOMAIN Want(r).sets
               PROVE  row'[Target(r)][f] = row[Target(r)][f]
    BY DEF Outlived
  <2>1. EditSingle(r)
    <3>1. r \in Requests /\ DOMAIN at = Requests /\ Acts(r)
      BY Sound, Mover DEF IInv, Shapes
    <3>2. Edit(r) \/ EditFails(r) \/ Expire(r)
      BY <3>1 DEF Acts, Upsert, Create, CheckRooms, TakeNumber, Insert, SetStatus, Cancel, CancelRead, CancelWrite, Confirm,
           ConfirmRead, ConfirmWrite, Keep, PlanCheck, PlanClear, PlanWrite, DropPlan, Submit, Preview, SendCheck,
           SendRemove, SendConfirm, SendAdd, SendFails, Is
    <3>3. ~EditFails(r) /\ ~Expire(r)
      BY <3>1 DEF EditFails, Expire, Goto
    <3> QED BY <3>2, <3>3 DEF Edit, EditLock, EditRead, EditRoom, EditGroup, EditSingle, Is
  <2>2. Op(r, "edit") /\ EditOK(r) /\ Target(r) \in Bookings
    BY Asks DEF IInv, Requested, Op
  <2>3. Exists(Target(r)) /\ draft[r][f] = row[Target(r)][f]
    BY <2>2 DEF EditOK
  <2>4. IsRow(row[Target(r)]) /\ DOMAIN row = Bookings
    BY <2>2, <2>3, Refs DEF IInv, Rows
  <2>5. row'[Target(r)][f] = draft[r][f]
    BY <2>1, <2>2, <2>4 DEF EditSingle, IsRow, RowFields
  <2> QED BY <2>3, <2>5
<1> QED BY <1>1, Held, PTL DEF Spec, EditKeepsTheRest
-----------------------------------------------------------------------------
(* What the guest is sent: every step that is to be, none that is not, and   *)
(* none twice but after a stall                                               *)

InQueue(r) == \E j \in Jobs : job[j].of = r /\ job[j].state \in InFlight
Served(r) ==
    \/ \A i \in DOMAIN draft[r].steps : draft[r].steps[i].skip \/ tried[r][i] > 0
    \/ r \in displaced
    \/ \E j \in Jobs : job[j].of = r /\ job[j].stalled

\* A queued submission stays queued until every step the staff did not leave out
\* was tried, unless another submission removed its waiting job, or the job
\* stalled: no retry, removal or trim drops it silently
\* (booking.controller.ts:659-709, workers/confirmationSequence.run.ts).
QueuedUntilServed ==
    [][\A r \in Requests : InQueue(r) => InQueue(r)' \/ Served(r)']_vars

\* A step that was tried is tried again only for a job that stalled
\* (workers/confirmationSequence.run.ts).
AgainOnlyIfStalled ==
    [][\A r \in Requests, i \in 1 .. Steps :
          tried[r][i] > 0 /\ tried'[r][i] # tried[r][i] =>
             \E j \in Jobs : job[j].of = r /\ job[j].stalled]_vars

\* No guest gets a step more than twice, or one the staff left out.
NeverThriceNorLeftOut ==
    \A r \in Asked : Op(r, "send") =>
        /\ \A i \in 1 .. Steps : tried[r][i] <= 2
        /\ \A i \in DOMAIN draft[r].steps : draft[r].steps[i].skip => tried[r][i] = 0

\* The strengthening: only a submission whose job was added has anything tried,
\* and a job that has not stalled begins with nothing tried, one that has with
\* at most one try of a step.
Untried(r) == \A i \in 1 .. Steps : tried[r][i] = 0
Tried(j, i, n) ==
    tried[job[j].of][i] <= n + 1 /\ (job[j].stalled \/ tried[job[j].of][i] <= n)
Behind(j, i) == i <= job[j].step
JobTries(j) ==
    /\ Target(job[j].of) = j
    /\ job[j].state = "waiting" => \A i \in 1 .. Steps : Tried(j, i, 0)
    /\ job[j].state = "active" =>
         /\ \A i \in 1 .. Steps : ~Behind(j, i) => Tried(j, i, 0)
         /\ \A i \in 1 .. Steps : Behind(j, i) => Tried(j, i, 1)
         /\ \A i \in DOMAIN job[j].run : job[j].run[i] = "sending" => ~StepsOf(j)[i].skip
RequestTries(r) ==
    /\ ~Accepted(r) => Untried(r)
    /\ \A i \in 1 .. Steps : tried[r][i] <= 2
    /\ Op(r, "send") => \A i \in DOMAIN draft[r].steps : draft[r].steps[i].skip => tried[r][i] = 0
Tries ==
    /\ \A r \in Requests : RequestTries(r)
    /\ \A j \in Bookings : job[j].of # Nobody => JobTries(j)

\* Who is accepted is touched by nobody but the worker.
Settled == \A q \in Asked : Accepted(q) => at'[q] = at[q] /\ draft'[q] = draft[q]

\* The owner of a job keeps its steps.
LEMMA StepsStay ==
  ASSUME IInv, NEW j \in Bookings, job[j].of # Nobody, UNCHANGED world, Settled,
         job'[j].of = job[j].of
  PROVE  /\ StepsOf(j)' = StepsOf(j) /\ Target(job[j].of)' = Target(job[j].of)
         /\ job[j].of \in Requests
<1>1. PICK o : o = job[j].of
  OBVIOUS
<1>2. o \in Asked /\ o \in Requests /\ Accepted(o) /\ o # Nobody
  BY <1>1, Owned
<1>3. draft'[o] = draft[o]
  BY <1>2 DEF Settled
<1> QED BY <1>1, <1>2, <1>3 DEF StepsOf, Target, Want

\* A job nobody touches keeps what is known of its tries.
LEMMA JobTriesStay ==
  ASSUME IInv, NEW j \in Bookings, job[j].of # Nobody, JobTries(j), UNCHANGED world, Settled,
         job'[j] = job[j], tried'[job[j].of] = tried[job[j].of]
  PROVE  JobTries(j)'
<1>1. StepsOf(j)' = StepsOf(j) /\ Target(job[j].of)' = Target(job[j].of)
  BY StepsStay
<1>2. \A i : (Behind(j, i)' <=> Behind(j, i))
  BY DEF Behind
<1>3. \A i, n : Tried(j, i, n) => Tried(j, i, n)'
  BY DEF Tried
<1> QED BY <1>1, <1>2, <1>3 DEF JobTries

\* What is known of the requests' tries, while no step is sent.
LEMMA RequestTriesStay ==
  ASSUME IInv, IInv', Tries, UNCHANGED <<world, tried>>, Settled
  PROVE  \A r \in Requests : RequestTries(r)'
<1> SUFFICES ASSUME NEW r \in Requests PROVE RequestTries(r)'
  OBVIOUS
<1>1. RequestTries(r) /\ Asked' = Asked /\ (Op(r, "send")' <=> Op(r, "send"))
  BY DEF Tries, Asked, Op, Want
<1>2. CASE Accepted(r)
  <2>1. at'[r] = at[r] /\ draft'[r] = draft[r]
    BY <1>2 DEF Settled, Accepted, Op
  <2>2. Accepted(r)'
    BY <1>1, <1>2, <2>1 DEF Accepted
  <2> QED BY <1>1, <2>1, <2>2 DEF RequestTries
<1>3. CASE ~Accepted(r)
  <2>1. Untried(r) /\ Untried(r)'
    BY <1>1, <1>3 DEF RequestTries, Untried
  <2>2. ASSUME Op(r, "send")', NEW i \in DOMAIN draft'[r].steps
        PROVE  i \in 1 .. Steps
    <3>1. HasSteps(draft'[r])
      BY <2>2 DEF IInv, Sending, Op
    <3>2. Len(draft'[r].steps) \in 0 .. Steps /\ DOMAIN draft'[r].steps = 1 .. Len(draft'[r].steps)
      BY <3>1, Sequenced, Bounds DEF HasSteps
    <3> QED BY <2>2, <3>2, Bounds
  <2> QED BY <1>1, <2>1, <2>2 DEF RequestTries, Untried
<1> QED BY <1>2, <1>3

\* One job changes and no step is sent.
LEMMA TriesStay ==
  ASSUME IInv, IInv', Tries, UNCHANGED <<world, tried>>, Settled, NEW j \in Bookings,
         \A i \in Bookings : i # j => job'[i] = job[i],
         job'[j].of # Nobody => JobTries(j)'
  PROVE  Tries'
<1>1. \A i \in Bookings : i # j /\ job[i].of # Nobody => JobTries(i)'
  BY JobTriesStay DEF Tries
<1> QED BY <1>1, RequestTriesStay DEF Tries

\* No job changes and no step is sent.
LEMMA TriesIdle ==
  ASSUME IInv, IInv', Tries, UNCHANGED <<world, tried, job>>, Settled
  PROVE  Tries'
<1>1. \A i \in Bookings : job[i].of # Nobody => JobTries(i)'
  BY JobTriesStay DEF Tries
<1> QED BY <1>1, RequestTriesStay DEF Tries

\* A request acts before it is accepted, and on itself.
LEMMA ActsAlone ==
  ASSUME IInv, NEW r \in Requests, Acts(r)
  PROVE  /\ Settled /\ UNCHANGED <<world, tried>>
         /\ SendRemove(r) \/ SendAdd(r) \/ UNCHANGED job
<1>1. DOMAIN at = Requests /\ DOMAIN draft = Requests /\ Asked \subseteq Requests
  BY Sound DEF IInv, Shapes, Drafts
<1>2. ASSUME ~Accepted(r), UNCHANGED at \/ \E pc : Goto(r, pc), UNCHANGED draft \/ \E d : draft' = [draft EXCEPT ![r] = d]
      PROVE  Settled
  <2>1. \A q \in Requests : q # r => at'[q] = at[q] /\ draft'[q] = draft[q]
    BY <1>1, <1>2 DEF Goto
  <2> QED BY <1>1, <1>2, <2>1 DEF Settled
<1>3. CASE \E n \in 1 .. LastNight : Upsert(r, n)
  <2>1. PICK n \in 1 .. LastNight : Upsert(r, n)
    BY <1>3
  <2>2. /\ ~Accepted(r) /\ \E pc : Goto(r, pc)
        /\ \E d : draft' = [draft EXCEPT ![r] = d]
    BY <2>1 DEF Upsert, Is, Accepted, Op
  <2>3. UNCHANGED <<world, tried, job>>
    BY <2>1 DEF Upsert, confirmation
  <2> QED BY <1>2, <2>2, <2>3
<1>4. CASE Create(r)
  <2>1. UNCHANGED <<world, tried, job>>
    BY <1>4 DEF Create, CheckRooms, TakeNumber, Insert, confirmation
  <2>2. ~Accepted(r)
    BY <1>4 DEF Create, CheckRooms, TakeNumber, Insert, Is, Accepted, Op
  <2>3. \E pc : Goto(r, pc)
    BY <1>4, Zenon DEF Create, CheckRooms, TakeNumber, Insert
  <2>4. UNCHANGED draft \/ \E d : draft' = [draft EXCEPT ![r] = d]
    BY <1>4 DEF Create, CheckRooms, TakeNumber, Insert
  <2> QED BY <1>2, <2>1, <2>2, <2>3, <2>4
<1>5. CASE Edit(r) \/ EditFails(r)
  <2>1. UNCHANGED <<world, tried, job>>
    BY <1>5 DEF Edit, EditLock, EditRead, EditRoom, EditGroup, EditSingle, EditFails, confirmation
  <2>2. ~Accepted(r)
    BY <1>5 DEF Edit, EditLock, EditRead, EditRoom, EditGroup, EditSingle, EditFails, Is, Accepted, Op
  <2>3. UNCHANGED at \/ \E pc : Goto(r, pc)
    BY <1>5, Zenon DEF Edit, EditLock, EditRead, EditRoom, EditGroup, EditSingle, EditFails
  <2>4. CASE EditRead(r)
    <3> DEFINE b == row[Target(r)]
               perRoom == Exists(Target(r)) /\ b.rooms # <<>> /\ "rooms" \in DOMAIN Want(r).sets
               d == [draft[r] EXCEPT
                      !.in = Given(r, "in", b.in), !.out = Given(r, "out", b.out),
                      !.type = Given(r, "type", b.type), !.price = Given(r, "price", b.price),
                      !.todo = IF perRoom THEN DOMAIN Want(r).sets.rooms ELSE {}]
    <3>1. UNCHANGED draft \/ draft' = [draft EXCEPT ![r] = d]
      BY <2>4 DEF EditRead
    <3>2. UNCHANGED draft \/ \E e : draft' = [draft EXCEPT ![r] = e]
      <4> HIDE DEF d
      <4> QED BY <3>1
    <3> QED BY <1>2, <2>1, <2>2, <2>3, <3>2
  <2>5. CASE EditRoom(r)
    <3>1. draft' = [draft EXCEPT ![r].todo = @ \ {Min(draft[r].todo)}]
      BY <2>5 DEF EditRoom
    <3> QED BY <1>2, <2>1, <2>2, <2>3, <3>1
  <2>6. CASE ~EditRead(r) /\ ~EditRoom(r)
    <3>1. UNCHANGED draft
      BY <1>5, <2>6 DEF Edit, EditLock, EditGroup, EditSingle, EditFails
    <3> QED BY <1>2, <2>1, <2>2, <2>3, <3>1
  <2> QED BY <2>4, <2>5, <2>6
<1>6. CASE Expire(r)
  <2>1. UNCHANGED <<world, tried, job, at, draft>>
    BY <1>6 DEF Expire, confirmation
  <2> QED BY <2>1 DEF Settled
<1>7. CASE SetStatus(r) \/ Cancel(r) \/ Confirm(r)
  <2>1. UNCHANGED <<world, tried, job, draft>>
    BY <1>7 DEF SetStatus, Cancel, CancelRead, CancelWrite, Confirm, ConfirmRead, ConfirmWrite, confirmation
  <2>2. ~Accepted(r)
    BY <1>7 DEF SetStatus, Cancel, CancelRead, CancelWrite, Confirm, ConfirmRead, ConfirmWrite, Is, Accepted, Op
  <2>3. \E pc : Goto(r, pc)
    BY <1>7, Zenon DEF SetStatus, Cancel, CancelRead, CancelWrite, Confirm, ConfirmRead, ConfirmWrite
  <2> QED BY <1>2, <2>1, <2>2, <2>3
<1>8. CASE Keep(r)
  <2>1. UNCHANGED <<world, tried, job>>
    BY <1>8 DEF Keep, PlanCheck, PlanClear, PlanWrite, DropPlan, confirmation
  <2>2. ~Accepted(r)
    BY <1>8 DEF Keep, PlanCheck, PlanClear, PlanWrite, DropPlan, Is, Accepted, Op
  <2>3. \E pc : Goto(r, pc)
    BY <1>8, Zenon DEF Keep, PlanCheck, PlanClear, PlanWrite, DropPlan
  <2>4. UNCHANGED draft \/ \E c : draft' = [draft EXCEPT ![r].cleared = c]
    BY <1>8, Zenon DEF Keep, PlanCheck, PlanClear, PlanWrite, DropPlan
  <2>5. UNCHANGED draft \/ \E d : draft' = [draft EXCEPT ![r] = d]
    BY <2>4
  <2> QED BY <1>2, <2>1, <2>2, <2>3, <2>5
<1>9. CASE Submit(r) \/ SendFails(r)
  <2>1. UNCHANGED <<world, tried>> /\ (SendRemove(r) \/ SendAdd(r) \/ UNCHANGED job)
    BY <1>9 DEF Submit, Preview, SendCheck, SendConfirm, SendRemove, SendAdd, SendFails, confirmation
  <2>2. ~Accepted(r)
    BY <1>9 DEF Submit, Preview, SendCheck, SendRemove, SendConfirm, SendAdd, SendFails, Is, Accepted
  <2>3. \E pc : Goto(r, pc)
    BY <1>9, Zenon DEF Submit, Preview, SendCheck, SendRemove, SendConfirm, SendAdd, SendFails
  <2>4. UNCHANGED draft \/ \E s : draft' = [draft EXCEPT ![r].steps = s]
    BY <1>9, Zenon DEF Submit, Preview, SendCheck, SendRemove, SendConfirm, SendAdd, SendFails
  <2>5. UNCHANGED draft \/ \E d : draft' = [draft EXCEPT ![r] = d]
    BY <2>4
  <2> QED BY <1>2, <2>1, <2>2, <2>3, <2>5
<1> QED BY <1>3, <1>4, <1>5, <1>6, <1>7, <1>8, <1>9 DEF Acts

\* A submission's removal or addition of its booking's job.
LEMMA SubmitTries ==
  ASSUME IInv, IInv', Tries, NEW r \in Requests, SendRemove(r) \/ SendAdd(r)
  PROVE  Tries'
<1>1. Settled /\ UNCHANGED <<world, tried>> /\ r \in Asked /\ Op(r, "send") /\ ~Accepted(r)
  <2>1. Acts(r)
    BY DEF Acts, Submit
  <2> QED BY <2>1, ActsAlone DEF SendRemove, SendAdd, Is, Op, Accepted
<1>2. PICK j \in Bookings : j = Target(r)
  BY <1>1, Asks DEF IInv
<1>3. DOMAIN job = Bookings
  BY DEF IInv, Working
<1>4. CASE job'[j] = job[j] /\ \A i \in Bookings : i # j => job'[i] = job[i]
  <2>1. job[j].of # Nobody => JobTries(j)'
    <3>1. CASE job[j].of # Nobody
      <4>1. JobTries(j)
        BY <3>1 DEF Tries
      <4> QED BY <1>1, <1>4, <3>1, <4>1, JobTriesStay
    <3> QED BY <3>1
  <2> QED BY <1>1, <1>4, <2>1, TriesStay
<1>5. CASE job'[j] = NoJob /\ \A i \in Bookings : i # j => job'[i] = job[i]
  <2>1. job'[j].of = Nobody
    BY <1>5 DEF NoJob
  <2> QED BY <1>1, <1>5, <2>1, TriesStay
<1>6. CASE /\ job'[j] = [NoJob EXCEPT !.state = "waiting", !.of = r]
           /\ \A i \in Bookings : i # j => job'[i] = job[i]
  <2>1. job'[j].of = r /\ job'[j].state = "waiting"
    BY <1>6 DEF NoJob
  <2>2. Untried(r) /\ Target(r)' = j
    BY <1>1, <1>2 DEF Tries, RequestTries, Target, Want
  <2>3. \A i \in 1 .. Steps : Tried(j, i, 0)'
    BY <1>1, <2>1, <2>2 DEF Untried, Tried
  <2>4. JobTries(j)'
    BY <2>1, <2>2, <2>3 DEF JobTries
  <2> QED BY <1>1, <1>6, <2>4, TriesStay
<1>7. CASE SendRemove(r)
  <2>1. job' = [job EXCEPT ![j] = IF job[j].state = "active" THEN job[j] ELSE NoJob]
    BY <1>2, <1>7 DEF SendRemove, JobId
  <2>2. /\ \A i \in Bookings : i # j => job'[i] = job[i]
        /\ job'[j] = job[j] \/ job'[j] = NoJob
    BY <1>3, <2>1
  <2> QED BY <1>4, <1>5, <2>2
<1>8. CASE SendAdd(r)
  <2>1. UNCHANGED job \/ job' = [job EXCEPT ![j] = [NoJob EXCEPT !.state = "waiting", !.of = r]]
    BY <1>2, <1>8 DEF SendAdd, JobId
  <2> QED BY <1>3, <1>4, <1>6, <2>1
<1> QED BY <1>7, <1>8

\* The worker on a step: the job stays the submission's, active, and as stalled
\* as it was.
LEMMA OnAStep ==
  ASSUME IInv, NEW j \in Bookings, job[j].state = "active", Persevere(j), NEW step, NEW run,
         Proceed(j, step, run)
  PROVE  /\ job[j].of # Nobody /\ job[j].of \in Requests /\ Accepted(job[j].of)
         /\ \A i \in Bookings : i # j => job'[i] = job[i]
         /\ job'[j].of = job[j].of /\ job'[j].state = "active" /\ job'[j].step = step
         /\ job'[j].run = run /\ job'[j].stalled = job[j].stalled
         /\ job[j].step \in Nat /\ Current(j) \in 1 .. Steps
         /\ DOMAIN job[j].run = 1 .. Len(StepsOf(j)) /\ Current(j) \in DOMAIN job[j].run
<1>1. DOMAIN job = Bookings /\ JobOK(j) /\ job[j].of # Nobody
  BY DEF IInv, Working, JobOK
<1>2. /\ job[j].of \in Requests /\ Accepted(job[j].of)
      /\ Len(StepsOf(j)) \in 0 .. Steps /\ DOMAIN StepsOf(j) = 1 .. Len(StepsOf(j))
  BY <1>1, Owned
<1>3. PICK v : /\ job' = [job EXCEPT ![j] = v]
               /\ \/ v = [job[j] EXCEPT !.step = step, !.run = run, !.progress = run]
                  \/ v = [job[j] EXCEPT !.step = step, !.run = run]
  BY <1>1 DEF Proceed
<1>4. job'[j] = v /\ \A i \in Bookings : i # j => job'[i] = job[i]
  BY <1>1, <1>3
<1>5. /\ v.of = job[j].of /\ v.state = "active" /\ v.step = step /\ v.run = run
      /\ v.stalled = job[j].stalled
  BY <1>1, <1>3 DEF JobOK, JobFields
<1>6. job[j].step \in 0 .. Len(StepsOf(j)) /\ job[j].step < Len(StepsOf(j))
  BY <1>1 DEF JobOK, Persevere
<1>7. PICK m, k : m = job[j].step /\ k = Len(StepsOf(j))
  OBVIOUS
<1>8. m \in Nat /\ m + 1 \in 1 .. Steps /\ m + 1 \in 1 .. k
  BY <1>2, <1>6, <1>7, Bounds
<1>9. DOMAIN job[j].run = 1 .. k
  BY <1>1, <1>2, <1>7 DEF JobOK
<1> QED BY <1>1, <1>2, <1>4, <1>5, <1>7, <1>8, <1>9 DEF Current

\* A step left out, or marked as being sent: nothing is tried, and what is
\* marked is not left out.
LEMMA NoteTries ==
  ASSUME IInv, IInv', Tries, NEW j \in Bookings, SkipStep(j) \/ BeginStep(j)
  PROVE  Tries'
<1>1. /\ job[j].state = "active" /\ Persevere(j)
      /\ UNCHANGED <<world, at, draft, tried>>
  BY DEF SkipStep, BeginStep
<1>2. PICK o, c, m : o = job[j].of /\ c = Current(j) /\ m = job[j].step
  OBVIOUS
<1>3. PICK step, run, result :
         /\ Proceed(j, step, run) /\ run = [job[j].run EXCEPT ![c] = result]
         /\ \/ step = m + 1 /\ result = "skipped" /\ StepsOf(j)[c].skip
            \/ step = m /\ result = "sending" /\ ~StepsOf(j)[c].skip
  <2>1. CASE SkipStep(j)
    BY <1>2, <2>1, Zenon DEF SkipStep
  <2>2. CASE BeginStep(j)
    BY <1>2, <2>2, Zenon DEF BeginStep
  <2> QED BY <2>1, <2>2
<1>4. /\ o # Nobody /\ o \in Requests /\ Accepted(o)
      /\ \A i \in Bookings : i # j => job'[i] = job[i]
      /\ job'[j].of = o /\ job'[j].state = "active" /\ job'[j].step = step
      /\ job'[j].run = run /\ job'[j].stalled = job[j].stalled
      /\ m \in Nat /\ c \in 1 .. Steps /\ c \in DOMAIN job[j].run
  BY <1>1, <1>2, <1>3, OnAStep
<1>5. Settled /\ c = m + 1
  BY <1>1, <1>2 DEF Settled, Current
<1>6. StepsOf(j)' = StepsOf(j) /\ Target(o)' = Target(o)
  BY <1>1, <1>2, <1>4, <1>5, StepsStay
<1>7. /\ Target(o) = j
      /\ \A i \in 1 .. Steps : ~Behind(j, i) => Tried(j, i, 0)
      /\ \A i \in 1 .. Steps : Behind(j, i) => Tried(j, i, 1)
      /\ \A i \in DOMAIN job[j].run : job[j].run[i] = "sending" => ~StepsOf(j)[i].skip
  BY <1>1, <1>2, <1>4 DEF Tries, JobTries
<1>8. \A i \in DOMAIN run : run[i] = "sending" => ~StepsOf(j)[i].skip
  <2> SUFFICES ASSUME NEW i \in DOMAIN run, run[i] = "sending" PROVE ~StepsOf(j)[i].skip
    OBVIOUS
  <2>1. i \in DOMAIN job[j].run /\ (i # c => run[i] = job[j].run[i]) /\ (i = c => run[i] = result)
    BY <1>3
  <2>2. CASE i = c
    <3>1. result = "sending"
      BY <2>1, <2>2
    <3> QED BY <1>3, <2>2, <3>1
  <2>3. CASE i # c
    BY <1>7, <2>1, <2>3
  <2> QED BY <2>2, <2>3
<1>9. \A i, n : Tried(j, i, n)' <=> Tried(j, i, n)
  BY <1>1, <1>2, <1>4 DEF Tried
<1>10. ASSUME NEW i \in 1 .. Steps
       PROVE  /\ ~Behind(j, i)' => ~Behind(j, i)
              /\ Behind(j, i)' => Behind(j, i) \/ (i = c /\ ~Behind(j, c))
  <2>1. step = m \/ step = m + 1
    BY <1>3
  <2> QED BY <1>2, <1>4, <1>5, <1>10, <2>1, Bounds DEF Behind
<1>11. ASSUME NEW i \in 1 .. Steps, Tried(j, i, 0) PROVE Tried(j, i, 1)
  <2>1. tried[o][i] \in Nat
    BY <1>4, <1>11 DEF IInv, Sending
  <2> QED BY <1>2, <1>11, <2>1 DEF Tried
<1>12. JobTries(j)'
  <2>1. \A i \in 1 .. Steps : ~Behind(j, i)' => Tried(j, i, 0)'
    BY <1>7, <1>9, <1>10
  <2>2. \A i \in 1 .. Steps : Behind(j, i)' => Tried(j, i, 1)'
    BY <1>7, <1>9, <1>10, <1>11
  <2> QED BY <1>4, <1>6, <1>7, <1>8, <2>1, <2>2 DEF JobTries
<1> QED BY <1>1, <1>4, <1>5, <1>12, TriesStay

\* A step sent: it was not behind, so this is its first try, or its second after
\* a stall; and it is not one left out.
LEMMA SendTries ==
  ASSUME IInv, IInv', Tries, NEW j \in Bookings, SendStep(j)
  PROVE  /\ Tries'
         /\ \A r \in Requests, i \in 1 .. Steps :
              tried[r][i] > 0 /\ tried'[r][i] # tried[r][i] =>
                 \E k \in Jobs : job[k].of = r /\ job[k].stalled
<1>1. /\ job[j].state = "active" /\ Persevere(j) /\ job[j].run[Current(j)] = "sending"
      /\ UNCHANGED <<world, at, draft>>
  BY DEF SendStep
<1>2. PICK o, c, m : o = job[j].of /\ c = Current(j) /\ m = job[j].step
  OBVIOUS
<1>3. PICK step, run, result :
         /\ Proceed(j, step, run) /\ run = [job[j].run EXCEPT ![c] = result]
         /\ step = m + 1 /\ result # "sending"
  BY <1>2 DEF SendStep
<1>4. /\ o # Nobody /\ o \in Requests /\ Accepted(o)
      /\ \A i \in Bookings : i # j => job'[i] = job[i]
      /\ job'[j].of = o /\ job'[j].state = "active" /\ job'[j].step = step
      /\ job'[j].run = run /\ job'[j].stalled = job[j].stalled
      /\ m \in Nat /\ c \in 1 .. Steps /\ c \in DOMAIN job[j].run
  BY <1>1, <1>2, <1>3, OnAStep
<1>5. Settled /\ c = m + 1
  BY <1>1, <1>2 DEF Settled, Current
<1>6. StepsOf(j)' = StepsOf(j) /\ Target(o)' = Target(o)
  BY <1>1, <1>2, <1>4, <1>5, StepsStay
<1>7. /\ Target(o) = j
      /\ \A i \in 1 .. Steps : ~Behind(j, i) => Tried(j, i, 0)
      /\ \A i \in 1 .. Steps : Behind(j, i) => Tried(j, i, 1)
      /\ \A i \in DOMAIN job[j].run : job[j].run[i] = "sending" => ~StepsOf(j)[i].skip
  BY <1>1, <1>2, <1>4 DEF Tries, JobTries
<1>8. PICK n \in Nat : n = tried[o][c]
  BY <1>4 DEF IInv, Sending
<1>9. /\ tried'[o][c] = n + 1 /\ (\A i \in 1 .. Steps : i # c => tried'[o][i] = tried[o][i])
      /\ \A q \in Requests : q # o => tried'[q] = tried[q]
  <2>1. tried' = [tried EXCEPT ![o][c] = n + 1]
    BY <1>2, <1>8 DEF SendStep
  <2>2. DOMAIN tried = Requests /\ tried[o] \in [1 .. Steps -> Nat]
    BY <1>4 DEF IInv, Sending
  <2>3. tried'[o] = [tried[o] EXCEPT ![c] = n + 1] /\ \A q \in Requests : q # o => tried'[q] = tried[q]
    BY <1>4, <2>1, <2>2
  <2> QED BY <1>4, <2>2, <2>3
<1>10. ~Behind(j, c) /\ Tried(j, c, 0)
  BY <1>2, <1>4, <1>5, <1>7 DEF Behind
<1>11. n <= 1 /\ (job[j].stalled \/ n <= 0)
  BY <1>2, <1>8, <1>10 DEF Tried
<1>12. ~StepsOf(j)[c].skip
  BY <1>1, <1>2, <1>4, <1>7
<1>13. JobTries(j)'
  <2>1. \A i \in DOMAIN run : run[i] = "sending" => ~StepsOf(j)[i].skip
    BY <1>3, <1>7
  <2>2. \A i \in 1 .. Steps : i # c => (Behind(j, i)' <=> Behind(j, i))
    BY <1>2, <1>3, <1>4, <1>5, Bounds DEF Behind
  <2>3. Behind(j, c)'
    BY <1>3, <1>4, <1>5 DEF Behind
  <2>4. \A i \in 1 .. Steps, k \in {0, 1} : i # c => (Tried(j, i, k)' <=> Tried(j, i, k))
    BY <1>2, <1>4, <1>9 DEF Tried
  <2>5. Tried(j, c, 1)'
    <3>1. n + 1 <= 2 /\ (job[j].stalled \/ n + 1 <= 1)
      BY <1>11
    <3> QED BY <1>4, <1>9, <3>1 DEF Tried
  <2>6. \A i \in 1 .. Steps : ~Behind(j, i)' => Tried(j, i, 0)'
    BY <1>7, <2>2, <2>3, <2>4
  <2>7. \A i \in 1 .. Steps : Behind(j, i)' => Tried(j, i, 1)'
    BY <1>7, <2>2, <2>4, <2>5
  <2> QED BY <1>4, <1>6, <1>7, <2>1, <2>6, <2>7 DEF JobTries
<1>14. ASSUME NEW i \in Bookings, i # j, job[i].of # Nobody
       PROVE  JobTries(i)'
  <2>1. JobTries(i) /\ job[i].of \in Requests
    BY <1>14, Owned DEF Tries
  <2>2. job[i].of # o
    BY <1>7, <1>14, <2>1 DEF JobTries
  <2> QED BY <1>1, <1>4, <1>5, <1>9, <1>14, <2>1, <2>2, JobTriesStay
<1>15. ASSUME NEW r \in Requests
       PROVE  RequestTries(r)'
  <2>1. RequestTries(r) /\ Asked' = Asked /\ (Op(r, "send")' <=> Op(r, "send")) /\ (Accepted(r)' <=> Accepted(r))
    BY <1>1 DEF Tries, Asked, Op, Want, Accepted
  <2>2. CASE r # o
    BY <1>1, <1>9, <2>1, <2>2 DEF RequestTries, Untried
  <2>3. CASE r = o
    <3>1. \A i \in 1 .. Steps : tried'[o][i] <= 2
      BY <1>9, <1>11, <2>1, <2>3 DEF RequestTries
    <3>2. StepsOf(j) = draft[o].steps /\ DOMAIN draft[o].steps \subseteq 1 .. Steps
      <4>1. /\ StepsOf(j) = draft[o].steps /\ Len(StepsOf(j)) \in 0 .. Steps
            /\ DOMAIN StepsOf(j) = 1 .. Len(StepsOf(j))
        BY <1>2, <1>4, Owned
      <4> QED BY <4>1, Bounds
    <3>3. ASSUME NEW i \in DOMAIN draft[o].steps, draft[o].steps[i].skip
          PROVE  tried'[o][i] = 0
      <4>1. i # c /\ i \in 1 .. Steps
        BY <1>12, <3>2, <3>3
      <4> QED BY <1>4, <1>9, <2>1, <2>3, <3>3, <4>1 DEF RequestTries, Accepted
    <3> QED BY <1>1, <1>4, <2>1, <2>3, <3>1, <3>3 DEF RequestTries
  <2> QED BY <2>2, <2>3
<1>16. Tries'
  BY <1>4, <1>13, <1>14, <1>15 DEF Tries
<1>17. ASSUME NEW r \in Requests, NEW i \in 1 .. Steps, tried[r][i] > 0, tried'[r][i] # tried[r][i]
       PROVE  \E k \in Jobs : job[k].of = r /\ job[k].stalled
  <2>1. r = o /\ i = c
    BY <1>9, <1>17
  <2>2. job[j].stalled
    BY <1>8, <1>11, <1>17, <2>1
  <2> QED BY <1>2, <2>1, <2>2 DEF Jobs
<1> QED BY <1>16, <1>17

\* A job taken up, finished, stalled or trimmed.
LEMMA JobStateTries ==
  ASSUME IInv, IInv', Tries, NEW j \in Bookings, Take(j) \/ Finish(j) \/ Stall(j) \/ Trim(j)
  PROVE  Tries'
<1>1. UNCHANGED <<world, at, draft, tried>> /\ DOMAIN job = Bookings /\ JobOK(j)
  BY DEF Take, Finish, Stall, Trim, IInv, Working
<1>2. Settled
  BY <1>1 DEF Settled
<1>3. CASE Trim(j)
  <2>1. job'[j] = NoJob /\ \A i \in Bookings : i # j => job'[i] = job[i]
    BY <1>1, <1>3 DEF Trim
  <2>2. job'[j].of = Nobody
    BY <2>1 DEF NoJob
  <2> QED BY <1>1, <1>2, <2>1, <2>2, TriesStay
<1>4. CASE ~Trim(j) /\ job[j].of # Nobody
  <2>1. PICK o : o = job[j].of
    OBVIOUS
  <2>2. /\ o \in Requests /\ JobTries(j) /\ DOMAIN job[j] = JobFields
        /\ Len(StepsOf(j)) \in 0 .. Steps /\ DOMAIN StepsOf(j) = 1 .. Len(StepsOf(j))
    BY <1>1, <1>4, <2>1, Owned DEF Tries, JobOK
  <2>3. CASE Take(j)
    <3> DEFINE pending == [i \in DOMAIN StepsOf(j) |-> "pending"]
    <3>1. PICK v : /\ job' = [job EXCEPT ![j] = v]
                   /\ \/ v = [job[j] EXCEPT !.state = "active", !.step = 0, !.run = pending, !.progress = pending]
                      \/ v = [job[j] EXCEPT !.state = "active", !.step = 0, !.run = pending]
      BY <2>3 DEF Take
    <3>2. \A i \in DOMAIN pending : pending[i] # "sending"
      OBVIOUS
    <3> HIDE DEF pending
    <3>3. /\ job'[j] = v /\ \A i \in Bookings : i # j => job'[i] = job[i]
      BY <1>1, <3>1
    <3>4. /\ job'[j].of = o /\ job'[j].state = "active" /\ job'[j].step = 0
          /\ job'[j].run = pending /\ job'[j].stalled = job[j].stalled
      BY <2>1, <2>2, <3>1, <3>3 DEF JobFields
    <3>5. StepsOf(j)' = StepsOf(j) /\ Target(o)' = Target(o)
      BY <1>1, <1>2, <1>4, <2>1, <3>4, StepsStay
    <3>6. Target(o) = j /\ \A i \in 1 .. Steps : Tried(j, i, 0)
      BY <2>1, <2>2, <2>3 DEF JobTries, Take
    <3>7. \A i \in 1 .. Steps : ~Behind(j, i)' /\ Tried(j, i, 0)'
      BY <1>1, <2>1, <3>4, <3>6, Bounds DEF Behind, Tried
    <3>8. JobTries(j)'
      BY <3>2, <3>4, <3>5, <3>6, <3>7 DEF JobTries
    <3> QED BY <1>1, <1>2, <3>3, <3>8, TriesStay
  <2>4. CASE Finish(j)
    <3>1. /\ job'[j] = [job[j] EXCEPT !.state = "completed"]
          /\ \A i \in Bookings : i # j => job'[i] = job[i]
      BY <1>1, <2>4 DEF Finish
    <3>2. job'[j].of = o /\ job'[j].state = "completed"
      BY <2>1, <2>2, <3>1 DEF JobFields
    <3>3. Target(o)' = Target(o) /\ Target(o) = j
      BY <1>1, <2>1, <2>2 DEF JobTries, Target, Want
    <3>4. JobTries(j)'
      BY <3>2, <3>3 DEF JobTries
    <3> QED BY <1>1, <1>2, <3>1, <3>4, TriesStay
  <2>5. CASE Stall(j)
    <3>1. PICK v : /\ job' = [job EXCEPT ![j] = v]
                   /\ \/ v = [job[j] EXCEPT !.state = "failed"]
                      \/ ~job[j].stalled /\ v = [job[j] EXCEPT !.state = "waiting", !.stalled = TRUE]
      BY <2>5 DEF Stall
    <3>2. job'[j] = v /\ \A i \in Bookings : i # j => job'[i] = job[i]
      BY <1>1, <3>1
    <3>3. /\ job'[j].of = o
          /\ \/ job'[j].state = "failed"
             \/ ~job[j].stalled /\ job'[j].state = "waiting" /\ job'[j].stalled = TRUE
      BY <2>1, <2>2, <3>1, <3>2 DEF JobFields
    <3>4. Target(o)' = Target(o) /\ Target(o) = j
      BY <1>1, <2>1, <2>2 DEF JobTries, Target, Want
    <3>5. ASSUME ~job[j].stalled, job'[j].stalled = TRUE, NEW i \in 1 .. Steps
          PROVE  Tried(j, i, 0)'
      <4>1. tried[o][i] \in Nat
        BY <2>2 DEF IInv, Sending
      <4>2. Tried(j, i, 0) \/ Tried(j, i, 1)
        BY <2>2, <2>5 DEF JobTries, Stall
      <4>3. tried[o][i] <= 1
        BY <2>1, <3>5, <4>1, <4>2 DEF Tried
      <4> QED BY <1>1, <3>3, <3>5, <4>3 DEF Tried
    <3>6. JobTries(j)'
      BY <3>3, <3>4, <3>5 DEF JobTries
    <3> QED BY <1>1, <1>2, <3>2, <3>6, TriesStay
  <2> QED BY <1>4, <2>3, <2>4, <2>5
<1>5. CASE ~Trim(j) /\ job[j].of = Nobody
  <2>1. FALSE
    BY <1>1, <1>5 DEF JobOK, Take, Finish, Stall
  <2> QED BY <2>1
<1> QED BY <1>3, <1>4, <1>5

\* Every step keeps the strengthening.
LEMMA NextTries == IInv /\ IInv' /\ Tries /\ [Next]_vars => Tries'
<1> SUFFICES ASSUME IInv, IInv', Tries, [Next]_vars PROVE Tries'
  OBVIOUS
<1>1. ASSUME NEW r \in Requests, Acts(r) PROVE Tries'
  <2>1. /\ Settled /\ UNCHANGED <<world, tried>>
        /\ SendRemove(r) \/ SendAdd(r) \/ UNCHANGED job
    BY <1>1, ActsAlone
  <2> QED BY <2>1, SubmitTries, TriesIdle
<1>2. ASSUME NEW j \in Bookings, Work(j) \/ Stall(j) \/ Trim(j) PROVE Tries'
  BY <1>2, NoteTries, SendTries, JobStateTries DEF Work
<1>3. CASE UNCHANGED vars
  <2>1. UNCHANGED <<world, tried, job>> /\ Settled
    BY <1>3 DEF vars, confirmation, Settled
  <2> QED BY <2>1, TriesIdle
<1> QED BY <1>1, <1>2, <1>3 DEF Next, Jobs, Acts

\* What was tried of a submission, in every reachable state.
LEMMA TriesHold == Spec => [](IInv /\ Tries)
<1>1. Init => Tries
  <2> SUFFICES ASSUME Init PROVE Tries
    OBVIOUS
  <2>1. IInv
    BY InitHolds
  <2>2. \A j \in Bookings : job[j].of = Nobody
    BY DEF Init, Jobs, NoJob
  <2>3. ASSUME NEW r \in Requests PROVE RequestTries(r)
    <3>1. Untried(r) /\ \A i \in 1 .. Steps : tried[r][i] <= 2
      BY DEF Init, Untried
    <3>2. Op(r, "send") => DOMAIN draft[r].steps = {}
      BY DEF Init, NoDraft
    <3> QED BY <3>1, <3>2 DEF RequestTries
  <2> QED BY <2>2, <2>3 DEF Tries
<1> QED BY <1>1, InitHolds, NextHolds, NextTries, PTL DEF Spec

\* No guest gets a step of a confirmation more than twice, or one that the staff
\* left out (workers/confirmationSequence.run.ts).
THEOREM GuestGetsWhatWasChosen == Spec => []NeverThriceNorLeftOut
<1>1. IInv /\ Tries => NeverThriceNorLeftOut
  <2> SUFFICES ASSUME IInv, Tries, NEW r \in Asked, Op(r, "send")
               PROVE  /\ \A i \in 1 .. Steps : tried[r][i] <= 2
                      /\ \A i \in DOMAIN draft[r].steps : draft[r].steps[i].skip => tried[r][i] = 0
    BY DEF NeverThriceNorLeftOut
  <2>1. r \in Requests
    BY Sound DEF IInv
  <2> QED BY <2>1 DEF Tries, RequestTries
<1> QED BY <1>1, TriesHold, PTL

\* A step of a confirmation is tried again only for a job that stalled
\* (workers/confirmationSequence.run.ts).
THEOREM ResentOnlyAfterAStall == Spec => AgainOnlyIfStalled
<1> DEFINE Again == \A r \in Requests, i \in 1 .. Steps :
          tried[r][i] > 0 /\ tried'[r][i] # tried[r][i] =>
             \E j \in Jobs : job[j].of = r /\ job[j].stalled
<1>1. IInv /\ IInv' /\ Tries /\ [Next]_vars => [Again]_vars
  <2> SUFFICES ASSUME IInv, IInv', Tries, Next PROVE Again
    OBVIOUS
  <2>1. CASE UNCHANGED tried
    BY <2>1
  <2>2. CASE \E j \in Bookings : SendStep(j)
    BY <2>2, SendTries
  <2>3. ASSUME NEW r \in Requests, Acts(r) PROVE UNCHANGED tried
    BY <2>3, ActsAlone
  <2>4. ASSUME NEW j \in Bookings, Work(j) \/ Stall(j) \/ Trim(j), ~SendStep(j)
        PROVE  UNCHANGED tried
    BY <2>4 DEF Work, Take, SkipStep, BeginStep, Finish, Stall, Trim
  <2> HIDE DEF Again
  <2> QED BY <2>1, <2>2, <2>3, <2>4 DEF Next, Jobs, Acts
<1> QED BY <1>1, TriesHold, PTL DEF Spec, AgainOnlyIfStalled

\* A queued submission stays queued until every step that was not left out was
\* tried, but for a removal by another submission or a stall
\* (booking.controller.ts, workers/confirmationSequence.run.ts).
THEOREM QueuedIsNotDropped == Spec => QueuedUntilServed
<1> DEFINE Kept == \A r \in Requests : InQueue(r) => InQueue(r)' \/ Served(r)'
<1>1. IInv /\ IInv' /\ [Next]_vars => [Kept]_vars
  <2> SUFFICES ASSUME IInv, IInv', Next, NEW r \in Requests, InQueue(r)
               PROVE  InQueue(r)' \/ Served(r)'
    OBVIOUS
  <2>1. PICK j \in Bookings : job[j].of = r /\ job[j].state \in {"waiting", "active"}
    BY DEF InQueue, InFlight, Jobs
  <2>2. /\ DOMAIN job = Bookings /\ JobOK(j) /\ JobOK(j)' /\ r # Nobody
        /\ DOMAIN job[j] = JobFields
    BY Bounds DEF IInv, Working, JobOK
  <2>3. CASE job'[j] = job[j]
    BY <2>1, <2>3 DEF InQueue, InFlight, Jobs
  <2>4. ASSUME NEW q \in Requests, Acts(q), job'[j] # job[j]
        PROVE  Served(r)'
    <3>1. SendRemove(q) \/ SendAdd(q)
      BY <2>4, ActsAlone
    <3>2. PICK k : k = Target(q)
      OBVIOUS
    <3>3. CASE SendAdd(q)
      <4>1. job[k].state = "none" /\ job' = [job EXCEPT ![k] = [NoJob EXCEPT !.state = "waiting", !.of = q]]
        BY <2>4, <3>2, <3>3 DEF SendAdd, JobId
      <4> QED BY <2>1, <2>2, <2>4, <4>1
    <3>4. CASE SendRemove(q)
      <4>1. /\ job' = [job EXCEPT ![k] = IF job[k].state = "active" THEN job[k] ELSE NoJob]
            /\ displaced' = IF job[k].state = "waiting" THEN displaced \cup {job[k].of} ELSE displaced
        BY <3>2, <3>4 DEF SendRemove, JobId
      <4>2. k = j /\ job[j].state # "active"
        BY <2>2, <2>4, <4>1
      <4> QED BY <2>1, <4>1, <4>2 DEF Served
    <3> QED BY <3>1, <3>3, <3>4
  <2>5. ASSUME NEW k \in Bookings, Work(k) \/ Stall(k) \/ Trim(k), job'[j] # job[j]
        PROVE  InQueue(r)' \/ Served(r)'
    <3>1. k = j /\ UNCHANGED world
      <4>1. PICK v : job' = [job EXCEPT ![k] = v]
        <5>1. CASE Take(k) \/ SkipStep(k) \/ BeginStep(k)
          BY <5>1 DEF Take, SkipStep, BeginStep, Proceed
        <5>2. CASE SendStep(k)
          BY <5>2 DEF SendStep, Proceed
        <5>3. CASE Finish(k)
          BY <5>3 DEF Finish
        <5>4. CASE Stall(k) \/ Trim(k)
          BY <5>4 DEF Stall, Trim
        <5> QED BY <2>5, <5>1, <5>2, <5>3, <5>4 DEF Work
      <4>2. UNCHANGED world
        BY <2>5 DEF Work, Take, SkipStep, BeginStep, SendStep, Finish, Stall, Trim
      <4> QED BY <2>2, <2>5, <4>1, <4>2
    <3>2. ~Trim(j)
      BY <2>1 DEF Trim
    <3>3. CASE Take(j)
      <4>1. PICK a, b, c : \/ job' = [job EXCEPT ![j] = [[job[j] EXCEPT !.state = "active", !.step = a, !.run = b] EXCEPT !.progress = c]]
                           \/ job' = [job EXCEPT ![j] = [job[j] EXCEPT !.state = "active", !.step = a, !.run = b]]
        BY <3>3 DEF Take
      <4>2. job'[j].of = r /\ job'[j].state = "active"
        BY <2>1, <2>2, <4>1 DEF JobFields
      <4> QED BY <4>2 DEF InQueue, InFlight, Jobs
    <3>4. CASE SkipStep(j) \/ BeginStep(j) \/ SendStep(j)
      <4>1. PICK step, run : /\ Proceed(j, step, run) /\ Persevere(j) /\ job[j].state = "active"
        BY <3>4 DEF SkipStep, BeginStep, SendStep
      <4>2. job'[j].of = r /\ job'[j].state = "active"
        BY <2>1, <4>1, OnAStep
      <4> QED BY <4>2 DEF InQueue, InFlight, Jobs
    <3>5. CASE Finish(j)
      <4>1. job'[j] = [job[j] EXCEPT !.state = "completed"] /\ UNCHANGED <<draft, tried>>
        BY <2>2, <3>5 DEF Finish
      <4>2. job'[j].of = r /\ job'[j].state = "completed"
        BY <2>1, <2>2, <4>1 DEF JobFields
      <4>3. StepsOf(j)' = draft'[r].steps
        BY <2>2, <4>2 DEF StepsOf
      <4>4. \A i \in DOMAIN StepsOf(j)' : Done(j, i)'
        BY <2>2, <4>2 DEF JobOK
      <4>5. \A i \in DOMAIN draft'[r].steps : draft'[r].steps[i].skip \/ tried'[r][i] > 0
        BY <4>2, <4>3, <4>4 DEF Done
      <4> QED BY <4>5 DEF Served
    <3>6. CASE Stall(j)
      <4>1. \/ job[j].stalled /\ job' = [job EXCEPT ![j] = [job[j] EXCEPT !.state = "failed"]]
            \/ job' = [job EXCEPT ![j] = [job[j] EXCEPT !.state = "waiting", !.stalled = TRUE]]
        BY <3>6 DEF Stall
      <4>2. job'[j].of = r /\ job'[j].stalled
        BY <2>1, <2>2, <4>1 DEF JobFields
      <4> QED BY <4>2 DEF Served, Jobs
    <3> QED BY <2>5, <3>1, <3>2, <3>3, <3>4, <3>5, <3>6 DEF Work
  <2> QED BY <2>3, <2>4, <2>5 DEF Next, Jobs, Acts
<1> QED BY <1>1, Held, PTL DEF Spec, QueuedUntilServed
=============================================================================
