-------------------------- MODULE MCComputerProofs --------------------------
(***************************************************************************)
(* Theorems about what a holder's computer has of the service and about    *)
(* the native agent, each with an inductive invariant of its own: requests *)
(* to the native agent, alone and in the composed specification that TLC   *)
(* checks, then shared projects and the releases of the client, then the   *)
(* mounted folder and its files, and last the types of them all.           *)
(***************************************************************************)
EXTENDS MCComputer, FiniteSetTheorems, SequenceTheorems, TLAPS

NsSpec == NsInit /\ [][NsNext]_nsVars

-----------------------------------------------------------------------------
(* The inductive invariant.                                                 *)

Places == {"status", "request", "lock", "start", "handshake", "ready", "prompt",
           "watch", "wait", "close", "settle", "answer", "over", "killed"}

Workers ==
  [at : Places, request : NsRequests, holder : Nat, client : BOOLEAN,
   native : {"none", "up", "gone"}, shim : {"none", "ready", "closed"},
   log : {"whole", "partial"}, call : {"none", "sent", "published"},
   turn : {"none", "asked", "answered", "failed"}, partial : BOOLEAN,
   outcome : {"none", "text", "tool", "error"}, answer : {"none", "text", "tool", "error"},
   callFirst : BOOLEAN, vouched : BOOLEAN]

(* A worker that has reserved its request, and may have asked for it.       *)
Took(w) == w.at \in Working \cup {"settle", "answer"} \/ w.turn # "none"
Named(w) == <<w.request, w.holder>>

(* A worker's step: what is started is started in order, a call that came   *)
(* first is still there to be seen, and what is to be answered is backed.   *)
WorkerSound(w, theGrant) ==
  /\ w.at \in {"status", "request", "lock"} => w.turn = "none" /\ w.shim = "none" /\ ~w.callFirst
  /\ w.at \in {"handshake", "ready", "prompt", "watch", "wait"} => w.native # "none"
  /\ w.at \in {"settle", "answer", "over", "killed"} => w.shim # "ready"
  /\ w.outcome # "none" <=> w.at \in {"close", "settle", "answer"}
  /\ w.callFirst /\ w.at \in Working => w.call = "published"
  /\ w.outcome = "text" => w.turn # "asked" /\ ~w.callFirst
  /\ w.outcome \in {"text", "tool"} => w.native # "none"
  /\ w.outcome \in {"text", "tool"} /\ w.at \in {"settle", "answer"} =>
       w.native = "gone" /\ (w.client /\ theGrant = w.holder => w.vouched)
  /\ w.answer # "none" => w.at = "over"
  /\ w.answer \in {"text", "tool"} => w.native = "gone" /\ w.vouched
  /\ w.answer = "text" => ~w.callFirst

(* Whoever took a request has it reserved, and alone.                       *)
ReservedAlone ==
  /\ \A n \in Runs : Took(nsRun[n]) => Named(nsRun[n]) \in nsReserved
  /\ \A n, o \in Runs :
       n # o /\ Took(nsRun[n]) /\ Took(nsRun[o]) => Named(nsRun[n]) # Named(nsRun[o])

(* The lock is of the one worker between reservation and cleanup.           *)
OneWorks == nsLock \in 0..Len(nsRun) /\ \A n \in Runs : nsLock = n <=> nsRun[n].at \in Working

NativeInv ==
  /\ nsRun \in Seq(Workers) /\ nsHolder \in Nat /\ nsGrant \in Nat
  /\ OneWorks
  /\ ReservedAlone
  /\ \A n \in Runs : WorkerSound(nsRun[n], nsGrant)

LEMMA InvGivesSound == NativeInv => NativeSound /\ OneWorks
<1> SUFFICES ASSUME NativeInv PROVE NativeSound
  BY DEF NativeInv
<1>1. AskedOnce
  BY DEF NativeInv, ReservedAlone, AskedOnce, Took, Named, Prompted, Identity, Runs
<1>2. AnsweredOverTheRemains
  BY DEF NativeInv, WorkerSound, AnsweredOverTheRemains, Answered, Runs
<1>3. NoCallOverlooked
  BY DEF NativeInv, WorkerSound, NoCallOverlooked, Runs
<1> QED
  BY <1>1, <1>2, <1>3 DEF NativeSound

-----------------------------------------------------------------------------
(* The form of most steps: one worker becomes w.                            *)
Becomes(n, w) ==
  /\ nsRun' = [nsRun EXCEPT ![n] = w]
  /\ w \in Workers
  /\ w.request = nsRun[n].request /\ w.holder = nsRun[n].holder
  /\ WorkerSound(w, nsGrant)

LEMMA OneBecomes ==
  ASSUME NativeInv, NEW n \in Runs, NEW w, Becomes(n, w),
         nsHolder' = nsHolder, nsGrant' = nsGrant, OneWorks',
         nsReserved' = nsReserved, Took(w) => Took(nsRun[n])
  PROVE  NativeInv'
<1>1. nsRun' \in Seq(Workers) /\ Runs' = Runs /\ nsRun'[n] = w
      /\ \A o \in Runs : o # n => nsRun'[o] = nsRun[o]
  BY DEF NativeInv, Becomes, Runs
<1>2. ReservedAlone'
  BY <1>1 DEF NativeInv, Becomes, ReservedAlone, Named
<1>3. \A o \in Runs' : WorkerSound(nsRun[o], nsGrant)'
  BY <1>1 DEF NativeInv, Becomes, WorkerSound
<1> QED
  BY <1>1, <1>2, <1>3 DEF NativeInv

(* The lock stays with the worker that works on.                            *)
LEMMA WorksOn ==
  ASSUME NativeInv, NEW n \in Runs, NEW w, Becomes(n, w), Stays,
         w.at \in Working <=> nsRun[n].at \in Working,
         Took(w) => Took(nsRun[n])
  PROVE  NativeInv'
<1>1. nsRun' \in Seq(Workers) /\ Runs' = Runs /\ Len(nsRun') = Len(nsRun) /\ nsRun'[n] = w
      /\ \A o \in Runs : o # n => nsRun'[o] = nsRun[o]
  BY DEF NativeInv, Becomes, Runs
<1>2. OneWorks'
  BY <1>1 DEF NativeInv, OneWorks, Stays
<1> QED
  BY <1>2, OneBecomes DEF Stays

(* A worker whose step ends: it gives its lock back, if it has it.          *)
LEMMA WorkStops ==
  ASSUME NativeInv, NEW n \in Runs, NEW w, Becomes(n, w), w.at \notin Working,
         nsLock' = (IF nsLock = n THEN 0 ELSE nsLock),
         nsHolder' = nsHolder, nsGrant' = nsGrant, nsReserved' = nsReserved,
         Took(w) => Took(nsRun[n])
  PROVE  NativeInv'
<1>1. nsRun' \in Seq(Workers) /\ Runs' = Runs /\ Len(nsRun') = Len(nsRun) /\ nsRun'[n] = w
      /\ \A o \in Runs : o # n => nsRun'[o] = nsRun[o]
  BY DEF NativeInv, Becomes, Runs
<1>2. Runs = 1..Len(nsRun)
  BY DEF NativeInv, Runs
<1>3. OneWorks'
  BY <1>1, <1>2 DEF NativeInv, OneWorks
<1> QED
  BY <1>3, OneBecomes

(* Whoever is gone left nothing to be answered for but what it answered.    *)
LEMMA GoneKeeps ==
  ASSUME NativeInv, NEW n \in Runs, NEW place \in {"over", "killed"},
         NEW what \in {"none", "text", "tool", "error"}, Gone(n, place, what),
         what # "none" => place = "over",
         what \in {"text", "tool"} =>
           /\ nsRun[n].native = "gone" /\ nsRun[n].vouched
           /\ what = "text" => ~nsRun[n].callFirst,
         nsLock' = (IF nsLock = n THEN 0 ELSE nsLock),
         nsHolder' = nsHolder, nsGrant' = nsGrant, nsReserved' = nsReserved
  PROVE  NativeInv'
<1> DEFINE first == Fresh(nsRun[n].request, nsRun[n].holder)
           turn == IF Prompted(n) THEN "asked" ELSE "none"
           left == [first EXCEPT !.at = place, !.client = FALSE, !.answer = what, !.turn = turn]
           full == [left EXCEPT !.native = nsRun[n].native, !.callFirst = nsRun[n].callFirst,
                                !.vouched = nsRun[n].vouched]
           w == IF what \in {"text", "tool"} THEN full ELSE left
<1>1. nsRun[n] \in Workers
  BY DEF NativeInv, Runs
<1>t. turn \in {"none", "asked"} /\ (turn # "none" => Prompted(n))
  OBVIOUS
<1> HIDE DEF turn
<1>r. nsRun[n].request \in NsRequests /\ nsRun[n].holder \in Nat
  BY <1>1 DEF Workers
<1>s. /\ first \in Workers /\ first.request = nsRun[n].request /\ first.holder = nsRun[n].holder
      /\ first.outcome = "none" /\ first.shim = "none" /\ first.callFirst = FALSE
  BY <1>r DEF Fresh, Workers, Places
<1> HIDE DEF first
<1>2. /\ left \in Workers /\ left.request = nsRun[n].request /\ left.holder = nsRun[n].holder
      /\ left.at = place /\ left.answer = what /\ left.outcome = "none" /\ left.shim = "none"
      /\ left.callFirst = FALSE /\ left.turn = turn
  <2>1. left \in Workers
    BY <1>s, <1>t DEF Workers, Places
  <2>2. left.request = first.request /\ left.holder = first.holder /\ left.outcome = first.outcome
        /\ left.shim = first.shim /\ left.callFirst = first.callFirst
    BY <1>s DEF Workers
  <2>3. left.at = place /\ left.answer = what /\ left.turn = turn
    BY <1>s DEF Workers
  <2> QED
    BY <1>s, <2>1, <2>2, <2>3
<1> HIDE DEF left
<1>f. /\ full \in Workers /\ full.request = left.request /\ full.holder = left.holder
      /\ full.at = left.at /\ full.answer = left.answer /\ full.outcome = left.outcome
      /\ full.shim = left.shim /\ full.turn = left.turn
      /\ full.native = nsRun[n].native /\ full.vouched = nsRun[n].vouched
      /\ full.callFirst = nsRun[n].callFirst
  BY <1>1, <1>2 DEF Workers
<1> HIDE DEF full
<1>3. w \in Workers /\ w.at = place /\ w.request = nsRun[n].request /\ w.holder = nsRun[n].holder
      /\ w.turn = turn /\ w.answer = what /\ w.outcome = "none" /\ w.shim = "none"
  BY <1>2, <1>f
<1>4. what \in {"text", "tool"} => w.native = "gone" /\ w.vouched /\ w.callFirst = nsRun[n].callFirst
  BY <1>f
<1>5. WorkerSound(w, nsGrant)
  BY <1>2, <1>3, <1>4 DEF WorkerSound, Working
<1>6. Becomes(n, w)
  <2>1. nsRun' = [nsRun EXCEPT ![n] = w]
    BY DEF Gone, first, left, full, turn
  <2> QED
    BY <2>1, <1>3, <1>5 DEF Becomes
<1>7. w.at \notin Working
  BY <1>3 DEF Working
<1>8. Took(w) => Took(nsRun[n])
  BY <1>t, <1>3 DEF Took, Working, Prompted
<1> QED
  BY <1>6, <1>7, <1>8, WorkStops

(* A worker that is refused before it reserved anything.                    *)
LEMMA RefusedKeeps ==
  ASSUME NativeInv, NEW n \in Runs, Refused(n), Stays, nsRun[n].at \notin Working
  PROVE  NativeInv'
<1>1. nsLock # n
  BY DEF NativeInv, OneWorks
<1> QED
  BY <1>1, GoneKeeps DEF Refused, Stays

(* A worker that goes on without a change of what it has in its hands.      *)
LEMMA MovesKeeps ==
  ASSUME NativeInv, NEW n \in Runs, NEW place, Moves(n, place), Stays,
         \/ nsRun[n].at \in {"status", "request"} /\ place \in {"request", "lock"}
         \/ nsRun[n].at \in {"ready", "wait"} /\ place \in {"prompt", "watch"}
  PROVE  NativeInv'
<1> DEFINE w == [nsRun[n] EXCEPT !.at = place]
<1>1. nsRun[n] \in Workers /\ WorkerSound(nsRun[n], nsGrant)
  BY DEF NativeInv, Runs
<1>2. w \in Workers
  BY <1>1 DEF Workers, Places
<1>3. /\ w.at = place
      /\ \A f \in {"request", "holder", "client", "native", "shim", "log", "call", "turn",
                   "partial", "outcome", "answer", "callFirst", "vouched"} : w[f] = nsRun[n][f]
  BY <1>1 DEF Workers
<1>4. nsRun' = [nsRun EXCEPT ![n] = w]
  BY DEF Moves
<1> HIDE DEF w
<1>5. WorkerSound(w, nsGrant)
  BY <1>1, <1>3 DEF WorkerSound, Working
<1>6. Becomes(n, w)
  BY <1>2, <1>3, <1>4, <1>5 DEF Becomes
<1>7. (w.at \in Working <=> nsRun[n].at \in Working) /\ (Took(w) => Took(nsRun[n]))
  BY <1>3 DEF Working, Took
<1> QED
  BY <1>6, <1>7, WorksOn

(* A worker that leaves its loop with an answer in mind.                    *)
LEMMA LeavesKeeps ==
  ASSUME NativeInv, NEW n \in Runs, NEW what \in {"text", "tool", "error"}, Leaves(n, what), Stays,
         nsRun[n].at \in {"start", "handshake", "ready", "watch", "wait"},
         nsRun[n].at = "start" => what = "error",
         what = "text" => nsRun[n].turn # "asked" /\ ~nsRun[n].callFirst
  PROVE  NativeInv'
<1> DEFINE w == [nsRun[n] EXCEPT !.at = "close", !.outcome = what]
<1>1. nsRun[n] \in Workers /\ WorkerSound(nsRun[n], nsGrant)
  BY DEF NativeInv, Runs
<1>2. w \in Workers
  BY <1>1 DEF Workers, Places
<1>3. /\ w.at = "close" /\ w.outcome = what
      /\ \A f \in {"request", "holder", "client", "native", "shim", "log", "call", "turn",
                   "partial", "answer", "callFirst", "vouched"} : w[f] = nsRun[n][f]
  BY <1>1 DEF Workers
<1>4. nsRun' = [nsRun EXCEPT ![n] = w]
  BY DEF Leaves
<1> HIDE DEF w
<1>5. WorkerSound(w, nsGrant)
  BY <1>1, <1>3 DEF WorkerSound, Working
<1>6. Becomes(n, w)
  BY <1>2, <1>3, <1>4, <1>5 DEF Becomes
<1>7. (w.at \in Working <=> nsRun[n].at \in Working) /\ (Took(w) => Took(nsRun[n]))
  BY <1>3 DEF Working, Took
<1> QED
  BY <1>6, <1>7, WorksOn

-----------------------------------------------------------------------------
(* The steps of a worker up to its prompt.                                  *)

LEMMA StatusSound ==
  ASSUME NativeInv, NEW r \in NsRequests, nsRun' = Append(nsRun, Fresh(r, nsHolder)), Stays
  PROVE  NativeInv'
<1> DEFINE w == Fresh(r, nsHolder)
<1>1. w \in Workers /\ w.at = "status" /\ w.turn = "none" /\ w.shim = "none" /\ w.outcome = "none"
      /\ w.answer = "none" /\ w.callFirst = FALSE
  BY DEF Fresh, Workers, Places, NativeInv
<1>2. nsRun' = Append(nsRun, w) /\ Stays
  OBVIOUS
<1> HIDE DEF w
<1>3. /\ nsRun' \in Seq(Workers) /\ Len(nsRun') = Len(nsRun) + 1 /\ nsRun'[Len(nsRun) + 1] = w
      /\ \A n \in 1..Len(nsRun) : nsRun'[n] = nsRun[n]
      /\ Runs = 1..Len(nsRun) /\ Runs' = 1..Len(nsRun) + 1
  BY <1>1, <1>2 DEF NativeInv, Runs
<1>4. \A n \in Runs' : n \in Runs \/ n = Len(nsRun) + 1
  BY <1>3 DEF NativeInv
<1>5. w.at \notin Working /\ ~Took(w) /\ WorkerSound(w, nsGrant)
  BY <1>1 DEF Took, Working, WorkerSound
<1>6. OneWorks'
  BY <1>2, <1>3, <1>4, <1>5 DEF NativeInv, OneWorks, Stays
<1>7. ReservedAlone'
  BY <1>2, <1>3, <1>4, <1>5 DEF NativeInv, ReservedAlone, Stays
<1>8. \A n \in Runs' : WorkerSound(nsRun[n], nsGrant)'
  <2> SUFFICES ASSUME NEW n \in Runs' PROVE WorkerSound(nsRun'[n], nsGrant')
    OBVIOUS
  <2>1. nsGrant' = nsGrant
    BY <1>2 DEF Stays
  <2>2. CASE n \in Runs
    BY <2>1, <2>2, <1>3 DEF NativeInv
  <2>3. CASE n = Len(nsRun) + 1
    BY <2>1, <2>3, <1>3, <1>5
  <2> QED
    BY <1>4, <2>2, <2>3
<1> QED
  BY <1>2, <1>3, <1>6, <1>7, <1>8 DEF NativeInv, Stays

LEMMA Loads == ASSUME NativeInv, NEW n \in Runs, load_policy(n) PROVE NativeInv'
<1>1. CASE Moves(n, "request")
  BY <1>1, MovesKeeps DEF load_policy
<1>2. CASE Refused(n)
  BY <1>2, RefusedKeeps DEF load_policy, Working
<1> QED
  BY <1>1, <1>2 DEF load_policy

LEMMA Requests == ASSUME NativeInv, NEW n \in Runs, request_frame(n) PROVE NativeInv'
<1>1. CASE Moves(n, "lock")
  BY <1>1, MovesKeeps DEF request_frame
<1>2. CASE Refused(n)
  BY <1>2, RefusedKeeps DEF request_frame, Working
<1> QED
  BY <1>1, <1>2 DEF request_frame

(* The one step that adds to the reservations: of an identity nobody has.   *)
LEMMA Reserves == ASSUME NativeInv, NEW n \in Runs, reserve(n) PROVE NativeInv'
<1>1. CASE Refused(n) /\ UNCHANGED <<nsReserved, nsLock>>
  BY <1>1, RefusedKeeps DEF reserve, Working, Stays
<1>2. CASE /\ Reservable(n) /\ Moves(n, "start")
           /\ nsReserved' = nsReserved \cup {Identity(n)} /\ nsLock' = n
  <2> DEFINE w == [nsRun[n] EXCEPT !.at = "start"]
  <2>1. /\ nsRun[n] \in Workers /\ WorkerSound(nsRun[n], nsGrant) /\ nsRun[n].at = "lock"
        /\ nsHolder' = nsHolder /\ nsGrant' = nsGrant
    BY DEF NativeInv, Runs, reserve
  <2>2. w \in Workers
    BY <2>1 DEF Workers, Places
  <2>3. /\ w.at = "start"
        /\ \A f \in {"request", "holder", "client", "native", "shim", "log", "call", "turn",
                     "partial", "outcome", "answer", "callFirst", "vouched"} : w[f] = nsRun[n][f]
    BY <2>1 DEF Workers
  <2>4. nsRun' = [nsRun EXCEPT ![n] = w]
    BY <1>2 DEF Moves
  <2> HIDE DEF w
  <2>5. WorkerSound(w, nsGrant)
    BY <2>1, <2>3 DEF WorkerSound, Working
  <2>6. /\ nsRun' \in Seq(Workers) /\ Runs' = Runs /\ Runs = 1..Len(nsRun)
        /\ Len(nsRun') = Len(nsRun) /\ nsRun'[n] = w
        /\ \A o \in Runs : o # n => nsRun'[o] = nsRun[o]
    BY <2>2, <2>4 DEF NativeInv, Runs
  <2>7. Named(w) = Identity(n) /\ Identity(n) \notin nsReserved /\ nsLock = 0
    BY <1>2, <2>3 DEF Named, Identity, Reservable
  <2>8. OneWorks'
    BY <1>2, <2>3, <2>6, <2>7 DEF NativeInv, OneWorks, Working
  <2>9. ReservedAlone'
    <3>1. \A o \in Runs : Took(nsRun[o]) => Named(nsRun[o]) \in nsReserved /\ Named(nsRun[o]) # Named(w)
      BY <2>7 DEF NativeInv, ReservedAlone
    <3>2. \A o \in Runs : Took(nsRun'[o]) => Named(nsRun'[o]) \in nsReserved'
      BY <1>2, <2>6, <2>7, <3>1
    <3>3. \A o, p \in Runs : o # p /\ Took(nsRun'[o]) /\ Took(nsRun'[p]) => Named(nsRun'[o]) # Named(nsRun'[p])
      BY <2>6, <3>1 DEF NativeInv, ReservedAlone
    <3> QED
      BY <2>6, <3>2, <3>3 DEF ReservedAlone
  <2>10. \A o \in Runs' : WorkerSound(nsRun[o], nsGrant)'
    BY <2>1, <2>5, <2>6 DEF NativeInv
  <2> QED
    BY <2>1, <2>6, <2>8, <2>9, <2>10 DEF NativeInv
<1> QED
  BY <1>1, <1>2 DEF reserve

(* The agent is started, shakes hands, and is asked.                        *)
LEMMA Starts == ASSUME NativeInv, NEW n \in Runs, _start(n) PROVE NativeInv'
<1>0. nsRun[n].at = "start" /\ Stays
  BY DEF _start
<1>1. CASE nsRun' = [nsRun EXCEPT ![n].at = "handshake", ![n].native = "up"]
  <2> DEFINE w == [nsRun[n] EXCEPT !.at = "handshake", !.native = "up"]
  <2>1. nsRun[n] \in Workers /\ WorkerSound(nsRun[n], nsGrant)
    BY DEF NativeInv, Runs
  <2>2. w \in Workers
    BY <1>0, <1>1, <2>1 DEF Workers, Places
  <2>3. /\ w.at = "handshake"
        /\ w.native = "up"
        /\ \A f \in {"request", "holder", "client", "shim", "log", "call", "turn", "partial",
                     "outcome", "answer", "callFirst", "vouched"} :
             w[f] = nsRun[n][f]
    BY <2>1 DEF Workers
  <2>4. nsRun' = [nsRun EXCEPT ![n] = w]
    BY <1>0, <1>1
  <2> HIDE DEF w
  <2>5. WorkerSound(w, nsGrant)
    BY <1>0, <1>1, <2>1, <2>3 DEF WorkerSound, Working
  <2>6. Becomes(n, w)
    BY <2>2, <2>3, <2>4, <2>5 DEF Becomes
  <2>7. (w.at \in Working <=> nsRun[n].at \in Working) /\ (Took(w) => Took(nsRun[n]))
    BY <1>0, <1>1, <2>1, <2>3 DEF WorkerSound, Working, Took
  <2> QED
    BY <1>0, <1>1, <2>6, <2>7, WorksOn
<1>2. CASE Leaves(n, "error")
  BY <1>0, <1>2, LeavesKeeps
<1> QED
  BY <1>1, <1>2 DEF _start

LEMMA ShakesHands == ASSUME NativeInv, NEW n \in Runs, _wait_ready(n) PROVE NativeInv'
<1>0. nsRun[n].at = "handshake" /\ Stays
  BY DEF _wait_ready
<1>1. CASE nsRun' = [nsRun EXCEPT ![n].at = "ready", ![n].shim = "ready"]
  <2> DEFINE w == [nsRun[n] EXCEPT !.at = "ready", !.shim = "ready"]
  <2>1. nsRun[n] \in Workers /\ WorkerSound(nsRun[n], nsGrant)
    BY DEF NativeInv, Runs
  <2>2. w \in Workers
    BY <1>0, <1>1, <2>1 DEF Workers, Places
  <2>3. /\ w.at = "ready"
        /\ w.shim = "ready"
        /\ \A f \in {"request", "holder", "client", "native", "log", "call", "turn", "partial",
                     "outcome", "answer", "callFirst", "vouched"} :
             w[f] = nsRun[n][f]
    BY <2>1 DEF Workers
  <2>4. nsRun' = [nsRun EXCEPT ![n] = w]
    BY <1>0, <1>1
  <2> HIDE DEF w
  <2>5. WorkerSound(w, nsGrant)
    BY <1>0, <1>1, <2>1, <2>3 DEF WorkerSound, Working
  <2>6. Becomes(n, w)
    BY <2>2, <2>3, <2>4, <2>5 DEF Becomes
  <2>7. (w.at \in Working <=> nsRun[n].at \in Working) /\ (Took(w) => Took(nsRun[n]))
    BY <1>0, <1>1, <2>1, <2>3 DEF WorkerSound, Working, Took
  <2> QED
    BY <1>0, <1>1, <2>6, <2>7, WorksOn
<1>2. CASE Leaves(n, "error")
  BY <1>0, <1>2, LeavesKeeps
<1> QED
  BY <1>1, <1>2 DEF _wait_ready

LEMMA LooksAgain == ASSUME NativeInv, NEW n \in Runs, _authorized(n) PROVE NativeInv'
<1>0. nsRun[n].at = "ready" /\ Stays
  BY DEF _authorized
<1>1. CASE Moves(n, "prompt")
  BY <1>0, <1>1, MovesKeeps
<1>2. CASE Leaves(n, "error")
  BY <1>0, <1>2, LeavesKeeps
<1> QED
  BY <1>1, <1>2 DEF _authorized

LEMMA Prompts == ASSUME NativeInv, NEW n \in Runs, prompt(n) PROVE NativeInv'
<1>0. nsRun[n].at = "prompt" /\ Stays
  BY DEF prompt
<1> DEFINE how == IF nsRun[n].native = "up" THEN "asked" ELSE "failed"
<1>h. how \in {"asked", "failed"}
  OBVIOUS
<1> DEFINE w == [nsRun[n] EXCEPT !.at = "watch", !.turn = how]
<1>1. nsRun[n] \in Workers /\ WorkerSound(nsRun[n], nsGrant)
  BY DEF NativeInv, Runs
<1>2. w \in Workers
  BY <1>0, <1>h, <1>1 DEF Workers, Places
<1>3. /\ w.at = "watch"
      /\ w.turn = how
      /\ \A f \in {"request", "holder", "client", "native", "shim", "log", "call", "partial",
                   "outcome", "answer", "callFirst", "vouched"} :
           w[f] = nsRun[n][f]
  BY <1>1 DEF Workers
<1>4. nsRun' = [nsRun EXCEPT ![n] = w]
  BY <1>0, <1>h DEF prompt
<1> HIDE DEF w, how
<1>5. WorkerSound(w, nsGrant)
  BY <1>0, <1>h, <1>1, <1>3 DEF WorkerSound, Working
<1>6. Becomes(n, w)
  BY <1>2, <1>3, <1>4, <1>5 DEF Becomes
<1>7. (w.at \in Working <=> nsRun[n].at \in Working) /\ (Took(w) => Took(nsRun[n]))
  BY <1>0, <1>h, <1>1, <1>3 DEF WorkerSound, Working, Took
<1> QED
  BY <1>0, <1>h, <1>6, <1>7, WorksOn

-----------------------------------------------------------------------------
(* The loop that waits for whichever comes first.                           *)

LEMMA Watches == ASSUME NativeInv, NEW n \in Runs, Watch(n) PROVE NativeInv'
<1>0. nsRun[n].at = "watch" /\ Stays
  BY DEF Watch
<1>1. CASE Leaves(n, "error")
  BY <1>0, <1>1, LeavesKeeps
<1>2. CASE nsRun' = [nsRun EXCEPT ![n].partial = TRUE]
  <2> DEFINE w == [nsRun[n] EXCEPT !.partial = TRUE]
  <2>1. nsRun[n] \in Workers /\ WorkerSound(nsRun[n], nsGrant)
    BY DEF NativeInv, Runs
  <2>2. w \in Workers
    BY <1>0, <1>2, <2>1 DEF Workers, Places
  <2>3. /\ w.partial = TRUE
        /\ \A f \in {"at", "request", "holder", "client", "native", "shim", "log", "call",
                     "turn", "outcome", "answer", "callFirst", "vouched"} :
             w[f] = nsRun[n][f]
    BY <2>1 DEF Workers
  <2>4. nsRun' = [nsRun EXCEPT ![n] = w]
    BY <1>0, <1>2
  <2> HIDE DEF w
  <2>5. WorkerSound(w, nsGrant)
    BY <1>0, <1>2, <2>1, <2>3 DEF WorkerSound, Working
  <2>6. Becomes(n, w)
    BY <2>2, <2>3, <2>4, <2>5 DEF Becomes
  <2>7. (w.at \in Working <=> nsRun[n].at \in Working) /\ (Took(w) => Took(nsRun[n]))
    BY <1>0, <1>2, <2>1, <2>3 DEF WorkerSound, Working, Took
  <2> QED
    BY <1>0, <1>2, <2>6, <2>7, WorksOn
<1>3. CASE /\ Alive(n)
           /\ nsRun' = [nsRun EXCEPT ![n].partial = FALSE,
                ![n].at = IF nsRun[n].call = "published" THEN "close" ELSE "wait",
                ![n].outcome = IF nsRun[n].call = "published" THEN "tool" ELSE @]
  <2>1. CASE nsRun[n].call = "published"
    <3> DEFINE w == [nsRun[n] EXCEPT !.partial = FALSE, !.at = "close", !.outcome = "tool"]
    <3>1. nsRun[n] \in Workers /\ WorkerSound(nsRun[n], nsGrant)
      BY DEF NativeInv, Runs
    <3>2. w \in Workers
      BY <1>0, <1>3, <2>1, <3>1 DEF Workers, Places
    <3>3. /\ w.partial = FALSE
          /\ w.at = "close"
          /\ w.outcome = "tool"
          /\ \A f \in {"request", "holder", "client", "native", "shim", "log", "call", "turn",
                       "answer", "callFirst", "vouched"} :
               w[f] = nsRun[n][f]
      BY <3>1 DEF Workers
    <3>4. nsRun' = [nsRun EXCEPT ![n] = w]
      BY <1>0, <1>3, <2>1
    <3> HIDE DEF w
    <3>5. WorkerSound(w, nsGrant)
      BY <1>0, <1>3, <2>1, <3>1, <3>3 DEF WorkerSound, Working
    <3>6. Becomes(n, w)
      BY <3>2, <3>3, <3>4, <3>5 DEF Becomes
    <3>7. (w.at \in Working <=> nsRun[n].at \in Working) /\ (Took(w) => Took(nsRun[n]))
      BY <1>0, <1>3, <2>1, <3>1, <3>3 DEF WorkerSound, Working, Took
    <3> QED
      BY <1>0, <1>3, <2>1, <3>6, <3>7, WorksOn
  <2>2. CASE nsRun[n].call # "published"
    <3> DEFINE w == [nsRun[n] EXCEPT !.partial = FALSE,
                                         !.at = "wait",
                                         !.outcome = nsRun[n].outcome]
    <3>1. nsRun[n] \in Workers /\ WorkerSound(nsRun[n], nsGrant)
      BY DEF NativeInv, Runs
    <3>2. w \in Workers
      BY <1>0, <1>3, <2>2, <3>1 DEF Workers, Places
    <3>3. /\ w.partial = FALSE
          /\ w.at = "wait"
          /\ w.outcome = nsRun[n].outcome
          /\ \A f \in {"request", "holder", "client", "native", "shim", "log", "call", "turn",
                       "answer", "callFirst", "vouched"} :
               w[f] = nsRun[n][f]
      BY <3>1 DEF Workers
    <3>4. nsRun' = [nsRun EXCEPT ![n] = w]
      BY <1>0, <1>3, <2>2
    <3> HIDE DEF w
    <3>5. WorkerSound(w, nsGrant)
      BY <1>0, <1>3, <2>2, <3>1, <3>3 DEF WorkerSound, Working
    <3>6. Becomes(n, w)
      BY <3>2, <3>3, <3>4, <3>5 DEF Becomes
    <3>7. (w.at \in Working <=> nsRun[n].at \in Working) /\ (Took(w) => Took(nsRun[n]))
      BY <1>0, <1>3, <2>2, <3>1, <3>3 DEF WorkerSound, Working, Took
    <3> QED
      BY <1>0, <1>3, <2>2, <3>6, <3>7, WorksOn
  <2> QED
    BY <2>1, <2>2
<1> QED
  BY <1>1, <1>2, <1>3 DEF Watch

(* The second look is what keeps a text from answering over a call.         *)
LEMMA WaitsForTheTurn == ASSUME NativeInv, NEW n \in Runs, WaitForTheTurn(n) PROVE NativeInv'
<1>0. nsRun[n].at = "wait" /\ Stays
  BY DEF WaitForTheTurn
<1>1. CASE Moves(n, "watch")
  BY <1>0, <1>1, MovesKeeps
<1>2. CASE Leaves(n, "error")
  BY <1>0, <1>2, LeavesKeeps
<1>3. CASE nsRun' = [nsRun EXCEPT ![n].at = "watch", ![n].partial = TRUE]
  <2> DEFINE w == [nsRun[n] EXCEPT !.at = "watch", !.partial = TRUE]
  <2>1. nsRun[n] \in Workers /\ WorkerSound(nsRun[n], nsGrant)
    BY DEF NativeInv, Runs
  <2>2. w \in Workers
    BY <1>0, <1>3, <2>1 DEF Workers, Places
  <2>3. /\ w.at = "watch"
        /\ w.partial = TRUE
        /\ \A f \in {"request", "holder", "client", "native", "shim", "log", "call", "turn",
                     "outcome", "answer", "callFirst", "vouched"} :
             w[f] = nsRun[n][f]
    BY <2>1 DEF Workers
  <2>4. nsRun' = [nsRun EXCEPT ![n] = w]
    BY <1>0, <1>3
  <2> HIDE DEF w
  <2>5. WorkerSound(w, nsGrant)
    BY <1>0, <1>3, <2>1, <2>3 DEF WorkerSound, Working
  <2>6. Becomes(n, w)
    BY <2>2, <2>3, <2>4, <2>5 DEF Becomes
  <2>7. (w.at \in Working <=> nsRun[n].at \in Working) /\ (Took(w) => Took(nsRun[n]))
    BY <1>0, <1>3, <2>1, <2>3 DEF WorkerSound, Working, Took
  <2> QED
    BY <1>0, <1>3, <2>6, <2>7, WorksOn
<1>4. CASE Leaves(n, IF SecondLook(n) THEN "tool" ELSE Ended(n))
  <2>1. WorkerSound(nsRun[n], nsGrant)
    BY DEF NativeInv, Runs
  <2>2. CASE SecondLook(n)
    BY <1>0, <1>4, <2>2, LeavesKeeps
  <2>3. CASE ~SecondLook(n)
    <3>1. Ended(n) \in {"text", "error"} /\ (Ended(n) = "text" => nsRun[n].turn # "asked")
      BY DEF Ended
    <3>2. ~nsRun[n].callFirst
      BY <1>0, <2>1, <2>3 DEF SecondLook, WorkerSound, Working
    <3>3. Leaves(n, Ended(n))
      BY <1>4, <2>3
    <3> QED
      BY <1>0, <3>1, <3>2, <3>3, LeavesKeeps
  <2> QED
    BY <2>2, <2>3
<1> QED
  BY <1>1, <1>2, <1>3, <1>4 DEF WaitForTheTurn

(* Unless a turn ends in the instant its deadline passes, the deadline      *)
(* leaves an error.                                                         *)
LEMMA DeadlineIsNoText ==
  ASSUME NativeInv, NsAtTheEdge = FALSE, NEW n \in Runs, DeadlinePasses(n)
  PROVE  NativeInv'
<1>1. Leaves(n, "error") /\ nsRun[n].at = "watch" /\ Stays
  BY DEF DeadlinePasses, Ended
<1> QED
  BY <1>1, LeavesKeeps

-----------------------------------------------------------------------------
(* The end of a step.                                                       *)

LEMMA KilledIs ==
  ASSUME NEW n, nsRun[n] \in Workers
  PROVE  /\ Killed(n) \in Workers
         /\ Killed(n).native = IF nsRun[n].native = "up" THEN "gone" ELSE nsRun[n].native
         /\ Killed(n).shim = IF nsRun[n].shim = "ready" THEN "closed" ELSE nsRun[n].shim
         /\ Killed(n).turn = IF nsRun[n].turn = "asked" THEN "failed" ELSE nsRun[n].turn
         /\ \A f \in {"at", "request", "holder", "client", "log", "call", "partial", "outcome",
                      "answer", "callFirst", "vouched"} : Killed(n)[f] = nsRun[n][f]
<1>1. Killed(n) \in Workers
  <2> DEFINE native == IF nsRun[n].native = "up" THEN "gone" ELSE nsRun[n].native
             shim == IF nsRun[n].shim = "ready" THEN "closed" ELSE nsRun[n].shim
             turn == IF nsRun[n].turn = "asked" THEN "failed" ELSE nsRun[n].turn
  <2>1. native \in {"none", "gone"} /\ shim \in {"none", "closed"}
        /\ turn \in {"none", "answered", "failed"}
    BY DEF Workers
  <2>2. Killed(n) = [nsRun[n] EXCEPT !.native = native, !.shim = shim, !.turn = turn]
    BY DEF Killed
  <2> HIDE DEF native, shim, turn
  <2> QED
    BY <2>1, <2>2 DEF Workers
<1>2. /\ Killed(n).native = IF nsRun[n].native = "up" THEN "gone" ELSE nsRun[n].native
      /\ Killed(n).shim = IF nsRun[n].shim = "ready" THEN "closed" ELSE nsRun[n].shim
      /\ Killed(n).turn = IF nsRun[n].turn = "asked" THEN "failed" ELSE nsRun[n].turn
  BY DEF Killed, Workers
<1>3. \A f \in {"at", "request", "holder", "client", "log", "call", "partial", "outcome",
                "answer", "callFirst", "vouched"} : Killed(n)[f] = nsRun[n][f]
  BY DEF Killed, Workers
<1> QED
  BY <1>1, <1>2, <1>3

LEMMA ClosedIs ==
  ASSUME NEW n, nsRun[n] \in Workers, NEW what \in {"text", "tool", "error"},
         authorize(n) \in BOOLEAN
  PROVE  LET w == Closed(n, what) IN
         /\ w \in Workers /\ w.at = "settle" /\ w.outcome = what /\ w.shim = "closed"
         /\ w.turn \in {"none", "failed"} /\ (w.callFirst <=> nsRun[n].callFirst /\ what # "error")
         /\ (w.vouched <=> what # "error" /\ authorize(n))
         /\ w.native = IF nsRun[n].native = "up" THEN "gone" ELSE nsRun[n].native
         /\ \A f \in {"request", "holder", "client", "answer"} : w[f] = nsRun[n][f]
<1> DEFINE k == Killed(n)
           turn == IF Prompted(n) THEN "failed" ELSE "none"
           first == k.callFirst /\ what # "error"
           vouched == what # "error" /\ authorize(n)
           w == [k EXCEPT !.at = "settle", !.outcome = what, !.shim = "closed", !.log = "whole",
                          !.call = "none", !.partial = FALSE, !.turn = turn,
                          !.callFirst = first, !.vouched = vouched]
<1>1. k \in Workers
  BY KilledIs
<1>2. turn \in {"none", "failed"} /\ first \in BOOLEAN /\ vouched \in BOOLEAN
  BY <1>1 DEF Workers
<1>3. Closed(n, what) = w
  BY <1>1 DEF Closed, Workers
<1>4. (first <=> nsRun[n].callFirst /\ what # "error") /\ (vouched <=> what # "error" /\ authorize(n))
  <2>1. k.callFirst = nsRun[n].callFirst
    BY <1>1 DEF Killed, Workers
  <2> QED
    BY <2>1
<1> HIDE DEF k, turn, first, vouched
<1>5. w \in Workers
  <2> DEFINE z == [k EXCEPT !.at = "settle"]
             a == [z EXCEPT !.outcome = what]
             b == [a EXCEPT !.shim = "closed", !.log = "whole"]
             c == [b EXCEPT !.call = "none", !.partial = FALSE]
             d == [c EXCEPT !.turn = turn]
  <2>w. w = [d EXCEPT !.callFirst = first, !.vouched = vouched]
    OBVIOUS
  <2> HIDE DEF w
  <2>0. z \in Workers
    BY <1>1 DEF Workers, Places
  <2> HIDE DEF z
  <2>1. a \in Workers
    BY <2>0 DEF Workers
  <2> HIDE DEF a
  <2>2. b \in Workers
    BY <2>1 DEF Workers
  <2> HIDE DEF b
  <2>3. c \in Workers
    BY <2>2 DEF Workers
  <2> HIDE DEF c
  <2>4. d \in Workers
    BY <1>2, <2>3 DEF Workers
  <2> HIDE DEF d
  <2> QED
    BY <1>2, <2>w, <2>4 DEF Workers
<1>6. /\ w.at = "settle" /\ w.outcome = what /\ w.shim = "closed" /\ w.turn = turn
      /\ w.callFirst = first /\ w.vouched = vouched
      /\ \A f \in {"request", "holder", "client", "answer", "native"} : w[f] = k[f]
  BY <1>1 DEF Workers
<1>7. /\ k.native = IF nsRun[n].native = "up" THEN "gone" ELSE nsRun[n].native
      /\ \A f \in {"request", "holder", "client", "answer"} : k[f] = nsRun[n][f]
  BY KilledIs DEF k
<1> HIDE DEF w
<1> QED
  BY <1>2, <1>3, <1>4, <1>5, <1>6, <1>7

(* However it is cleaned up, what is still to be answered is backed by it.  *)
LEMMA Closes == ASSUME NativeInv, NEW n \in Runs, controller_close(n) PROVE NativeInv'
<1>0. /\ nsRun[n].at = "close" /\ nsLock = n
      /\ nsLock' = 0 /\ UNCHANGED <<nsHolder, nsGrant, nsGrants, nsReserved>>
  BY DEF controller_close, NativeInv, OneWorks, Working
<1>1. nsRun[n] \in Workers /\ WorkerSound(nsRun[n], nsGrant)
  BY DEF NativeInv, Runs
<1>2. nsRun[n].outcome \in {"text", "tool", "error"} /\ authorize(n) \in BOOLEAN
  BY <1>0, <1>1 DEF WorkerSound, Workers, authorize
<1>3. ASSUME NEW what \in {"text", "tool", "error"}, what \in {nsRun[n].outcome, "error"},
             NEW w, w \in Workers, nsRun' = [nsRun EXCEPT ![n] = w],
             w.at = "settle", w.outcome = what, w.shim = "closed", w.turn \in {"none", "failed"},
             w.callFirst <=> nsRun[n].callFirst /\ what # "error",
             w.vouched <=> what # "error" /\ authorize(n),
             what # "error" => w.native = IF nsRun[n].native = "up" THEN "gone" ELSE nsRun[n].native,
             w.request = nsRun[n].request, w.holder = nsRun[n].holder,
             w.client = nsRun[n].client, w.answer = nsRun[n].answer
      PROVE  NativeInv'
  <2>1. WorkerSound(w, nsGrant)
    BY <1>0, <1>1, <1>3 DEF WorkerSound, Working, Workers, authorize
  <2>2. Becomes(n, w)
    BY <1>3, <2>1 DEF Becomes
  <2>3. w.at \notin Working /\ (Took(w) => Took(nsRun[n]))
    BY <1>0, <1>3 DEF Working, Took
  <2> QED
    BY <1>0, <2>2, <2>3, WorkStops
<1>4. CASE nsRun' = [nsRun EXCEPT ![n] = Closed(n, nsRun[n].outcome)]
  <2> DEFINE w == Closed(n, nsRun[n].outcome)
  <2>1. /\ w \in Workers /\ w.at = "settle" /\ w.outcome = nsRun[n].outcome /\ w.shim = "closed"
        /\ w.turn \in {"none", "failed"}
        /\ (w.callFirst <=> nsRun[n].callFirst /\ nsRun[n].outcome # "error")
        /\ (w.vouched <=> nsRun[n].outcome # "error" /\ authorize(n))
        /\ w.native = IF nsRun[n].native = "up" THEN "gone" ELSE nsRun[n].native
        /\ w.request = nsRun[n].request /\ w.holder = nsRun[n].holder
        /\ w.client = nsRun[n].client /\ w.answer = nsRun[n].answer
    BY <1>1, <1>2, ClosedIs
  <2> HIDE DEF w
  <2>2. nsRun' = [nsRun EXCEPT ![n] = w]
    BY <1>4 DEF w
  <2> QED
    BY <1>2, <1>3, <2>1, <2>2
<1>5. CASE nsRun' = [nsRun EXCEPT ![n] = Closed(n, "error")]
  <2> DEFINE w == Closed(n, "error")
  <2>1. /\ w \in Workers /\ w.at = "settle" /\ w.outcome = "error" /\ w.shim = "closed"
        /\ w.turn \in {"none", "failed"} /\ ~w.callFirst /\ ~w.vouched
        /\ w.request = nsRun[n].request /\ w.holder = nsRun[n].holder
        /\ w.client = nsRun[n].client /\ w.answer = nsRun[n].answer
    BY <1>1, <1>2, ClosedIs
  <2> HIDE DEF w
  <2>2. nsRun' = [nsRun EXCEPT ![n] = w]
    BY <1>5 DEF w
  <2> QED
    BY <1>3, <2>1, <2>2
<1>6. CASE nsRun' = [nsRun EXCEPT ![n] = [Closed(n, "error") EXCEPT !.native = "up"]]
  <2> DEFINE c == Closed(n, "error")
             w == [c EXCEPT !.native = "up"]
  <2>1. /\ c \in Workers /\ c.at = "settle" /\ c.outcome = "error" /\ c.shim = "closed"
        /\ c.turn \in {"none", "failed"} /\ ~c.callFirst /\ ~c.vouched
        /\ c.request = nsRun[n].request /\ c.holder = nsRun[n].holder
        /\ c.client = nsRun[n].client /\ c.answer = nsRun[n].answer
    BY <1>1, <1>2, ClosedIs
  <2>2. nsRun' = [nsRun EXCEPT ![n] = w]
    BY <1>6
  <2> HIDE DEF c
  <2>3. w \in Workers
    BY <2>1 DEF Workers
  <2>4. \A f \in {"at", "outcome", "shim", "turn", "callFirst", "vouched", "request", "holder",
                 "client", "answer"} : w[f] = c[f]
    BY <2>1 DEF Workers
  <2> HIDE DEF w
  <2> QED
    BY <1>3, <2>1, <2>2, <2>3, <2>4
<1> QED
  BY <1>4, <1>5, <1>6 DEF controller_close

LEMMA Settles == ASSUME NativeInv, NEW n \in Runs, settle(n) PROVE NativeInv'
<1>0. nsRun[n].at = "settle" /\ Stays
  BY DEF settle
<1>a. PICK what \in {nsRun[n].outcome, "error"} :
        nsRun' = [nsRun EXCEPT ![n].at = "answer", ![n].outcome = what]
  BY DEF settle
<1>b. nsRun[n] \in Workers /\ WorkerSound(nsRun[n], nsGrant)
  BY DEF NativeInv, Runs
<1>c. what \in {"text", "tool", "error"} /\ (what # "error" => what = nsRun[n].outcome)
  BY <1>0, <1>a, <1>b DEF WorkerSound, Workers
<1> DEFINE w == [nsRun[n] EXCEPT !.at = "answer", !.outcome = what]
<1>1. nsRun[n] \in Workers /\ WorkerSound(nsRun[n], nsGrant)
  BY DEF NativeInv, Runs
<1>2. w \in Workers
  <2> DEFINE v == [nsRun[n] EXCEPT !.at = "answer"]
  <2>1. v \in Workers
    BY <1>1 DEF Workers, Places
  <2>2. w = [v EXCEPT !.outcome = what]
    OBVIOUS
  <2> HIDE DEF v
  <2> QED
    BY <1>c, <2>1, <2>2 DEF Workers
<1>3. /\ w.at = "answer"
      /\ w.outcome = what
      /\ \A f \in {"request", "holder", "client", "native", "shim", "log", "call", "turn",
                   "partial", "answer", "callFirst", "vouched"} :
           w[f] = nsRun[n][f]
  BY <1>1 DEF Workers
<1>4. nsRun' = [nsRun EXCEPT ![n] = w]
  BY <1>0, <1>a, <1>c
<1> HIDE DEF w
<1>5. WorkerSound(w, nsGrant)
  BY <1>0, <1>a, <1>c, <1>1, <1>3 DEF WorkerSound, Working
<1>6. Becomes(n, w)
  BY <1>2, <1>3, <1>4, <1>5 DEF Becomes
<1>7. (w.at \in Working <=> nsRun[n].at \in Working) /\ (Took(w) => Took(nsRun[n]))
  BY <1>0, <1>a, <1>c, <1>1, <1>3 DEF WorkerSound, Working, Took
<1> QED
  BY <1>0, <1>a, <1>c, <1>6, <1>7, WorksOn

LEMMA Responds == ASSUME NativeInv, NEW n \in Runs, respond(n) PROVE NativeInv'
<1> DEFINE what == IF authorize(n) THEN nsRun[n].outcome ELSE "error"
<1>0. nsRun[n].at = "answer" /\ Stays /\ Gone(n, "over", what)
  BY DEF respond
<1>1. nsRun[n] \in Workers /\ WorkerSound(nsRun[n], nsGrant)
  BY DEF NativeInv, Runs
<1>2. what \in {"text", "tool", "error"}
  BY <1>0, <1>1 DEF WorkerSound, Workers
<1>3. what \in {"text", "tool"} =>
        /\ nsRun[n].native = "gone" /\ nsRun[n].vouched
        /\ what = "text" => ~nsRun[n].callFirst
  BY <1>0, <1>1 DEF WorkerSound, authorize
<1>4. nsLock # n
  BY <1>0 DEF NativeInv, OneWorks, Working
<1> HIDE DEF what
<1> QED
  BY <1>0, <1>2, <1>3, <1>4, GoneKeeps DEF Stays

LEMMA IsKilled == ASSUME NativeInv, NEW n \in Runs, WorkerKilled(n) PROVE NativeInv'
BY GoneKeeps DEF WorkerKilled

-----------------------------------------------------------------------------
(* What the worker does not decide.                                         *)

LEMMA AgentAsks == ASSUME NativeInv, NEW n \in Runs, AgentCalls(n) PROVE NativeInv'
<1>0. Alive(n) /\ nsRun[n].call = "none" /\ nsRun' = [nsRun EXCEPT ![n].call = "sent"] /\ Stays
  BY DEF AgentCalls
<1>w. nsRun[n] \in Workers /\ WorkerSound(nsRun[n], nsGrant)
  BY DEF NativeInv, Runs
<1>l. nsRun[n].at \in Working
  BY <1>0, <1>w DEF WorkerSound, Working, Workers, Places, Alive
<1> DEFINE w == [nsRun[n] EXCEPT !.call = "sent"]
<1>1. nsRun[n] \in Workers /\ WorkerSound(nsRun[n], nsGrant)
  BY DEF NativeInv, Runs
<1>2. w \in Workers
  BY <1>0, <1>l, <1>1 DEF Workers, Places
<1>3. /\ w.call = "sent"
      /\ \A f \in {"at", "request", "holder", "client", "native", "shim", "log", "turn",
                   "partial", "outcome", "answer", "callFirst", "vouched"} :
           w[f] = nsRun[n][f]
  BY <1>1 DEF Workers
<1>4. nsRun' = [nsRun EXCEPT ![n] = w]
  BY <1>0, <1>l
<1> HIDE DEF w
<1>5. WorkerSound(w, nsGrant)
  BY <1>0, <1>l, <1>1, <1>3 DEF WorkerSound, Working
<1>6. Becomes(n, w)
  BY <1>2, <1>3, <1>4, <1>5 DEF Becomes
<1>7. (w.at \in Working <=> nsRun[n].at \in Working) /\ (Took(w) => Took(nsRun[n]))
  BY <1>0, <1>l, <1>1, <1>3 DEF WorkerSound, Working, Took
<1> QED
  BY <1>0, <1>l, <1>6, <1>7, WorksOn

(* Only a call published while the turn still ran came first.               *)
LEMMA ShimPublishes == ASSUME NativeInv, NEW n \in Runs, tools_call(n) PROVE NativeInv'
<1>0. Alive(n) /\ nsRun[n].call = "sent" /\ Stays
  BY DEF tools_call
<1>w. nsRun[n] \in Workers /\ WorkerSound(nsRun[n], nsGrant)
  BY DEF NativeInv, Runs
<1>l. nsRun[n].at \in Working
  BY <1>0, <1>w DEF WorkerSound, Working, Workers, Places, Alive
<1>1. CASE nsRun' = [nsRun EXCEPT ![n].call = "published", ![n].callFirst = nsRun[n].turn = "asked"]
  <2> DEFINE first == nsRun[n].turn = "asked"
  <2>f. first \in BOOLEAN /\ (first <=> nsRun[n].turn = "asked")
    OBVIOUS
  <2>e. nsRun' = [nsRun EXCEPT ![n].call = "published", ![n].callFirst = first]
    BY <1>1
  <2> DEFINE w == [nsRun[n] EXCEPT !.call = "published", !.callFirst = first]
  <2>1. nsRun[n] \in Workers /\ WorkerSound(nsRun[n], nsGrant)
    BY DEF NativeInv, Runs
  <2>2. w \in Workers
    BY <1>0, <1>l, <2>f, <2>e, <2>1 DEF Workers, Places
  <2>3. /\ w.call = "published"
        /\ w.callFirst = first
        /\ \A f \in {"at", "request", "holder", "client", "native", "shim", "log", "turn",
                     "partial", "outcome", "answer", "vouched"} :
             w[f] = nsRun[n][f]
    BY <2>1 DEF Workers
  <2>4. nsRun' = [nsRun EXCEPT ![n] = w]
    BY <1>0, <1>l, <2>f, <2>e
  <2> HIDE DEF w, first
  <2>5. WorkerSound(w, nsGrant)
    BY <1>0, <1>l, <2>f, <2>e, <2>1, <2>3 DEF WorkerSound, Working
  <2>6. Becomes(n, w)
    BY <2>2, <2>3, <2>4, <2>5 DEF Becomes
  <2>7. (w.at \in Working <=> nsRun[n].at \in Working) /\ (Took(w) => Took(nsRun[n]))
    BY <1>0, <1>l, <2>f, <2>e, <2>1, <2>3 DEF WorkerSound, Working, Took
  <2> QED
    BY <1>0, <1>l, <2>f, <2>e, <2>6, <2>7, WorksOn
<1>2. CASE nsRun' = [nsRun EXCEPT ![n].call = "none"]
  <2> DEFINE w == [nsRun[n] EXCEPT !.call = "none"]
  <2>1. nsRun[n] \in Workers /\ WorkerSound(nsRun[n], nsGrant)
    BY DEF NativeInv, Runs
  <2>2. w \in Workers
    BY <1>0, <1>l, <1>2, <2>1 DEF Workers, Places
  <2>3. /\ w.call = "none"
        /\ \A f \in {"at", "request", "holder", "client", "native", "shim", "log", "turn",
                     "partial", "outcome", "answer", "callFirst", "vouched"} :
             w[f] = nsRun[n][f]
    BY <2>1 DEF Workers
  <2>4. nsRun' = [nsRun EXCEPT ![n] = w]
    BY <1>0, <1>l, <1>2
  <2> HIDE DEF w
  <2>5. WorkerSound(w, nsGrant)
    BY <1>0, <1>l, <1>2, <2>1, <2>3 DEF WorkerSound, Working
  <2>6. Becomes(n, w)
    BY <2>2, <2>3, <2>4, <2>5 DEF Becomes
  <2>7. (w.at \in Working <=> nsRun[n].at \in Working) /\ (Took(w) => Took(nsRun[n]))
    BY <1>0, <1>l, <1>2, <2>1, <2>3 DEF WorkerSound, Working, Took
  <2> QED
    BY <1>0, <1>l, <1>2, <2>6, <2>7, WorksOn
<1> QED
  BY <1>1, <1>2 DEF tools_call

LEMMA ShimAppends == ASSUME NativeInv, NEW n \in Runs, _lifecycle(n) PROVE NativeInv'
<1>0. Stays
  BY DEF _lifecycle
<1>a. PICK log \in {"whole", "partial"} : nsRun' = [nsRun EXCEPT ![n].log = log]
  BY DEF _lifecycle
<1> DEFINE w == [nsRun[n] EXCEPT !.log = log]
<1>1. nsRun[n] \in Workers /\ WorkerSound(nsRun[n], nsGrant)
  BY DEF NativeInv, Runs
<1>2. w \in Workers
  BY <1>0, <1>a, <1>1 DEF Workers, Places
<1>3. /\ w.log = log
      /\ \A f \in {"at", "request", "holder", "client", "native", "shim", "call", "turn",
                   "partial", "outcome", "answer", "callFirst", "vouched"} :
           w[f] = nsRun[n][f]
  BY <1>1 DEF Workers
<1>4. nsRun' = [nsRun EXCEPT ![n] = w]
  BY <1>0, <1>a
<1> HIDE DEF w
<1>5. WorkerSound(w, nsGrant)
  BY <1>0, <1>a, <1>1, <1>3 DEF WorkerSound, Working
<1>6. Becomes(n, w)
  BY <1>2, <1>3, <1>4, <1>5 DEF Becomes
<1>7. (w.at \in Working <=> nsRun[n].at \in Working) /\ (Took(w) => Took(nsRun[n]))
  BY <1>0, <1>a, <1>1, <1>3 DEF WorkerSound, Working, Took
<1> QED
  BY <1>0, <1>a, <1>6, <1>7, WorksOn

LEMMA TurnIsOver == ASSUME NativeInv, NEW n \in Runs, TurnEnds(n) PROVE NativeInv'
<1>0. nsRun[n].turn = "asked" /\ Stays
  BY DEF TurnEnds
<1>a. PICK how \in {"answered", "failed"} : nsRun' = [nsRun EXCEPT ![n].turn = how]
  BY DEF TurnEnds
<1> DEFINE w == [nsRun[n] EXCEPT !.turn = how]
<1>1. nsRun[n] \in Workers /\ WorkerSound(nsRun[n], nsGrant)
  BY DEF NativeInv, Runs
<1>2. w \in Workers
  BY <1>0, <1>a, <1>1 DEF Workers, Places
<1>3. /\ w.turn = how
      /\ \A f \in {"at", "request", "holder", "client", "native", "shim", "log", "call",
                   "partial", "outcome", "answer", "callFirst", "vouched"} :
           w[f] = nsRun[n][f]
  BY <1>1 DEF Workers
<1>4. nsRun' = [nsRun EXCEPT ![n] = w]
  BY <1>0, <1>a
<1> HIDE DEF w
<1>5. WorkerSound(w, nsGrant)
  BY <1>0, <1>a, <1>1, <1>3 DEF WorkerSound, Working
<1>6. Becomes(n, w)
  BY <1>2, <1>3, <1>4, <1>5 DEF Becomes
<1>7. (w.at \in Working <=> nsRun[n].at \in Working) /\ (Took(w) => Took(nsRun[n]))
  BY <1>0, <1>a, <1>1, <1>3 DEF WorkerSound, Working, Took
<1> QED
  BY <1>0, <1>a, <1>6, <1>7, WorksOn

LEMMA AgentIsDead == ASSUME NativeInv, NEW n \in Runs, AgentDies(n) PROVE NativeInv'
<1> DEFINE w == Killed(n)
<1>0. ~Over(n) /\ nsRun[n].native = "up" /\ nsRun' = [nsRun EXCEPT ![n] = w] /\ Stays
  BY DEF AgentDies
<1>1. nsRun[n] \in Workers /\ WorkerSound(nsRun[n], nsGrant)
  BY DEF NativeInv, Runs
<1>2. /\ w \in Workers
      /\ w.native = IF nsRun[n].native = "up" THEN "gone" ELSE nsRun[n].native
      /\ w.shim = IF nsRun[n].shim = "ready" THEN "closed" ELSE nsRun[n].shim
      /\ w.turn = IF nsRun[n].turn = "asked" THEN "failed" ELSE nsRun[n].turn
      /\ \A f \in {"at", "request", "holder", "client", "log", "call", "partial", "outcome",
                   "answer", "callFirst", "vouched"} : w[f] = nsRun[n][f]
  BY <1>1, KilledIs
<1> HIDE DEF w
<1>3. WorkerSound(w, nsGrant)
  BY <1>0, <1>1, <1>2 DEF WorkerSound, Working
<1>4. Becomes(n, w)
  BY <1>0, <1>2, <1>3 DEF Becomes
<1>5. (w.at \in Working <=> nsRun[n].at \in Working) /\ (Took(w) => Took(nsRun[n]))
  BY <1>2 DEF Working, Took
<1> QED
  BY <1>0, <1>4, <1>5, WorksOn

LEMMA ShimIsClosed == ASSUME NativeInv, NEW n \in Runs, ShimCloses(n) PROVE NativeInv'
<1>0. Alive(n) /\ nsRun' = [nsRun EXCEPT ![n].shim = "closed"] /\ Stays
  BY DEF ShimCloses
<1>w. nsRun[n] \in Workers /\ WorkerSound(nsRun[n], nsGrant)
  BY DEF NativeInv, Runs
<1>l. nsRun[n].at \in Working
  BY <1>0, <1>w DEF WorkerSound, Working, Workers, Places, Alive
<1> DEFINE w == [nsRun[n] EXCEPT !.shim = "closed"]
<1>1. nsRun[n] \in Workers /\ WorkerSound(nsRun[n], nsGrant)
  BY DEF NativeInv, Runs
<1>2. w \in Workers
  BY <1>0, <1>l, <1>1 DEF Workers, Places
<1>3. /\ w.shim = "closed"
      /\ \A f \in {"at", "request", "holder", "client", "native", "log", "call", "turn",
                   "partial", "outcome", "answer", "callFirst", "vouched"} :
           w[f] = nsRun[n][f]
  BY <1>1 DEF Workers
<1>4. nsRun' = [nsRun EXCEPT ![n] = w]
  BY <1>0, <1>l
<1> HIDE DEF w
<1>5. WorkerSound(w, nsGrant)
  BY <1>0, <1>l, <1>1, <1>3 DEF WorkerSound, Working
<1>6. Becomes(n, w)
  BY <1>2, <1>3, <1>4, <1>5 DEF Becomes
<1>7. (w.at \in Working <=> nsRun[n].at \in Working) /\ (Took(w) => Took(nsRun[n]))
  BY <1>0, <1>l, <1>1, <1>3 DEF WorkerSound, Working, Took
<1> QED
  BY <1>0, <1>l, <1>6, <1>7, WorksOn

LEMMA HangsUp == ASSUME NativeInv, NEW n \in Runs, disconnected(n) PROVE NativeInv'
<1>0. nsRun' = [nsRun EXCEPT ![n].client = FALSE] /\ Stays
  BY DEF disconnected
<1> DEFINE w == [nsRun[n] EXCEPT !.client = FALSE]
<1>1. nsRun[n] \in Workers /\ WorkerSound(nsRun[n], nsGrant)
  BY DEF NativeInv, Runs
<1>2. w \in Workers
  BY <1>0, <1>1 DEF Workers, Places
<1>3. /\ w.client = FALSE
      /\ \A f \in {"at", "request", "holder", "native", "shim", "log", "call", "turn", "partial",
                   "outcome", "answer", "callFirst", "vouched"} :
           w[f] = nsRun[n][f]
  BY <1>1 DEF Workers
<1>4. nsRun' = [nsRun EXCEPT ![n] = w]
  BY <1>0
<1> HIDE DEF w
<1>5. WorkerSound(w, nsGrant)
  BY <1>0, <1>1, <1>3 DEF WorkerSound, Working
<1>6. Becomes(n, w)
  BY <1>2, <1>3, <1>4, <1>5 DEF Becomes
<1>7. (w.at \in Working <=> nsRun[n].at \in Working) /\ (Took(w) => Took(nsRun[n]))
  BY <1>0, <1>1, <1>3 DEF WorkerSound, Working, Took
<1> QED
  BY <1>0, <1>6, <1>7, WorksOn

(* What changes with the grant, however often it changed before.            *)
GrantMoves ==
  /\ \/ nsGrant' = 0 /\ nsHolder' = nsHolder
     \/ nsGrant' = nsHolder /\ nsHolder' = nsHolder
     \/ nsGrant' = nsHolder + 1 /\ nsHolder' = nsHolder + 1
  /\ nsRun' = [n \in Runs |-> [nsRun[n] EXCEPT !.vouched =
                 \/ @
                 \/ /\ nsRun[n].at \in {"settle", "answer"} /\ nsRun[n].native # "up"
                    /\ nsRun[n].client /\ nsGrant' = nsRun[n].holder]]
  /\ UNCHANGED <<nsReserved, nsLock>>

(* A grant that comes back, or comes to a new holder, vouches for whatever  *)
(* is about to be answered under it.                                        *)
LEMMA GrantChanges == ASSUME NativeInv, GrantMoves PROVE NativeInv'
<1> DEFINE Told(n) == \/ nsRun[n].vouched
                      \/ /\ nsRun[n].at \in {"settle", "answer"} /\ nsRun[n].native # "up"
                         /\ nsRun[n].client /\ nsGrant' = nsRun[n].holder
<1>1. /\ nsHolder' \in Nat /\ nsGrant' \in Nat
      /\ nsRun' = [n \in Runs |-> [nsRun[n] EXCEPT !.vouched = Told(n)]]
      /\ nsReserved' = nsReserved /\ nsLock' = nsLock
  BY DEF GrantMoves, NativeInv
<1>2. Runs = 1..Len(nsRun) /\ Len(nsRun) \in Nat /\ \A n \in Runs : nsRun[n] \in Workers
  BY DEF NativeInv, Runs
<1>3. \A n \in Runs : Told(n) \in BOOLEAN
  BY <1>2 DEF Workers
<1>4. ASSUME NEW n \in Runs
      PROVE  /\ nsRun'[n] \in Workers /\ (nsRun'[n].vouched <=> Told(n))
             /\ \A f \in {"at", "request", "holder", "client", "native", "shim", "log", "call",
                          "turn", "partial", "outcome", "answer", "callFirst"} :
                  nsRun'[n][f] = nsRun[n][f]
  <2> DEFINE vouching == Told(n)
             w == [nsRun[n] EXCEPT !.vouched = vouching]
  <2>1. nsRun'[n] = w /\ vouching \in BOOLEAN /\ nsRun[n] \in Workers
    BY <1>1, <1>2, <1>3
  <2> HIDE DEF vouching
  <2>2. w \in Workers
    BY <2>1 DEF Workers
  <2>3. w.vouched = vouching
        /\ \A f \in {"at", "request", "holder", "client", "native", "shim", "log", "call",
                     "turn", "partial", "outcome", "answer", "callFirst"} : w[f] = nsRun[n][f]
    BY <2>1 DEF Workers
  <2> HIDE DEF w
  <2> QED
    BY <2>1, <2>2, <2>3 DEF vouching
<1>5. nsRun' \in Seq(Workers) /\ Runs' = Runs /\ Len(nsRun') = Len(nsRun)
  <2>1. nsRun' \in [1..Len(nsRun) -> Workers]
    BY <1>1, <1>2, <1>4
  <2> QED
    BY <1>2, <2>1 DEF Runs
<1>6. \A n \in Runs : (Took(nsRun'[n]) <=> Took(nsRun[n])) /\ Named(nsRun'[n]) = Named(nsRun[n])
  BY <1>4 DEF Took, Named
<1>7. ReservedAlone'
  <2>1. \A n \in Runs : Took(nsRun'[n]) => Named(nsRun'[n]) \in nsReserved'
    BY <1>1, <1>6 DEF NativeInv, ReservedAlone
  <2>2. \A n, o \in Runs : n # o /\ Took(nsRun'[n]) /\ Took(nsRun'[o]) => Named(nsRun'[n]) # Named(nsRun'[o])
    BY <1>6 DEF NativeInv, ReservedAlone
  <2> QED
    BY <1>5, <2>1, <2>2 DEF ReservedAlone
<1>8. OneWorks'
  BY <1>1, <1>4, <1>5 DEF NativeInv, OneWorks
<1>9. \A n \in Runs' : WorkerSound(nsRun[n], nsGrant)'
  <2> SUFFICES ASSUME NEW n \in Runs PROVE WorkerSound(nsRun'[n], nsGrant')
    BY <1>5
  <2>1. WorkerSound(nsRun[n], nsGrant)
    BY DEF NativeInv
  <2> QED
    BY <1>4, <2>1 DEF WorkerSound
<1> QED
  BY <1>1, <1>5, <1>7, <1>8, <1>9 DEF NativeInv

-----------------------------------------------------------------------------
LEMMA InitSound == NsInit => NativeInv
BY DEF NsInit, NativeInv, OneWorks, ReservedAlone, Runs

(* Every step of a worker, and of what it started.                          *)
WorkerMoves(n) ==
  \/ load_policy(n) \/ request_frame(n) \/ reserve(n)
  \/ _start(n) \/ _wait_ready(n) \/ _authorized(n) \/ prompt(n)
  \/ Watch(n) \/ WaitForTheTurn(n) \/ DeadlinePasses(n)
  \/ controller_close(n) \/ settle(n) \/ respond(n)
  \/ AgentCalls(n) \/ tools_call(n) \/ _lifecycle(n) \/ TurnEnds(n)
  \/ AgentDies(n) \/ ShimCloses(n) \/ disconnected(n) \/ WorkerKilled(n)

LEMMA WorkerStepSound ==
  ASSUME NativeInv, NsAtTheEdge = FALSE, NEW n \in Runs, WorkerMoves(n)
  PROVE  NativeInv'
BY Loads, Requests, Reserves, Starts, ShakesHands, LooksAgain, Prompts, Watches,
   WaitsForTheTurn, DeadlineIsNoText, Closes, Settles, Responds, AgentAsks, ShimPublishes,
   ShimAppends, TurnIsOver, AgentIsDead, ShimIsClosed, HangsUp, IsKilled DEF WorkerMoves

LEMMA StepSound == ASSUME NativeInv, NsAtTheEdge = FALSE, NsNext PROVE NativeInv'
<1>1. CASE \E r \in NsRequests : status_frame(r)
  BY <1>1, StatusSound DEF status_frame
<1>2. CASE grant
  BY <1>2, GrantChanges DEF grant, GrantMoves
<1>3. CASE \E n \in Runs : WorkerMoves(n)
  BY <1>3, WorkerStepSound
<1> QED
  BY <1>1, <1>2, <1>3 DEF NsNext, WorkerMoves

LEMMA StutterSound == ASSUME NativeInv, UNCHANGED nsVars PROVE NativeInv'
BY DEF NativeInv, OneWorks, ReservedAlone, Runs, nsVars

(* Unless a turn may end in the instant its deadline passes: whatever is    *)
(* killed, withdrawn or sent again, a request asks the model once, an       *)
(* answer is backed by a cleanup and a grant that outlived it, and no call  *)
(* is answered over by a text (run_step, serve).                            *)
THEOREM NativeSoundAlways ==
  ASSUME NsAtTheEdge = FALSE
  PROVE  NsSpec => [](NativeSound /\ OneWorks)
<1>1. NativeInv /\ [NsNext]_nsVars => NativeInv'
  BY StepSound, StutterSound
<1> QED
  BY <1>1, InitSound, InvGivesSound, PTL DEF NsSpec

-----------------------------------------------------------------------------
(* The steps of a lone request are those of any other: only how many        *)
(* workers there may be, and how often the grant may change, differs.       *)
LEMMA SameSteps ==
  ASSUME NEW n
  PROVE  /\ AloneRequest!load_policy(n) => load_policy(n)
         /\ AloneRequest!request_frame(n) => request_frame(n)
         /\ AloneRequest!reserve(n) => reserve(n)
         /\ AloneRequest!_start(n) => _start(n)
         /\ AloneRequest!_wait_ready(n) => _wait_ready(n)
         /\ AloneRequest!_authorized(n) => _authorized(n)
         /\ AloneRequest!prompt(n) => prompt(n)
         /\ AloneRequest!Watch(n) => Watch(n)
         /\ AloneRequest!WaitForTheTurn(n) => WaitForTheTurn(n)
         /\ AloneRequest!DeadlinePasses(n) => DeadlinePasses(n)
         /\ AloneRequest!controller_close(n) => controller_close(n)
         /\ AloneRequest!settle(n) => settle(n)
         /\ AloneRequest!respond(n) => respond(n)
         /\ AloneRequest!AgentCalls(n) => AgentCalls(n)
         /\ AloneRequest!tools_call(n) => tools_call(n)
         /\ AloneRequest!_lifecycle(n) => _lifecycle(n)
         /\ AloneRequest!TurnEnds(n) => TurnEnds(n)
         /\ AloneRequest!AgentDies(n) => AgentDies(n)
         /\ AloneRequest!ShimCloses(n) => ShimCloses(n)
         /\ AloneRequest!disconnected(n) => disconnected(n)
         /\ AloneRequest!WorkerKilled(n) => WorkerKilled(n)
<1>1. AloneRequest!load_policy(n) => load_policy(n)
  BY DEF AloneRequest!load_policy, load_policy, AloneRequest!authorize, authorize,
         AloneRequest!Moves, Moves, AloneRequest!Gone, Gone, AloneRequest!Fresh, Fresh,
         AloneRequest!Refused, Refused, AloneRequest!Stays, Stays, AloneRequest!Prompted,
         Prompted
<1>2. AloneRequest!request_frame(n) => request_frame(n)
  BY DEF AloneRequest!request_frame, request_frame, AloneRequest!authorize, authorize,
         AloneRequest!Moves, Moves, AloneRequest!Gone, Gone, AloneRequest!Fresh, Fresh,
         AloneRequest!Refused, Refused, AloneRequest!Stays, Stays, AloneRequest!Prompted,
         Prompted
<1>3. AloneRequest!reserve(n) => reserve(n)
  BY DEF AloneRequest!reserve, reserve, AloneRequest!authorize, authorize, AloneRequest!Reservable,
         Reservable, AloneRequest!Identity, Identity, AloneRequest!Moves, Moves,
         AloneRequest!Gone, Gone, AloneRequest!Fresh, Fresh, AloneRequest!Refused, Refused,
         AloneRequest!Stays, Stays, AloneRequest!Prompted, Prompted
<1>4. AloneRequest!_start(n) => _start(n)
  BY DEF AloneRequest!_start, _start, AloneRequest!Leaves, Leaves, AloneRequest!Stays, Stays
<1>5. AloneRequest!_wait_ready(n) => _wait_ready(n)
  BY DEF AloneRequest!_wait_ready, _wait_ready, AloneRequest!Leaves, Leaves, AloneRequest!Stays,
         Stays
<1>6. AloneRequest!_authorized(n) => _authorized(n)
  BY DEF AloneRequest!_authorized, _authorized, AloneRequest!authorize, authorize,
         AloneRequest!Moves, Moves, AloneRequest!Leaves, Leaves, AloneRequest!Stays, Stays
<1>7. AloneRequest!prompt(n) => prompt(n)
  BY DEF AloneRequest!prompt, prompt, AloneRequest!Stays, Stays
<1>8. AloneRequest!Watch(n) => Watch(n)
  BY DEF AloneRequest!Watch, Watch, AloneRequest!authorize, authorize, AloneRequest!Alive, Alive,
         AloneRequest!Leaves, Leaves, AloneRequest!Stays, Stays
<1>9. AloneRequest!WaitForTheTurn(n) => WaitForTheTurn(n)
  BY DEF AloneRequest!WaitForTheTurn, WaitForTheTurn, AloneRequest!Moves, Moves, AloneRequest!Leaves,
         Leaves, AloneRequest!SecondLook, SecondLook, AloneRequest!Ended, Ended,
         AloneRequest!Stays, Stays
<1>10. AloneRequest!DeadlinePasses(n) => DeadlinePasses(n)
  BY DEF AloneRequest!DeadlinePasses, DeadlinePasses, AloneRequest!Leaves, Leaves,
         AloneRequest!Ended, Ended, AloneRequest!Stays, Stays
<1>11. AloneRequest!controller_close(n) => controller_close(n)
  BY DEF AloneRequest!controller_close, controller_close, AloneRequest!Closed, Closed,
         AloneRequest!Killed, Killed, AloneRequest!Prompted, Prompted,
         AloneRequest!authorize, authorize
<1>12. AloneRequest!settle(n) => settle(n)
  BY DEF AloneRequest!settle, settle, AloneRequest!authorize, authorize, AloneRequest!Stays, Stays
<1>13. AloneRequest!respond(n) => respond(n)
  BY DEF AloneRequest!respond, respond, AloneRequest!authorize, authorize, AloneRequest!Gone, Gone,
         AloneRequest!Fresh, Fresh, AloneRequest!Prompted, Prompted, AloneRequest!Stays,
         Stays
<1>14. AloneRequest!AgentCalls(n) => AgentCalls(n)
  BY DEF AloneRequest!AgentCalls, AgentCalls, AloneRequest!Alive, Alive, AloneRequest!Prompted,
         Prompted, AloneRequest!Stays, Stays
<1>15. AloneRequest!tools_call(n) => tools_call(n)
  BY DEF AloneRequest!tools_call, tools_call, AloneRequest!Alive, Alive, AloneRequest!Stays, Stays
<1>16. AloneRequest!_lifecycle(n) => _lifecycle(n)
  BY DEF AloneRequest!_lifecycle, _lifecycle, AloneRequest!Alive, Alive, AloneRequest!Prompted,
         Prompted, AloneRequest!Stays, Stays
<1>17. AloneRequest!TurnEnds(n) => TurnEnds(n)
  BY DEF AloneRequest!TurnEnds, TurnEnds, AloneRequest!Over, Over, AloneRequest!Stays, Stays
<1>18. AloneRequest!AgentDies(n) => AgentDies(n)
  BY DEF AloneRequest!AgentDies, AgentDies, AloneRequest!Over, Over, AloneRequest!Killed, Killed,
         AloneRequest!Stays, Stays
<1>19. AloneRequest!ShimCloses(n) => ShimCloses(n)
  BY DEF AloneRequest!ShimCloses, ShimCloses, AloneRequest!Alive, Alive, AloneRequest!Stays, Stays
<1>20. AloneRequest!disconnected(n) => disconnected(n)
  BY DEF AloneRequest!disconnected, disconnected, AloneRequest!Over, Over, AloneRequest!Stays, Stays
<1>21. AloneRequest!WorkerKilled(n) => WorkerKilled(n)
  BY DEF AloneRequest!WorkerKilled, WorkerKilled, AloneRequest!Over, Over, AloneRequest!Gone, Gone,
         AloneRequest!Fresh, Fresh, AloneRequest!Prompted, Prompted
<1> QED
  BY <1>1, <1>2, <1>3, <1>4, <1>5, <1>6, <1>7, <1>8, <1>9, <1>10, <1>11, <1>12, <1>13, <1>14,
     <1>15, <1>16, <1>17, <1>18, <1>19, <1>20, <1>21

LEMMA AloneStepSound == ASSUME NativeInv, NsAtTheEdge = FALSE, AloneRequest!NsNext PROVE NativeInv'
<1>1. CASE \E r \in NsRequests : AloneRequest!status_frame(r)
  BY <1>1, StatusSound DEF AloneRequest!status_frame, AloneRequest!Fresh, Fresh, AloneRequest!Stays, Stays
<1>2. CASE AloneRequest!grant
  BY <1>2, GrantChanges DEF AloneRequest!grant, GrantMoves, AloneRequest!Runs, Runs
<1>3. CASE \E n \in Runs : WorkerMoves(n)
  BY <1>3, WorkerStepSound
<1>4. (\E r \in NsRequests : AloneRequest!status_frame(r)) \/ AloneRequest!grant
      \/ \E n \in Runs : WorkerMoves(n)
  BY SameSteps DEF AloneRequest!NsNext, AloneRequest!Runs, Runs, WorkerMoves
<1> QED
  BY <1>1, <1>2, <1>3, <1>4

(* Unless a turn may end in the instant its deadline passes: the native     *)
(* agent is asked once for a request however often it is sent, an answer is *)
(* backed by a cleanup and a grant that outlived it, and no call it         *)
(* published is answered over by a text (run_step, serve).                  *)
THEOREM RequestSoundAlways ==
  ASSUME NsAtTheEdge = FALSE
  PROVE  ComputerSpec => []RequestSound
<1>1. ComputerInit => NativeInv
  BY InitSound DEF ComputerInit
<1>2. ASSUME NativeInv, [ComputerNext]_<<focus, prVars, crVars, lvVars, lfVars, nsVars>>
      PROVE  NativeInv'
  <2>1. NsNext \/ AloneRequest!NsNext \/ UNCHANGED nsVars
    BY <1>2 DEF ComputerNext
  <2> QED
    BY <1>2, <2>1, StepSound, AloneStepSound, StutterSound
<1>3. NativeInv => RequestSound
  BY InvGivesSound DEF RequestSound
<1> QED
  BY <1>1, <1>2, <1>3, PTL DEF ComputerSpec
-----------------------------------------------------------------------------
(* Shared projects: the inductive invariant.                                *)

Doings == [at : {"idle", "push", "read", "apply"}, n : 0..PrMaxCommands, local : Trees, theirs : Trees]
Applies == [at : {"none", "preflight", "apply"}, want : Trees, expect : Trees, todo : SUBSET PrPaths,
            looked : SUBSET PrPaths]
Sents == [n : 0..PrMaxCommands, by : PrLaptops, want : Trees, expect : Trees]
Writes == [n : 0..PrMaxCommands, by : PrPlaces, want : Trees, expect : Trees, names : SUBSET PrPaths]

PrTyped ==
  /\ tree \in [PrPlaces -> Trees] /\ base \in [PrLaptops -> Trees]
  /\ doing \in [PrLaptops -> Doings] /\ sent \subseteq Sents
  /\ writing \in Writes /\ applying \in [PrPlaces -> Applies]
  /\ manifest \subseteq PrPaths /\ sessions \in BOOLEAN
  /\ backups \subseteq Contents /\ byHand \subseteq Contents /\ raced \subseteq Contents
  /\ pushed \subseteq Contents
  /\ agreed \in [PrLaptops -> SUBSET Contents]
  /\ edits \in Contents /\ commands \in 0..PrMaxCommands

(* A content is one edit's, so it is only ever found at that edit's path.   *)
Fits(f, files) == \A p \in PrPaths : files[p] # 0 => files[p] \in 1..edits /\ f[files[p]] = p
Fitting(f) ==
  /\ \A x \in PrPlaces : Fits(f, tree[x]) /\ Fits(f, applying[x].want) /\ Fits(f, applying[x].expect)
  /\ \A l \in PrLaptops : Fits(f, base[l]) /\ Fits(f, doing[l].local) /\ Fits(f, doing[l].theirs)
  /\ \A r \in sent : Fits(f, r.want) /\ Fits(f, r.expect)
  /\ Fits(f, writing.want)
  /\ \A c \in pushed : c = 0 \/ c \in 1..edits

(* Of what is being replaced the original is in a backup, and what took its *)
(* place since the last look is known.                                      *)
BackedUp ==
  \A x \in PrPlaces :
    /\ applying[x].at # "apply" => applying[x].todo = {}
    /\ \A p \in applying[x].todo :
         /\ applying[x].want[p] # applying[x].expect[p]
         /\ applying[x].expect[p] \in backups \cup {0}
    /\ applying[x].looked \subseteq applying[x].todo
    /\ \A p \in applying[x].looked :
         applying[x].expect[p] # 0 => tree[x][p] \in {applying[x].expect[p], 0} \cup raced

(* A computer asks to replace what it agreed on, and only that.             *)
OfTheAgreed(l, files) == \A p \in PrPaths : files[p] \in agreed[l] \cup {0}
AsksForAgreed ==
  /\ \A l \in PrLaptops : OfTheAgreed(l, base[l])
  /\ \A r \in sent : OfTheAgreed(r.by, r.expect)
  /\ \A l \in PrLaptops : \A p \in PrPaths :
       applying[l].want[p] # applying[l].expect[p] => applying[l].expect[p] \in agreed[l] \cup {0}
  /\ applying[PrSlot].at # "none" => OfTheAgreed(writing.by, applying[PrSlot].expect)

(* What a write touches on the slot is on record, and it knows the record.  *)
OnRecord ==
  /\ LockFree => applying[PrSlot] = Still
  /\ ~LockFree => writing.by \in PrLaptops /\ manifest \subseteq writing.names
  /\ applying[PrSlot].at # "none" => FilesThere(applying[PrSlot].want) \subseteq manifest

PrHolds(f) ==
  /\ PrTyped /\ Fitting(f)
  /\ BackedUp /\ AsksForAgreed /\ OnRecord /\ NothingLost /\ PushedIsSeen

PrInv == \E f : PrHolds(f)

LEMMA NothingIs == Nothing \in Trees /\ \A p \in PrPaths : Nothing[p] = 0
  BY ProjectsAssumption DEF Nothing, Trees, Contents

LEMMA IdleIs == /\ Idle \in Doings /\ Idle.at = "idle" /\ Idle.local = Nothing /\ Idle.theirs = Nothing
  BY NothingIs, ProjectsAssumption DEF Idle, Doings

LEMMA StillIs ==
  /\ Still \in Applies /\ Still.at = "none" /\ Still.want = Nothing /\ Still.expect = Nothing /\ Still.todo = {}
  /\ Still.looked = {}
  BY NothingIs DEF Still, Applies

LEMMA NoWriteIs == NoWrite \in Writes /\ NoWrite.by = PrSlot /\ NoWrite.want = Nothing
  BY NothingIs, ProjectsAssumption DEF NoWrite, Writes, PrPlaces

LEMMA NothingFits == ASSUME NEW f PROVE Fits(f, Nothing)
  BY NothingIs DEF Fits

LEMMA PrInitSound == PrInit => PrInv
<1> SUFFICES ASSUME PrInit PROVE PrHolds([c \in {} |-> 0])
  BY DEF PrInv
<1> DEFINE f == [c \in {} |-> 0]
<1> HIDE DEF f
<1>1. PrTyped
  <2>1. tree \in [PrPlaces -> Trees] /\ base \in [PrLaptops -> Trees]
    BY NothingIs DEF PrInit
  <2>2. doing \in [PrLaptops -> Doings] /\ applying \in [PrPlaces -> Applies] /\ writing \in Writes
    BY IdleIs, StillIs, NoWriteIs DEF PrInit
  <2>3. agreed \in [PrLaptops -> SUBSET Contents] /\ sent \subseteq Sents
    BY DEF PrInit
  <2>4. 0 \in Contents /\ 0 \in 0..PrMaxCommands
    BY ProjectsAssumption DEF Contents
  <2> QED
    BY <2>1, <2>2, <2>3, <2>4 DEF PrInit, PrTyped
<1>2. Fitting(f)
  BY NothingFits, IdleIs, StillIs, NoWriteIs DEF PrInit, Fitting
<1>3. BackedUp /\ NothingLost /\ PushedIsSeen
  <2>1. edits = 0 /\ pushed = {} /\ \A x \in PrPlaces : applying[x] = Still
    BY DEF PrInit
  <2> QED
    BY <2>1, StillIs DEF BackedUp, NothingLost, PushedIsSeen
<1>4. AsksForAgreed
  <2>1. \A l \in PrLaptops : base[l] = Nothing /\ applying[l] = Still
    BY DEF PrInit, PrPlaces
  <2>2. applying[PrSlot] = Still /\ sent = {}
    BY DEF PrInit, PrPlaces
  <2> QED
    BY <2>1, <2>2, NothingIs, StillIs DEF AsksForAgreed, OfTheAgreed
<1>5. OnRecord
  <2>1. applying[PrSlot] = Still /\ LockFree
    BY DEF PrInit, PrPlaces, LockFree
  <2> QED
    BY <2>1, StillIs DEF OnRecord
<1> QED
  BY <1>1, <1>2, <1>3, <1>4, <1>5 DEF PrHolds, f

(* A tree with one file changed.                                            *)
TreeWith(x, p, v) == [tree EXCEPT ![x][p] = v]

LEMMA TreeChanges ==
  ASSUME tree \in [PrPlaces -> Trees], NEW x \in PrPlaces, NEW p \in PrPaths, NEW v \in Contents,
         tree' = TreeWith(x, p, v)
  PROVE  /\ tree' \in [PrPlaces -> Trees] /\ tree'[x][p] = v
         /\ \A y \in PrPlaces, q \in PrPaths : y # x \/ q # p => tree'[y][q] = tree[y][q]
<1> DEFINE t == [tree[x] EXCEPT ![p] = v]
<1>1. tree[x] \in Trees
  OBVIOUS
<1>2. t \in Trees /\ t[p] = v /\ \A q \in PrPaths : q # p => t[q] = tree[x][q]
  BY <1>1 DEF Trees
<1>3. tree' = [tree EXCEPT ![x] = t]
  BY DEF TreeWith
<1> HIDE DEF t
<1> QED
  BY <1>2, <1>3

(* What nothing but the runs' own progress touches.                         *)
LEMMA FitsStays ==
  ASSUME NEW f, NEW files, Fits(f, files), edits' = edits
  PROVE  Fits(f, files)'
  BY DEF Fits

LEMMA SessionKeeps ==
  ASSUME NEW f, PrHolds(f), open_session \/ SessionsEnd \/ UNCHANGED prVars
  PROVE  PrHolds(f)'
<1>1. UNCHANGED <<tree, base, doing, sent, writing, applying, manifest, backups, byHand, raced, pushed,
                  agreed, edits, commands>> /\ sessions' \in BOOLEAN
  BY DEF open_session, SessionsEnd, treeVars, prVars, PrHolds, PrTyped
<1> QED
  BY <1>1 DEF PrHolds, PrTyped, Fitting, Fits, BackedUp, AsksForAgreed, OfTheAgreed, OnRecord,
     LockFree, NothingLost, PushedIsSeen

LEMMA EditKeeps ==
  ASSUME NEW f, PrHolds(f), NEW x \in PrPlaces, NEW p \in PrPaths, EditByHand(x, p)
  PROVE  PrInv'
<1> PICK g : g = [c \in 1..(edits + 1) |-> IF c = edits + 1 THEN p ELSE f[c]]
  OBVIOUS
<1> USE DEF PrHolds
<1>0. edits \in Nat /\ PrTyped /\ PrMaxEdits \in Nat /\ 0 \in Contents
  BY ProjectsAssumption DEF PrTyped, Contents
<1>1. PICK v \in Contents : /\ tree' = [tree EXCEPT ![x][p] = v]
                            /\ \/ v = 0 /\ edits' = edits
                               \/ v = edits + 1 /\ edits' = edits + 1
  BY <1>0 DEF EditByHand, Contents
<1>2. /\ tree' \in [PrPlaces -> Trees] /\ tree'[x][p] = v
      /\ \A y \in PrPlaces, q \in PrPaths : y # x \/ q # p => tree'[y][q] = tree[y][q]
  <2>1. tree \in [PrPlaces -> Trees] /\ v \in Contents
    BY <1>0, <1>1 DEF PrTyped
  <2>2. tree' = TreeWith(x, p, v)
    BY <1>1 DEF TreeWith
  <2> QED
    BY <2>1, <2>2, TreeChanges
<1>3. /\ UNCHANGED <<base, doing, sent, writing, applying, manifest, sessions, backups, pushed,
                     agreed, commands>>
      /\ byHand' = byHand \cup ({tree[x][p]} \ {0})
  BY DEF EditByHand
<1>r. /\ raced \subseteq raced' /\ raced' \subseteq raced \cup {edits'}
      /\ InTheWindow(x, p) => tree'[x][p] \in {0} \cup raced'
  <2>1. CASE edits' = edits + 1 /\ tree' = [tree EXCEPT ![x][p] = edits + 1]
             /\ raced' = IF InTheWindow(x, p) THEN raced \cup {edits + 1} ELSE raced
    <3>1. edits + 1 \in Contents
      BY <1>0, <1>1, <2>1
    <3>2. tree'[x][p] = edits + 1
      BY <1>0, <2>1, <3>1, TreeChanges DEF TreeWith, PrTyped
    <3> QED
      BY <2>1, <3>2
  <2>2. CASE tree' = [tree EXCEPT ![x][p] = 0] /\ UNCHANGED <<edits, raced>>
    <3>1. tree'[x][p] = 0
      BY <1>0, <2>2, TreeChanges DEF TreeWith, PrTyped
    <3> QED
      BY <2>2, <3>1
  <2> QED
    BY <2>1, <2>2 DEF EditByHand
<1>4. edits' \in Contents
  <2>1. edits \in Contents /\ v \in Contents
    BY <1>0, <1>1 DEF PrTyped
  <2> QED
    BY <1>1, <2>1
<1>5. PrTyped'
  <2>1. tree[x][p] \in Contents
    BY <1>0 DEF PrTyped, Trees
  <2> QED
    BY <1>0, <1>2, <1>3, <1>4, <1>r, <2>1 DEF PrTyped
<1>6. Fitting(g)'
  <2>1. ASSUME NEW files, Fits(f, files) PROVE Fits(g, files)'
    <3>1. \A c \in 1..edits : c \in 1..edits' /\ g[c] = f[c]
      BY <1>0, <1>1
    <3> QED
      BY <2>1, <3>1 DEF Fits
  <2>2. \A y \in PrPlaces : Fits(g, tree[y])'
    <3> SUFFICES ASSUME NEW y \in PrPlaces, NEW q \in PrPaths, tree'[y][q] # 0
                 PROVE  tree'[y][q] \in 1..edits' /\ g[tree'[y][q]] = q
      BY DEF Fits
    <3>1. CASE y = x /\ q = p
      <4>1. tree'[y][q] = edits + 1 /\ edits' = edits + 1
        BY <1>1, <1>2, <3>1
      <4>2. edits + 1 \in 1..(edits + 1)
        BY <1>0
      <4> QED
        BY <4>1, <4>2, <3>1
    <3>2. CASE y # x \/ q # p
      <4>1. tree'[y][q] = tree[y][q] /\ Fits(f, tree[y])
        BY <1>2, <3>2 DEF Fitting
      <4>2. tree[y][q] \in 1..edits /\ f[tree[y][q]] = q
        BY <4>1 DEF Fits
      <4>3. \A c \in 1..edits : c \in 1..edits' /\ g[c] = f[c]
        BY <1>0, <1>1
      <4> QED
        BY <4>1, <4>2, <4>3
    <3> QED
      BY <3>1, <3>2
  <2>3. \A c \in pushed : c = 0 \/ c \in 1..edits'
    <3>1. \A c \in 1..edits : c \in 1..edits'
      BY <1>0, <1>1
    <3> QED
      BY <3>1 DEF Fitting
  <2> QED
    BY <1>3, <2>1, <2>2, <2>3 DEF Fitting
<1>7. AsksForAgreed' /\ OnRecord'
  BY <1>3 DEF AsksForAgreed, OfTheAgreed, OnRecord, LockFree
<1>11. BackedUp'
  <2>1. ASSUME NEW y \in PrPlaces, NEW q \in applying[y].looked, applying[y].expect[q] # 0
        PROVE  tree'[y][q] \in {applying[y].expect[q], 0} \cup raced'
    <3>1. q \in PrPaths
      BY <1>0 DEF PrTyped, Applies
    <3>2. CASE y = x /\ q = p
      BY <1>r, <2>1, <3>2 DEF InTheWindow
    <3>3. CASE y # x \/ q # p
      BY <1>2, <1>r, <2>1, <3>1, <3>3 DEF BackedUp
    <3> QED
      BY <3>2, <3>3
  <2> QED
    BY <1>3, <2>1 DEF BackedUp
<1>8. NothingLost'
  <2> SUFFICES ASSUME NEW c \in 1..edits'
               PROVE  c \in backups' \cup byHand' \cup raced' \/ \E y \in PrPlaces, q \in PrPaths : tree'[y][q] = c
    BY DEF NothingLost
  <2>1. CASE c \in 1..edits
    <3>1. CASE c \in backups \cup byHand \cup raced
      BY <1>3, <1>r, <3>1
    <3>2. ASSUME NEW y \in PrPlaces, NEW q \in PrPaths, tree[y][q] = c
          PROVE  c \in byHand' \/ \E z \in PrPlaces, r \in PrPaths : tree'[z][r] = c
      <4>1. c # 0
        BY <1>0, <2>1
      <4> QED
        BY <1>2, <1>3, <3>2, <4>1
    <3> QED
      BY <2>1, <3>1, <3>2 DEF NothingLost
  <2>2. CASE c \notin 1..edits
    <3>1. c = v
      BY <1>0, <1>1, <2>2
    <3> QED
      BY <1>2, <3>1
  <2> QED
    BY <2>1, <2>2
<1>9. PushedIsSeen'
  <2> SUFFICES ASSUME NEW q \in PrIgnored, tree'[PrSlot][q] \in pushed \ {0} PROVE q \in manifest
    BY <1>3 DEF PushedIsSeen
  <2>1. PrSlot \in PrPlaces /\ q \in PrPaths
    BY ProjectsAssumption DEF PrPlaces
  <2>2. CASE PrSlot = x /\ q = p
    <3>1. v \in pushed \ {0}
      BY <1>2, <2>2
    <3>2. v = edits + 1 /\ v \in 1..edits
      BY <1>1, <3>1 DEF Fitting
    <3> QED
      BY <1>0, <3>2
  <2>3. CASE PrSlot # x \/ q # p
    BY <1>2, <2>1, <2>3 DEF PushedIsSeen
  <2> QED
    BY <2>2, <2>3
<1>10. PrHolds(g)'
  BY <1>5, <1>6, <1>7, <1>8, <1>9, <1>11
<1> QED
  BY <1>10 DEF PrInv

(* A record of what runs on one computer, or at one place, is changed.      *)
LEMMA PushKeeps ==
  ASSUME NEW f, PrHolds(f), NEW l \in PrLaptops, push(l)
  PROVE  PrHolds(f)'
<1> DEFINE r == [n |-> commands + 1, by |-> l, want |-> tree[l], expect |-> base[l]]
           d == [Idle EXCEPT !.at = "push", !.n = commands + 1]
<1> USE DEF PrHolds
<1>0. PrTyped /\ l \in PrPlaces
  BY DEF PrPlaces
<1>1. /\ UNCHANGED <<tree, base, writing, applying, manifest, sessions, backups, byHand, raced, pushed,
                     agreed, edits>>
      /\ commands' = commands + 1 /\ commands + 1 \in 0..PrMaxCommands
      /\ sent' = sent \cup {r} /\ doing' = [doing EXCEPT ![l] = d]
  <2>1. commands \in 0..PrMaxCommands /\ commands < PrMaxCommands
    BY <1>0 DEF push, Begins, PrTyped
  <2>2. commands + 1 \in 0..PrMaxCommands
    BY <2>1, ProjectsAssumption
  <2> QED
    BY <2>2 DEF push, Begins, snapshot, treeVars
<1>2. d \in Doings /\ d.local = Nothing /\ d.theirs = Nothing
  BY <1>1, IdleIs DEF Doings
<1>3. r \in Sents /\ r.by = l /\ r.want = tree[l] /\ r.expect = base[l]
  BY <1>0, <1>1 DEF Sents, PrTyped
<1> HIDE DEF r, d
<1>4. /\ doing' \in [PrLaptops -> Doings] /\ sent' \subseteq Sents
      /\ \A k \in PrLaptops : doing'[k] = IF k = l THEN d ELSE doing[k]
  BY <1>0, <1>1, <1>2, <1>3 DEF PrTyped
<1>5. PrTyped'
  BY <1>0, <1>1, <1>4 DEF PrTyped
<1>6. Fitting(f)'
  <2>1. ASSUME NEW files, Fits(f, files) PROVE Fits(f, files)'
    BY <1>1, <2>1 DEF Fits
  <2>2. \A k \in PrLaptops : Fits(f, doing'[k].local) /\ Fits(f, doing'[k].theirs)
    BY <1>2, <1>4, NothingFits DEF Fitting
  <2>3. \A s \in sent' : Fits(f, s.want) /\ Fits(f, s.expect)
    BY <1>0, <1>1, <1>3 DEF Fitting
  <2> QED
    BY <1>1, <2>1, <2>2, <2>3 DEF Fitting
<1>7. AsksForAgreed'
  BY <1>1, <1>3 DEF AsksForAgreed, OfTheAgreed
<1>8. BackedUp' /\ OnRecord' /\ NothingLost' /\ PushedIsSeen'
  BY <1>1 DEF BackedUp, OnRecord, LockFree, NothingLost, PushedIsSeen
<1> QED
  BY <1>5, <1>6, <1>7, <1>8

LEMMA PullKeeps ==
  ASSUME NEW f, PrHolds(f), NEW l \in PrLaptops, pull(l)
  PROVE  PrHolds(f)'
<1> DEFINE d == [Idle EXCEPT !.at = "read", !.local = tree[l]]
<1> USE DEF PrHolds
<1>0. PrTyped /\ l \in PrPlaces
  BY DEF PrPlaces
<1>1. /\ UNCHANGED <<tree, base, sent, writing, applying, manifest, sessions, backups, byHand, raced, pushed,
                     agreed, edits>>
      /\ commands' \in 0..PrMaxCommands
      /\ doing' = [doing EXCEPT ![l] = d]
  <2>1. commands \in 0..PrMaxCommands /\ commands < PrMaxCommands /\ commands' = commands + 1
    BY <1>0 DEF pull, Begins, PrTyped
  <2>2. commands' \in 0..PrMaxCommands
    BY <2>1, ProjectsAssumption
  <2> QED
    BY <2>2 DEF pull, snapshot, treeVars
<1>2. d \in Doings /\ d.local = tree[l] /\ d.theirs = Nothing
  BY <1>0, IdleIs DEF Doings, PrTyped
<1> HIDE DEF d
<1>4. /\ doing' \in [PrLaptops -> Doings]
      /\ \A k \in PrLaptops : doing'[k] = IF k = l THEN d ELSE doing[k]
  BY <1>0, <1>1, <1>2 DEF PrTyped
<1>5. PrTyped'
  BY <1>0, <1>1, <1>4 DEF PrTyped
<1>6. Fitting(f)'
  <2>1. ASSUME NEW files, Fits(f, files) PROVE Fits(f, files)'
    BY <1>1, <2>1 DEF Fits
  <2>2. \A k \in PrLaptops : Fits(f, doing'[k].local) /\ Fits(f, doing'[k].theirs)
    BY <1>0, <1>2, <1>4, NothingFits DEF Fitting
  <2> QED
    BY <1>1, <2>1, <2>2 DEF Fitting
<1>8. BackedUp' /\ AsksForAgreed' /\ OnRecord' /\ NothingLost' /\ PushedIsSeen'
  BY <1>1 DEF BackedUp, AsksForAgreed, OfTheAgreed, OnRecord, LockFree, NothingLost, PushedIsSeen
<1> QED
  BY <1>5, <1>6, <1>8

LEMMA CommandEndsKeeps ==
  ASSUME NEW f, PrHolds(f), NEW l \in PrLaptops, command_ends(l)
  PROVE  PrHolds(f)'
<1> USE DEF PrHolds
<1>0. PrTyped /\ l \in PrPlaces /\ l # PrSlot
  BY ProjectsAssumption DEF PrPlaces
<1>1. /\ UNCHANGED <<tree, base, sent, writing, manifest, sessions, backups, byHand, raced, pushed,
                     agreed, edits, commands>>
      /\ doing' = [doing EXCEPT ![l] = Idle] /\ applying' = [applying EXCEPT ![l] = Still]
  BY DEF command_ends, treeVars
<1>2. /\ doing' \in [PrLaptops -> Doings] /\ applying' \in [PrPlaces -> Applies]
      /\ \A k \in PrLaptops : doing'[k] = IF k = l THEN Idle ELSE doing[k]
      /\ \A y \in PrPlaces : applying'[y] = IF y = l THEN Still ELSE applying[y]
  BY <1>0, <1>1, IdleIs, StillIs DEF PrTyped
<1>3. PrTyped'
  BY <1>0, <1>1, <1>2 DEF PrTyped
<1>4. Fitting(f)'
  <2>1. ASSUME NEW files, Fits(f, files) PROVE Fits(f, files)'
    BY <1>1, <2>1 DEF Fits
  <2>2. \A k \in PrLaptops : Fits(f, doing'[k].local) /\ Fits(f, doing'[k].theirs)
    BY <1>2, IdleIs, NothingFits DEF Fitting
  <2>3. \A y \in PrPlaces : Fits(f, applying'[y].want) /\ Fits(f, applying'[y].expect)
    BY <1>2, StillIs, NothingFits DEF Fitting
  <2> QED
    BY <1>1, <2>1, <2>2, <2>3 DEF Fitting
<1>5. BackedUp'
  BY <1>1, <1>2, StillIs DEF BackedUp
<1>6. PrSlot \in PrPlaces /\ applying'[PrSlot] = applying[PrSlot]
  BY <1>0, <1>2 DEF PrPlaces
<1>7. AsksForAgreed'
  <2>1. \A k \in PrLaptops : applying'[k] = IF k = l THEN Still ELSE applying[k]
    BY <1>2 DEF PrPlaces
  <2> QED
    BY <1>1, <1>6, <2>1, StillIs DEF AsksForAgreed, OfTheAgreed
<1>8. OnRecord' /\ NothingLost' /\ PushedIsSeen'
  BY <1>1, <1>6 DEF OnRecord, LockFree, NothingLost, PushedIsSeen
<1> QED
  BY <1>3, <1>4, <1>5, <1>7, <1>8

LEMMA WriteRefusedKeeps ==
  ASSUME NEW f, PrHolds(f), NEW r \in sent, write_refused(r)
  PROVE  PrHolds(f)'
<1> USE DEF PrHolds
<1>1. /\ UNCHANGED <<tree, base, doing, writing, applying, manifest, sessions, backups, byHand, raced,
                     pushed, agreed, edits, commands>>
      /\ sent' \subseteq sent
  BY DEF write_refused, treeVars
<1>2. PrTyped'
  BY <1>1 DEF PrTyped
<1>3. Fitting(f)'
  <2>1. ASSUME NEW files, Fits(f, files) PROVE Fits(f, files)'
    BY <1>1, <2>1 DEF Fits
  <2> QED
    BY <1>1, <2>1 DEF Fitting
<1>4. BackedUp' /\ AsksForAgreed' /\ OnRecord' /\ NothingLost' /\ PushedIsSeen'
  BY <1>1 DEF BackedUp, AsksForAgreed, OfTheAgreed, OnRecord, LockFree, NothingLost, PushedIsSeen
<1> QED
  BY <1>2, <1>3, <1>4

(* What an apply begins with.                                               *)
LEMMA ApplyIs ==
  ASSUME NEW want \in Trees, NEW expect \in Trees
  PROVE  /\ ApplyOf(want, expect) \in Applies /\ ApplyOf(want, expect).at = "preflight"
         /\ ApplyOf(want, expect).want = want /\ ApplyOf(want, expect).expect = expect
         /\ ApplyOf(want, expect).todo = {}
         /\ ApplyOf(want, expect).looked = {}
  BY DEF ApplyOf, Applies

LEMMA SharedIs ==
  ASSUME NEW files \in Trees, NEW names
  PROVE  /\ _shared_paths(files, names) \in Trees
         /\ \A p \in PrPaths : _shared_paths(files, names)[p] = IF p \in names \/ p \notin PrIgnored
                                                                 THEN files[p] ELSE 0
  BY ProjectsAssumption DEF _shared_paths, Trees, Contents

LEMMA HandleKeeps ==
  ASSUME NEW f, PrHolds(f), NEW r \in sent, handle_write(r)
  PROVE  PrHolds(f)'
<1> DEFINE names == Recorded(r)
           w == [n |-> r.n, by |-> r.by, want |-> r.want, expect |-> r.expect, names |-> names]
           a == ApplyOf(r.want, r.expect)
<1> USE DEF PrHolds
<1>0. /\ PrTyped /\ r \in Sents /\ PrSlot \in PrPlaces /\ PrSlot \notin PrLaptops /\ LockFree
      /\ applying[PrSlot] = Still
  BY ProjectsAssumption DEF PrPlaces, PrTyped, handle_write, OnRecord
<1>1. r.by \in PrLaptops /\ r.n \in 0..PrMaxCommands /\ r.want \in Trees /\ r.expect \in Trees
  BY <1>0 DEF Sents
<1>2. /\ UNCHANGED <<tree, base, doing, sessions, backups, byHand, raced, pushed, agreed, edits, commands>>
      /\ sent' \subseteq sent /\ writing' = w
      /\ \/ UNCHANGED <<manifest, applying>>
         \/ manifest' = names /\ applying' = [applying EXCEPT ![PrSlot] = a]
  BY DEF handle_write, treeVars
<1>3. /\ names \subseteq PrPaths /\ manifest \subseteq names /\ FilesThere(r.want) \subseteq names
  BY <1>0 DEF Recorded, FilesThere, PrTyped
<1> HIDE DEF names
<1>4. w \in Writes /\ w.by = r.by /\ w.want = r.want /\ w.names = names
  BY <1>1, <1>3 DEF Writes, PrPlaces
<1>5. /\ a \in Applies /\ a.at = "preflight" /\ a.want = r.want /\ a.expect = r.expect /\ a.todo = {}
      /\ a.looked = {}
  BY <1>1, ApplyIs
<1> HIDE DEF w, a
<1>6. /\ applying' \in [PrPlaces -> Applies] /\ applying'[PrSlot] \in {Still, a}
      /\ applying'[PrSlot] = a => manifest' = names \/ a = Still
      /\ \A y \in PrPlaces : y # PrSlot => applying'[y] = applying[y]
  BY <1>0, <1>2, <1>5 DEF PrTyped
<1>7. a # Still
  BY <1>5, StillIs
<1>8. manifest \subseteq manifest' /\ manifest' \subseteq names
  BY <1>2, <1>3
<1>9. PrTyped'
  BY <1>0, <1>2, <1>3, <1>4, <1>6, <1>8 DEF PrTyped
<1>10. Fitting(f)'
  <2>1. ASSUME NEW files, Fits(f, files) PROVE Fits(f, files)'
    BY <1>2, <2>1 DEF Fits
  <2>2. Fits(f, r.want) /\ Fits(f, r.expect)
    BY DEF Fitting
  <2>3. \A y \in PrPlaces : Fits(f, applying'[y].want) /\ Fits(f, applying'[y].expect)
    BY <1>5, <1>6, <2>2, StillIs, NothingFits DEF Fitting
  <2>4. Fits(f, writing'.want)
    BY <1>2, <1>4, <2>2
  <2> QED
    BY <1>2, <2>1, <2>3, <2>4 DEF Fitting
<1>11. BackedUp'
  BY <1>2, <1>5, <1>6, StillIs DEF BackedUp
<1>12. AsksForAgreed'
  <2>1. \A l \in PrLaptops : applying'[l] = applying[l]
    BY <1>0, <1>6 DEF PrPlaces
  <2>2. applying'[PrSlot].at # "none" => OfTheAgreed(writing'.by, applying'[PrSlot].expect)
    BY <1>2, <1>4, <1>5, <1>6, StillIs DEF AsksForAgreed
  <2> QED
    BY <1>2, <2>1, <2>2 DEF AsksForAgreed, OfTheAgreed
<1>13. OnRecord'
  <2>1. ~LockFree'
    BY <1>0, <1>1, <1>2, <1>4, NoWriteIs DEF LockFree
  <2>2. writing'.by \in PrLaptops /\ manifest' \subseteq writing'.names
    BY <1>1, <1>2, <1>4, <1>8
  <2>3. applying'[PrSlot].at # "none" => FilesThere(applying'[PrSlot].want) \subseteq manifest'
    BY <1>3, <1>5, <1>6, <1>7, StillIs
  <2> QED
    BY <2>1, <2>2, <2>3 DEF OnRecord, FilesThere
<1>14. NothingLost' /\ PushedIsSeen'
  BY <1>2, <1>8 DEF NothingLost, PushedIsSeen
<1> QED
  BY <1>9, <1>10, <1>11, <1>12, <1>13, <1>14

LEMMA PreflightKeeps ==
  ASSUME NEW f, PrHolds(f), NEW x \in PrPlaces, preflight(x)
  PROVE  PrHolds(f)'
<1> DEFINE a == applying[x]
           differing == {p \in PrPaths : a.want[p] # a.expect[p]}
           k == [a EXCEPT !.at = "apply"]
           b == [k EXCEPT !.todo = differing]
<1> USE DEF PrHolds
<1>0. /\ PrTyped /\ a \in Applies /\ a.at = "preflight" /\ a.want \in Trees /\ a.expect \in Trees
      /\ a.looked = {}
  BY DEF PrTyped, Applies, preflight, BackedUp
<1>1. /\ UNCHANGED <<tree, base, doing, sent, writing, manifest, sessions, byHand, raced, pushed, agreed, edits,
                     commands>>
      /\ backups' = backups \cup ({a.expect[p] : p \in differing} \ {0})
      /\ \A p \in FilesThere(a.want) \cup FilesThere(a.expect) : tree[x][p] = a.expect[p]
  BY DEF preflight
<1>2. applying' = [applying EXCEPT ![x] = b]
  BY <1>0 DEF preflight, PrTyped
<1>3. k \in Applies /\ k.at = "apply" /\ k.want = a.want /\ k.expect = a.expect /\ k.looked = {}
  BY <1>0 DEF Applies
<1> HIDE DEF k
<1>4. differing \subseteq PrPaths
  OBVIOUS
<1>5. b \in Applies /\ b.at = "apply" /\ b.want = a.want /\ b.expect = a.expect /\ b.todo = differing
      /\ b.looked = {}
  BY <1>3, <1>4 DEF Applies
<1> HIDE DEF b
<1>6. /\ applying' \in [PrPlaces -> Applies]
      /\ \A y \in PrPlaces : applying'[y] = IF y = x THEN b ELSE applying[y]
  BY <1>0, <1>2, <1>5 DEF PrTyped
<1>7. backups' \subseteq Contents /\ backups \subseteq backups'
      /\ \A p \in differing : a.expect[p] \in backups' \cup {0}
  <2>1. \A p \in PrPaths : a.expect[p] \in Contents
    BY <1>0 DEF Trees
  <2> QED
    BY <1>0, <1>1, <2>1 DEF PrTyped
<1>8. PrTyped'
  BY <1>0, <1>1, <1>6, <1>7 DEF PrTyped
<1>9. Fitting(f)'
  <2>1. ASSUME NEW files, Fits(f, files) PROVE Fits(f, files)'
    BY <1>1, <2>1 DEF Fits
  <2>2. \A y \in PrPlaces : Fits(f, applying'[y].want) /\ Fits(f, applying'[y].expect)
    BY <1>5, <1>6 DEF Fitting
  <2> QED
    BY <1>1, <2>1, <2>2 DEF Fitting
<1>10. BackedUp'
  <2> SUFFICES ASSUME NEW y \in PrPlaces
               PROVE  /\ applying'[y].at # "apply" => applying'[y].todo = {}
                      /\ \A p \in applying'[y].todo :
                           /\ applying'[y].want[p] # applying'[y].expect[p]
                           /\ applying'[y].expect[p] \in backups' \cup {0}
                      /\ applying'[y].looked \subseteq applying'[y].todo
                      /\ \A p \in applying'[y].looked :
                           applying'[y].expect[p] # 0 => tree'[y][p] \in {applying'[y].expect[p], 0} \cup raced'
    BY DEF BackedUp
  <2>1. CASE y = x
    BY <1>5, <1>6, <1>7, <2>1
  <2>2. CASE y # x
    BY <1>1, <1>6, <1>7, <2>2 DEF BackedUp
  <2> QED
    BY <2>1, <2>2
<1> HIDE DEF differing
<1>11. \A y \in PrPlaces : /\ applying'[y].want = applying[y].want
                           /\ applying'[y].expect = applying[y].expect
                           /\ applying'[y].at # "none" => applying[y].at # "none"
  BY <1>0, <1>5, <1>6
<1>12. PrSlot \in PrPlaces /\ \A l \in PrLaptops : l \in PrPlaces
  BY DEF PrPlaces
<1>13. AsksForAgreed'
  BY <1>1, <1>11, <1>12 DEF AsksForAgreed, OfTheAgreed
<1>14. OnRecord'
  <2>1. applying[PrSlot] = Still => x # PrSlot /\ applying'[PrSlot] = Still
    BY <1>0, <1>6, <1>12, StillIs
  <2> QED
    BY <1>1, <1>11, <1>12, <2>1 DEF OnRecord, LockFree, FilesThere
<1>15. NothingLost' /\ PushedIsSeen'
  BY <1>1, <1>7 DEF NothingLost, PushedIsSeen
<1> QED
  BY <1>8, <1>9, <1>10, <1>13, <1>14, <1>15

LEMMA LookAgainKeeps ==
  ASSUME NEW f, PrHolds(f), NEW x \in PrPlaces, NEW p \in PrPaths, look_again(x, p)
  PROVE  PrHolds(f)'
<1> DEFINE a == applying[x]
           b == [a EXCEPT !.looked = {p}]
<1> USE DEF PrHolds
<1>0. PrTyped /\ a \in Applies /\ a.at = "apply" /\ p \in a.todo /\ tree[x][p] = a.expect[p]
  BY DEF PrTyped, look_again, Unchanged
<1>1. UNCHANGED <<tree, base, doing, sent, writing, manifest, sessions, backups, byHand, raced, pushed,
                  agreed, edits, commands>>
  BY DEF look_again, treeVars
<1>2. applying' = [applying EXCEPT ![x] = b]
  BY <1>0 DEF look_again, PrTyped
<1>3. /\ b \in Applies /\ b.at = "apply" /\ b.want = a.want /\ b.expect = a.expect /\ b.todo = a.todo
      /\ b.looked = {p}
  BY <1>0 DEF Applies
<1> HIDE DEF b
<1>4. /\ applying' \in [PrPlaces -> Applies]
      /\ \A y \in PrPlaces : applying'[y] = IF y = x THEN b ELSE applying[y]
  BY <1>0, <1>2, <1>3 DEF PrTyped
<1>5. PrTyped'
  BY <1>0, <1>1, <1>4 DEF PrTyped
<1>6. \A y \in PrPlaces : /\ applying'[y].want = applying[y].want
                          /\ applying'[y].expect = applying[y].expect
                          /\ applying'[y].todo = applying[y].todo
                          /\ applying'[y].at = applying[y].at
  BY <1>0, <1>3, <1>4
<1>7. Fitting(f)'
  <2>1. ASSUME NEW files, Fits(f, files) PROVE Fits(f, files)'
    BY <1>1, <2>1 DEF Fits
  <2>2. \A y \in PrPlaces : Fits(f, applying'[y].want) /\ Fits(f, applying'[y].expect)
    BY <1>6 DEF Fitting
  <2> QED
    BY <1>1, <2>1, <2>2 DEF Fitting
<1>8. BackedUp'
  <2>1. \A y \in PrPlaces : applying'[y].looked = IF y = x THEN {p} ELSE applying[y].looked
    BY <1>3, <1>4
  <2> QED
    BY <1>0, <1>1, <1>6, <2>1 DEF BackedUp
<1>9. PrSlot \in PrPlaces /\ \A l \in PrLaptops : l \in PrPlaces
  BY DEF PrPlaces
<1>10. AsksForAgreed'
  BY <1>1, <1>6, <1>9 DEF AsksForAgreed, OfTheAgreed
<1>11. OnRecord'
  <2>1. applying[PrSlot] = Still => x # PrSlot /\ applying'[PrSlot] = Still
    BY <1>0, <1>4, <1>9, StillIs
  <2> QED
    BY <1>1, <1>6, <1>9, <2>1 DEF OnRecord, LockFree, FilesThere
<1>12. NothingLost' /\ PushedIsSeen'
  BY <1>1 DEF NothingLost, PushedIsSeen
<1> QED
  BY <1>5, <1>7, <1>8, <1>10, <1>11, <1>12

LEMMA ApplyKeeps ==
  ASSUME NEW f, PrHolds(f), NEW x \in PrPlaces, NEW p \in PrPaths, apply_one(x, p)
  PROVE  PrHolds(f)'
<1> DEFINE a == applying[x]
           k == [a EXCEPT !.todo = a.todo \ {p}]
           b == [k EXCEPT !.looked = {}]
           v == a.want[p]
<1> USE DEF PrHolds
<1>0. /\ PrTyped /\ a \in Applies /\ a.at = "apply" /\ a.want \in Trees /\ a.expect \in Trees
      /\ p \in a.todo /\ tree[x][p] \in {a.expect[p], 0} \cup raced
  <2>1. PrTyped /\ a \in Applies /\ p \in a.looked /\ MayReplace(x, p)
    BY DEF PrTyped, apply_one
  <2>2. p \in a.todo /\ a.at = "apply"
    BY <2>1 DEF BackedUp
  <2>3. tree[x][p] \in {a.expect[p], 0} \cup raced
    BY <2>1 DEF BackedUp, MayReplace
  <2> QED
    BY <2>1, <2>2, <2>3 DEF Applies
<1>1. /\ UNCHANGED <<base, doing, sent, writing, manifest, sessions, backups, byHand, raced, agreed, edits,
                     commands>>
      /\ pushed' = IF x = PrSlot THEN pushed \cup {v} ELSE pushed
  BY DEF apply_one
<1>2. applying' = [applying EXCEPT ![x] = b] /\ tree' = TreeWith(x, p, v)
  BY <1>0 DEF apply_one, PrTyped, TreeWith
<1>3. v \in Contents
  BY <1>0 DEF Trees
<1> HIDE DEF v
<1>4. /\ tree' \in [PrPlaces -> Trees] /\ tree'[x][p] = v
      /\ \A y \in PrPlaces, q \in PrPaths : y # x \/ q # p => tree'[y][q] = tree[y][q]
  <2>1. tree \in [PrPlaces -> Trees]
    BY <1>0 DEF PrTyped
  <2> QED
    BY <1>2, <1>3, <2>1, TreeChanges
<1>17. k \in Applies /\ k.at = "apply" /\ k.want = a.want /\ k.expect = a.expect /\ k.todo = a.todo \ {p}
  BY <1>0 DEF Applies
<1> HIDE DEF k
<1>5. /\ b \in Applies /\ b.at = "apply" /\ b.want = a.want /\ b.expect = a.expect /\ b.todo = a.todo \ {p}
      /\ b.looked = {}
  BY <1>17 DEF Applies
<1> HIDE DEF b
<1>6. /\ applying' \in [PrPlaces -> Applies]
      /\ \A y \in PrPlaces : applying'[y] = IF y = x THEN b ELSE applying[y]
  BY <1>0, <1>2, <1>5 DEF PrTyped
<1>7. PrTyped'
  BY <1>0, <1>1, <1>3, <1>4, <1>6 DEF PrTyped
<1>8. Fits(f, a.want) /\ (v # 0 => v \in 1..edits /\ f[v] = p)
  BY DEF Fitting, Fits, v
<1>9. Fitting(f)'
  <2>1. ASSUME NEW files, Fits(f, files) PROVE Fits(f, files)'
    BY <1>1, <2>1 DEF Fits
  <2>2. \A y \in PrPlaces : Fits(f, applying'[y].want) /\ Fits(f, applying'[y].expect)
    BY <1>5, <1>6 DEF Fitting
  <2>3. \A y \in PrPlaces : Fits(f, tree'[y])
    <3> SUFFICES ASSUME NEW y \in PrPlaces, NEW q \in PrPaths, tree'[y][q] # 0
                 PROVE  tree'[y][q] \in 1..edits /\ f[tree'[y][q]] = q
      BY DEF Fits
    <3>1. CASE y = x /\ q = p
      BY <1>4, <1>8, <3>1
    <3>2. CASE y # x \/ q # p
      <4>1. tree'[y][q] = tree[y][q] /\ Fits(f, tree[y])
        BY <1>4, <3>2 DEF Fitting
      <4> QED
        BY <4>1 DEF Fits
    <3> QED
      BY <3>1, <3>2
  <2>4. \A c \in pushed' : c = 0 \/ c \in 1..edits
    BY <1>1, <1>8 DEF Fitting
  <2> QED
    BY <1>1, <2>1, <2>2, <2>3, <2>4 DEF Fitting
<1>10. BackedUp'
  <2> SUFFICES ASSUME NEW y \in PrPlaces
               PROVE  /\ applying'[y].at # "apply" => applying'[y].todo = {}
                      /\ \A q \in applying'[y].todo :
                           /\ applying'[y].want[q] # applying'[y].expect[q]
                           /\ applying'[y].expect[q] \in backups' \cup {0}
                      /\ applying'[y].looked \subseteq applying'[y].todo
                      /\ \A q \in applying'[y].looked :
                           applying'[y].expect[q] # 0 => tree'[y][q] \in {applying'[y].expect[q], 0} \cup raced'
    BY DEF BackedUp
  <2>1. CASE y = x
    BY <1>0, <1>1, <1>5, <1>6, <2>1 DEF BackedUp
  <2>2. CASE y # x
    <3>1. applying'[y] = applying[y] /\ \A q \in PrPaths : tree'[y][q] = tree[y][q]
      BY <1>4, <1>6, <2>2
    <3>2. applying[y].looked \subseteq PrPaths
      BY <1>0 DEF PrTyped, Applies
    <3> QED
      BY <1>1, <3>1, <3>2 DEF BackedUp
  <2> QED
    BY <2>1, <2>2
<1>11. \A y \in PrPlaces : /\ applying'[y].want = applying[y].want
                           /\ applying'[y].expect = applying[y].expect
                           /\ applying'[y].at # "none" => applying[y].at # "none"
  BY <1>0, <1>5, <1>6
<1>12. PrSlot \in PrPlaces /\ \A l \in PrLaptops : l \in PrPlaces
  BY DEF PrPlaces
<1>13. AsksForAgreed'
  BY <1>1, <1>11, <1>12 DEF AsksForAgreed, OfTheAgreed
<1>14. OnRecord'
  <2>1. applying[PrSlot] = Still => x # PrSlot /\ applying'[PrSlot] = Still
    BY <1>0, <1>6, <1>12, StillIs
  <2> QED
    BY <1>1, <1>11, <1>12, <2>1 DEF OnRecord, LockFree, FilesThere
<1>15. NothingLost'
  <2> SUFFICES ASSUME NEW c \in 1..edits
               PROVE  c \in backups \cup byHand \cup raced \/ \E y \in PrPlaces, q \in PrPaths : tree'[y][q] = c
    BY <1>1 DEF NothingLost
  <2>1. ASSUME NEW y \in PrPlaces, NEW q \in PrPaths, tree[y][q] = c
        PROVE  c \in backups \cup raced \/ \E z \in PrPlaces, r \in PrPaths : tree'[z][r] = c
    <3>1. CASE y = x /\ q = p
      <4>1. c \in backups \cup {0} \cup raced
        BY <1>0, <2>1, <3>1 DEF BackedUp
      <4>2. c # 0
        BY <1>0 DEF PrTyped, Contents
      <4> QED
        BY <4>1, <4>2
    <3>2. CASE y # x \/ q # p
      BY <1>4, <2>1, <3>2
    <3> QED
      BY <3>1, <3>2
  <2> QED
    BY <2>1 DEF NothingLost
<1>16. PushedIsSeen'
  <2> SUFFICES ASSUME NEW q \in PrIgnored, tree'[PrSlot][q] \in pushed' \ {0} PROVE q \in manifest
    BY <1>1 DEF PushedIsSeen
  <2>1. q \in PrPaths
    BY ProjectsAssumption
  <2>2. CASE PrSlot # x
    BY <1>1, <1>4, <1>12, <2>1, <2>2 DEF PushedIsSeen
  <2>3. CASE PrSlot = x
    <3>1. FilesThere(a.want) \subseteq manifest
      BY <1>0, <2>3 DEF OnRecord
    <3>2. CASE q = p
      BY <1>4, <2>1, <2>3, <3>1, <3>2 DEF FilesThere, v
    <3>3. CASE q # p
      <4>1. tree'[PrSlot][q] = tree[PrSlot][q] /\ Fits(f, tree[PrSlot])
        BY <1>4, <1>12, <2>1, <3>3 DEF Fitting
      <4>2. tree[PrSlot][q] # v
        BY <1>8, <2>1, <3>3, <4>1 DEF Fits
      <4> QED
        BY <1>1, <2>3, <4>1, <4>2 DEF PushedIsSeen
    <3> QED
      BY <3>2, <3>3
  <2> QED
    BY <2>2, <2>3
<1> QED
  BY <1>7, <1>9, <1>10, <1>13, <1>14, <1>15, <1>16

LEMMA StopsKeeps ==
  ASSUME NEW f, PrHolds(f), write_stops
  PROVE  PrHolds(f)'
<1> USE DEF PrHolds
<1>0. PrTyped /\ PrSlot \in PrPlaces /\ PrSlot \notin PrLaptops
  BY ProjectsAssumption DEF PrPlaces
<1>1. /\ UNCHANGED <<tree, base, doing, sent, manifest, sessions, backups, byHand, raced, pushed, agreed,
                     edits, commands>>
      /\ writing' = NoWrite /\ applying' = [applying EXCEPT ![PrSlot] = Still]
  BY DEF write_stops, treeVars
<1>2. /\ applying' \in [PrPlaces -> Applies]
      /\ \A y \in PrPlaces : applying'[y] = IF y = PrSlot THEN Still ELSE applying[y]
  BY <1>0, <1>1, StillIs DEF PrTyped
<1>3. PrTyped'
  BY <1>0, <1>1, <1>2, NoWriteIs DEF PrTyped
<1>4. Fitting(f)'
  <2>1. ASSUME NEW files, Fits(f, files) PROVE Fits(f, files)'
    BY <1>1, <2>1 DEF Fits
  <2>2. \A y \in PrPlaces : Fits(f, applying'[y].want) /\ Fits(f, applying'[y].expect)
    BY <1>2, StillIs, NothingFits DEF Fitting
  <2>3. Fits(f, writing'.want)
    BY <1>1, NoWriteIs, NothingFits
  <2> QED
    BY <1>1, <2>1, <2>2, <2>3 DEF Fitting
<1>5. BackedUp'
  BY <1>1, <1>2, StillIs DEF BackedUp
<1>6. AsksForAgreed'
  <2>1. \A l \in PrLaptops : applying'[l] = applying[l]
    BY <1>0, <1>2 DEF PrPlaces
  <2> QED
    BY <1>0, <1>1, <1>2, <2>1, StillIs DEF AsksForAgreed, OfTheAgreed
<1>7. OnRecord'
  BY <1>0, <1>1, <1>2, StillIs DEF OnRecord, LockFree
<1>8. NothingLost' /\ PushedIsSeen'
  BY <1>1 DEF NothingLost, PushedIsSeen
<1> QED
  BY <1>3, <1>4, <1>5, <1>6, <1>7, <1>8

(* What a computer agrees on is added to what it ever agreed on.            *)
LEMMA AgreeIs ==
  ASSUME PrTyped, NEW l \in PrLaptops, NEW files \in Trees, Agree(l, files),
         \A k \in PrLaptops : OfTheAgreed(k, base[k])
  PROVE  /\ base' \in [PrLaptops -> Trees] /\ agreed' \in [PrLaptops -> SUBSET Contents]
         /\ \A k \in PrLaptops : base'[k] = (IF k = l THEN files ELSE base[k]) /\ agreed[k] \subseteq agreed'[k]
         /\ \A k \in PrLaptops : OfTheAgreed(k, base[k])'
<1> DEFINE s == {files[p] : p \in FilesThere(files)}
<1>1. base' = [base EXCEPT ![l] = files] /\ agreed' = [agreed EXCEPT ![l] = agreed[l] \cup s]
  BY DEF Agree
<1>2. s \subseteq Contents /\ \A p \in PrPaths : files[p] \in s \cup {0}
  BY DEF FilesThere, Trees
<1> HIDE DEF s
<1>3. /\ base' \in [PrLaptops -> Trees] /\ agreed' \in [PrLaptops -> SUBSET Contents]
      /\ \A k \in PrLaptops : base'[k] = (IF k = l THEN files ELSE base[k])
      /\ \A k \in PrLaptops : agreed'[k] = IF k = l THEN agreed[l] \cup s ELSE agreed[k]
  BY <1>1, <1>2 DEF PrTyped
<1>4. \A k \in PrLaptops : agreed[k] \subseteq agreed'[k]
  BY <1>3
<1>5. ASSUME NEW k \in PrLaptops PROVE \A p \in PrPaths : base'[k][p] \in agreed'[k] \cup {0}
  BY <1>2, <1>3 DEF OfTheAgreed
<1> QED
  BY <1>3, <1>4, <1>5 DEF OfTheAgreed

LEMMA WriteDoneKeeps ==
  ASSUME NEW f, PrHolds(f), write_done
  PROVE  PrHolds(f)'
<1> USE DEF PrHolds
<1>0. /\ PrTyped /\ PrSlot \in PrPlaces /\ PrSlot \notin PrLaptops /\ writing.want \in Trees
      /\ writing.by \in PrLaptops /\ manifest \subseteq writing.names
  BY ProjectsAssumption DEF PrPlaces, PrTyped, Writes, write_done, OnRecord
<1>1. /\ UNCHANGED <<tree, sent, sessions, backups, byHand, raced, pushed, edits, commands>>
      /\ writing' = NoWrite /\ applying' = [applying EXCEPT ![PrSlot] = Still]
      /\ manifest' = FilesThere(writing.want)
      /\ _shared_paths(tree[PrSlot], writing.names) = writing.want
  BY DEF write_done, treeVars
<1>2. /\ applying' \in [PrPlaces -> Applies]
      /\ \A y \in PrPlaces : applying'[y] = IF y = PrSlot THEN Still ELSE applying[y]
  BY <1>0, <1>1, StillIs DEF PrTyped
<1>3. /\ doing' \in [PrLaptops -> Doings] /\ base' \in [PrLaptops -> Trees]
      /\ agreed' \in [PrLaptops -> SUBSET Contents]
      /\ \A k \in PrLaptops : /\ doing'[k] \in {Idle, doing[k]}
                              /\ base'[k] \in {base[k], writing.want}
                              /\ agreed[k] \subseteq agreed'[k]
      /\ \A k \in PrLaptops : OfTheAgreed(k, base[k])'
  <2>1. CASE doing' = [doing EXCEPT ![writing.by] = Idle] /\ Agree(writing.by, writing.want)
    <3>1. /\ doing' \in [PrLaptops -> Doings]
          /\ \A k \in PrLaptops : doing'[k] \in {Idle, doing[k]}
      BY <1>0, <2>1, IdleIs DEF PrTyped
    <3>2. \A k \in PrLaptops : OfTheAgreed(k, base[k])
      BY DEF AsksForAgreed
    <3> QED
      BY <1>0, <2>1, <3>1, <3>2, AgreeIs
  <2>2. CASE UNCHANGED <<doing, base, agreed>>
    BY <1>0, <2>2 DEF PrTyped, AsksForAgreed, OfTheAgreed
  <2> QED
    BY <2>1, <2>2 DEF write_done
<1>4. PrTyped'
  <2>1. manifest' \subseteq PrPaths
    BY <1>1 DEF FilesThere
  <2> QED
    BY <1>0, <1>1, <1>2, <1>3, <2>1, NoWriteIs DEF PrTyped
<1>5. Fitting(f)'
  <2>1. ASSUME NEW files, Fits(f, files) PROVE Fits(f, files)'
    BY <1>1, <2>1 DEF Fits
  <2>2. \A y \in PrPlaces : Fits(f, applying'[y].want) /\ Fits(f, applying'[y].expect)
    BY <1>2, StillIs, NothingFits DEF Fitting
  <2>3. Fits(f, writing'.want)
    BY <1>1, NoWriteIs, NothingFits
  <2>4. \A k \in PrLaptops : Fits(f, base'[k]) /\ Fits(f, doing'[k].local) /\ Fits(f, doing'[k].theirs)
    BY <1>3, IdleIs, NothingFits DEF Fitting
  <2> QED
    BY <1>1, <2>1, <2>2, <2>3, <2>4 DEF Fitting
<1>6. BackedUp'
  BY <1>1, <1>2, StillIs DEF BackedUp
<1>7. AsksForAgreed'
  <2>1. \A l \in PrLaptops : applying'[l] = applying[l]
    BY <1>0, <1>2 DEF PrPlaces
  <2>2. \A r \in sent : r.by \in PrLaptops
    BY <1>0 DEF PrTyped, Sents
  <2>3. applying'[PrSlot].at = "none"
    BY <1>0, <1>2, StillIs
  <2>4. \A r \in sent' : \A p \in PrPaths : r.expect[p] \in agreed'[r.by] \cup {0}
    BY <1>1, <1>3, <2>2 DEF AsksForAgreed, OfTheAgreed
  <2>5. \A l \in PrLaptops : \A p \in PrPaths :
          applying'[l].want[p] # applying'[l].expect[p] => applying'[l].expect[p] \in agreed'[l] \cup {0}
    BY <1>3, <2>1 DEF AsksForAgreed
  <2> QED
    BY <1>3, <2>3, <2>4, <2>5 DEF AsksForAgreed, OfTheAgreed
<1>8. OnRecord'
  BY <1>0, <1>1, <1>2, StillIs DEF OnRecord, LockFree
<1>9. NothingLost'
  BY <1>1 DEF NothingLost
<1>10. PushedIsSeen'
  <2> SUFFICES ASSUME NEW q \in PrIgnored, tree[PrSlot][q] \in pushed \ {0} PROVE q \in FilesThere(writing.want)
    BY <1>1 DEF PushedIsSeen
  <2>1. q \in writing.names /\ q \in PrPaths
    BY <1>0, ProjectsAssumption DEF PushedIsSeen
  <2>2. writing.want[q] = tree[PrSlot][q]
    <3>1. tree[PrSlot] \in Trees
      BY <1>0 DEF PrTyped
    <3> QED
      BY <1>1, <2>1, <3>1, SharedIs
  <2> QED
    BY <2>1, <2>2 DEF FilesThere
<1> QED
  BY <1>4, <1>5, <1>6, <1>7, <1>8, <1>9, <1>10

LEMMA MergeProjectIs ==
  ASSUME NEW was \in Trees, NEW ours \in Trees, NEW theirs \in Trees
  PROVE  /\ merge_project(was, ours, theirs) \in Trees
         /\ \A p \in PrPaths : merge_project(was, ours, theirs)[p]
                               = IF theirs[p] # was[p] THEN theirs[p] ELSE ours[p]
  BY DEF merge_project, Trees

LEMMA ReadMergeKeeps ==
  ASSUME NEW f, PrHolds(f), NEW l \in PrLaptops, read_merge(l)
  PROVE  PrHolds(f)'
<1> DEFINE c == doing[l]
           theirs == _shared_paths(tree[PrSlot], manifest)
           merged == merge_project(base[l], c.local, theirs)
           a == ApplyOf(merged, c.local)
           k == [Idle EXCEPT !.at = "apply"]
           d == [k EXCEPT !.theirs = theirs]
<1> USE DEF PrHolds
<1>0. /\ PrTyped /\ PrSlot \in PrPlaces /\ PrSlot \notin PrLaptops /\ l \in PrPlaces /\ l # PrSlot
      /\ c \in Doings /\ c.local \in Trees /\ base[l] \in Trees /\ tree[PrSlot] \in Trees
  BY ProjectsAssumption DEF PrPlaces, PrTyped, Doings
<1>1. /\ theirs \in Trees
      /\ \A p \in PrPaths : theirs[p] \in {0, tree[PrSlot][p]}
  BY <1>0, SharedIs
<1>2. /\ UNCHANGED <<tree, sent, writing, manifest, sessions, backups, byHand, raced, pushed, edits, commands>>
      /\ ~Conflict(base[l], c.local, theirs)
      /\ \/ Agree(l, theirs) /\ doing' = [doing EXCEPT ![l] = Idle] /\ UNCHANGED applying
         \/ doing' = [doing EXCEPT ![l] = d] /\ applying' = [applying EXCEPT ![l] = a] /\ UNCHANGED <<base, agreed>>
  BY DEF read_merge, treeVars
<1>3. /\ merged \in Trees
      /\ \A p \in PrPaths : merged[p] = IF theirs[p] # base[l][p] THEN theirs[p] ELSE c.local[p]
  BY <1>0, <1>1, MergeProjectIs
<1>4. ASSUME NEW p \in PrPaths, merged[p] # c.local[p] PROVE c.local[p] \in agreed[l] \cup {0}
  <2>1. theirs[p] # base[l][p] /\ c.local[p] = base[l][p]
    BY <1>2, <1>3, <1>4 DEF Conflict
  <2> QED
    BY <2>1 DEF AsksForAgreed, OfTheAgreed
<1>5. Fits(f, theirs)
  <2>1. Fits(f, tree[PrSlot])
    BY <1>0 DEF Fitting
  <2> HIDE DEF theirs
  <2> QED
    BY <1>1, <2>1 DEF Fits
<1>6. Fits(f, merged)
  <2>1. Fits(f, c.local)
    BY DEF Fitting
  <2> HIDE DEF merged, theirs, c
  <2> QED
    BY <1>3, <1>5, <2>1 DEF Fits
<1> HIDE DEF theirs, merged
<1>7. /\ a \in Applies /\ a.at = "preflight" /\ a.want = merged /\ a.expect = c.local /\ a.todo = {}
      /\ a.looked = {}
  BY <1>0, <1>3, ApplyIs
<1>8. k \in Doings /\ k.local = Nothing
  BY IdleIs DEF Doings
<1> HIDE DEF k
<1>9. d \in Doings /\ d.local = Nothing /\ d.theirs = theirs
  BY <1>1, <1>8 DEF Doings
<1> HIDE DEF a, d
<1>10. /\ doing' \in [PrLaptops -> Doings] /\ applying' \in [PrPlaces -> Applies]
       /\ \A j \in PrLaptops : doing'[j] \in {Idle, d, doing[j]}
       /\ \A y \in PrPlaces : y # l => applying'[y] = applying[y]
       /\ applying'[l] \in {a, applying[l]}
  BY <1>0, <1>2, <1>7, <1>9, IdleIs DEF PrTyped
<1>11. /\ base' \in [PrLaptops -> Trees] /\ agreed' \in [PrLaptops -> SUBSET Contents]
       /\ \A j \in PrLaptops : base'[j] \in {base[j], theirs} /\ agreed[j] \subseteq agreed'[j]
       /\ \A j \in PrLaptops : OfTheAgreed(j, base[j])'
  <2>1. CASE Agree(l, theirs)
    <3>2. \A j \in PrLaptops : OfTheAgreed(j, base[j])
      BY DEF AsksForAgreed
    <3> QED
      BY <1>0, <1>1, <2>1, <3>2, AgreeIs
  <2>2. CASE UNCHANGED <<base, agreed>>
    BY <1>0, <2>2 DEF PrTyped, AsksForAgreed, OfTheAgreed
  <2> QED
    BY <1>2, <2>1, <2>2
<1>12. PrTyped'
  BY <1>0, <1>2, <1>10, <1>11 DEF PrTyped
<1>13. Fitting(f)'
  <2>1. ASSUME NEW files, Fits(f, files) PROVE Fits(f, files)'
    BY <1>2, <2>1 DEF Fits
  <2>2. \A y \in PrPlaces : Fits(f, applying'[y].want) /\ Fits(f, applying'[y].expect)
    <3>1. Fits(f, c.local)
      BY DEF Fitting
    <3> HIDE DEF c
    <3> QED
      BY <1>6, <1>7, <1>10, <3>1 DEF Fitting
  <2>3. \A j \in PrLaptops : Fits(f, base'[j]) /\ Fits(f, doing'[j].local) /\ Fits(f, doing'[j].theirs)
    BY <1>5, <1>9, <1>10, <1>11, IdleIs, NothingFits DEF Fitting
  <2> QED
    BY <1>2, <2>1, <2>2, <2>3 DEF Fitting
<1>14. BackedUp'
  BY <1>2, <1>7, <1>10 DEF BackedUp
<1>15. AsksForAgreed'
  <2>1. \A r \in sent : r.by \in PrLaptops
    BY <1>0 DEF PrTyped, Sents
  <2>2. \A r \in sent' : \A p \in PrPaths : r.expect[p] \in agreed'[r.by] \cup {0}
    BY <1>2, <1>11, <2>1 DEF AsksForAgreed, OfTheAgreed
  <2>3. ASSUME NEW j \in PrLaptops, NEW p \in PrPaths, applying'[j].want[p] # applying'[j].expect[p]
        PROVE  applying'[j].expect[p] \in agreed'[j] \cup {0}
    <3>1. j \in PrPlaces /\ agreed[j] \subseteq agreed'[j]
      BY <1>11 DEF PrPlaces
    <3>2. CASE applying'[j] = applying[j]
      BY <2>3, <3>1, <3>2 DEF AsksForAgreed
    <3>3. CASE j = l /\ applying'[j] = a
      BY <1>4, <1>7, <2>3, <3>1, <3>3
    <3> QED
      BY <1>10, <3>1, <3>2, <3>3
  <2>4. applying'[PrSlot].at # "none" =>
          \A p \in PrPaths : applying'[PrSlot].expect[p] \in agreed'[writing'.by] \cup {0}
    <3> SUFFICES ASSUME applying[PrSlot].at # "none", NEW p \in PrPaths
                 PROVE  applying[PrSlot].expect[p] \in agreed'[writing.by] \cup {0}
      BY <1>0, <1>2, <1>10
    <3>1. writing.by \in PrLaptops
      BY StillIs DEF OnRecord
    <3> QED
      BY <1>11, <3>1 DEF AsksForAgreed, OfTheAgreed
  <2> QED
    BY <1>11, <2>2, <2>3, <2>4 DEF AsksForAgreed, OfTheAgreed
<1>16. OnRecord'
  BY <1>0, <1>2, <1>10 DEF OnRecord, LockFree, FilesThere
<1>17. NothingLost' /\ PushedIsSeen'
  BY <1>2 DEF NothingLost, PushedIsSeen
<1> QED
  BY <1>12, <1>13, <1>14, <1>15, <1>16, <1>17

LEMMA PullDoneKeeps ==
  ASSUME NEW f, PrHolds(f), NEW l \in PrLaptops, pull_done(l)
  PROVE  PrHolds(f)'
<1> DEFINE theirs == doing[l].theirs
<1> USE DEF PrHolds
<1>0. /\ PrTyped /\ PrSlot \in PrPlaces /\ PrSlot \notin PrLaptops /\ l \in PrPlaces /\ l # PrSlot
      /\ theirs \in Trees
  BY ProjectsAssumption DEF PrPlaces, PrTyped, Doings
<1>1. /\ UNCHANGED <<tree, sent, writing, manifest, sessions, backups, byHand, raced, pushed, edits, commands>>
      /\ Agree(l, theirs)
      /\ doing' = [doing EXCEPT ![l] = Idle] /\ applying' = [applying EXCEPT ![l] = Still]
  BY DEF pull_done, treeVars
<1>2. /\ doing' \in [PrLaptops -> Doings] /\ applying' \in [PrPlaces -> Applies]
      /\ \A k \in PrLaptops : doing'[k] = IF k = l THEN Idle ELSE doing[k]
      /\ \A y \in PrPlaces : applying'[y] = IF y = l THEN Still ELSE applying[y]
  BY <1>0, <1>1, IdleIs, StillIs DEF PrTyped
<1>3. Fits(f, theirs)
  BY DEF Fitting
<1> HIDE DEF theirs
<1>4. /\ base' \in [PrLaptops -> Trees] /\ agreed' \in [PrLaptops -> SUBSET Contents]
      /\ \A j \in PrLaptops : base'[j] \in {base[j], theirs} /\ agreed[j] \subseteq agreed'[j]
      /\ \A j \in PrLaptops : OfTheAgreed(j, base[j])'
  <2>1. \A j \in PrLaptops : OfTheAgreed(j, base[j])
    BY DEF AsksForAgreed
  <2> QED
    BY <1>0, <1>1, <2>1, AgreeIs
<1>5. PrTyped'
  BY <1>0, <1>1, <1>2, <1>4 DEF PrTyped
<1>6. Fitting(f)'
  <2>1. ASSUME NEW files, Fits(f, files) PROVE Fits(f, files)'
    BY <1>1, <2>1 DEF Fits
  <2>2. \A y \in PrPlaces : Fits(f, applying'[y].want) /\ Fits(f, applying'[y].expect)
    BY <1>2, StillIs, NothingFits DEF Fitting
  <2>3. \A j \in PrLaptops : Fits(f, base'[j]) /\ Fits(f, doing'[j].local) /\ Fits(f, doing'[j].theirs)
    BY <1>2, <1>3, <1>4, IdleIs, NothingFits DEF Fitting
  <2> QED
    BY <1>1, <2>1, <2>2, <2>3 DEF Fitting
<1>7. BackedUp'
  BY <1>1, <1>2, StillIs DEF BackedUp
<1>8. AsksForAgreed'
  <2>1. \A r \in sent : r.by \in PrLaptops
    BY <1>0 DEF PrTyped, Sents
  <2>2. \A r \in sent' : \A p \in PrPaths : r.expect[p] \in agreed'[r.by] \cup {0}
    BY <1>1, <1>4, <2>1 DEF AsksForAgreed, OfTheAgreed
  <2>3. \A j \in PrLaptops : applying'[j] = IF j = l THEN Still ELSE applying[j]
    BY <1>2 DEF PrPlaces
  <2>4. \A j \in PrLaptops : \A p \in PrPaths :
          applying'[j].want[p] # applying'[j].expect[p] => applying'[j].expect[p] \in agreed'[j] \cup {0}
    BY <1>4, <2>3, StillIs DEF AsksForAgreed
  <2>5. applying'[PrSlot].at # "none" =>
          \A p \in PrPaths : applying'[PrSlot].expect[p] \in agreed'[writing'.by] \cup {0}
    <3> SUFFICES ASSUME applying[PrSlot].at # "none", NEW p \in PrPaths
                 PROVE  applying[PrSlot].expect[p] \in agreed'[writing.by] \cup {0}
      BY <1>0, <1>1, <1>2
    <3>1. writing.by \in PrLaptops
      BY StillIs DEF OnRecord
    <3> QED
      BY <1>4, <3>1 DEF AsksForAgreed, OfTheAgreed
  <2> QED
    BY <1>4, <2>2, <2>4, <2>5 DEF AsksForAgreed, OfTheAgreed
<1>9. OnRecord'
  BY <1>0, <1>1, <1>2 DEF OnRecord, LockFree, FilesThere
<1>10. NothingLost' /\ PushedIsSeen'
  BY <1>1 DEF NothingLost, PushedIsSeen
<1> QED
  BY <1>5, <1>6, <1>7, <1>8, <1>9, <1>10

LEMMA PrStepKeeps == ASSUME PrInv, PrNext \/ UNCHANGED prVars PROVE PrInv'
<1>1. PICK f : PrHolds(f)
  BY DEF PrInv
<1>2. ASSUME NEW x \in PrPlaces, NEW p \in PrPaths, EditByHand(x, p) PROVE PrInv'
  BY <1>1, <1>2, EditKeeps
<1>3. ASSUME PrHolds(f)' PROVE PrInv'
  BY <1>3 DEF PrInv
<1>4. ASSUME NEW x \in PrPlaces, NEW p \in PrPaths, look_again(x, p) \/ apply_one(x, p) PROVE PrInv'
  BY <1>1, <1>3, <1>4, LookAgainKeeps, ApplyKeeps
<1>5. ASSUME NEW x \in PrPlaces, preflight(x) PROVE PrInv'
  BY <1>1, <1>3, <1>5, PreflightKeeps
<1>6. ASSUME NEW r \in sent, handle_write(r) \/ write_refused(r) PROVE PrInv'
  BY <1>1, <1>3, <1>6, HandleKeeps, WriteRefusedKeeps
<1>7. ASSUME NEW l \in PrLaptops,
             push(l) \/ pull(l) \/ command_ends(l) \/ read_merge(l) \/ pull_done(l)
      PROVE  PrInv'
  BY <1>1, <1>3, <1>7, PushKeeps, PullKeeps, CommandEndsKeeps, ReadMergeKeeps, PullDoneKeeps
<1>8. CASE open_session \/ SessionsEnd \/ write_stops \/ write_done \/ UNCHANGED prVars
  BY <1>1, <1>3, <1>8, SessionKeeps, StopsKeeps, WriteDoneKeeps
<1> QED
  BY <1>2, <1>4, <1>5, <1>6, <1>7, <1>8 DEF PrNext

LEMMA PrInvGivesSound == PrInv => ProjectsSound
<1> SUFFICES ASSUME PrInv PROVE ProjectsSound
  OBVIOUS
<1>1. PICK f : PrHolds(f)
  BY DEF PrInv
<1>2. PrTyped /\ BackedUp /\ AsksForAgreed /\ OnRecord /\ NothingLost /\ PushedIsSeen
  BY <1>1 DEF PrHolds
<1>3. ReplacesOnlyAgreed
  <2>1. PrSlot \in PrPlaces /\ \A l \in PrLaptops : l \in PrPlaces
    BY DEF PrPlaces
  <2>2. \A x \in PrPlaces : applying[x].todo \subseteq PrPaths
    BY <1>2 DEF PrTyped, Applies
  <2>3. ASSUME NEW p \in applying[PrSlot].todo
        PROVE  applying[PrSlot].expect[p] \in agreed[writing.by] \cup {0}
    BY <1>2, <2>1, <2>2 DEF AsksForAgreed, BackedUp, OfTheAgreed
  <2>4. ASSUME NEW l \in PrLaptops, NEW p \in applying[l].todo
        PROVE  applying[l].expect[p] \in agreed[l] \cup {0}
    BY <1>2, <2>1, <2>2 DEF AsksForAgreed, BackedUp
  <2> QED
    BY <2>3, <2>4 DEF ReplacesOnlyAgreed
<1> QED
  BY <1>2, <1>3 DEF ProjectsSound

LEMMA PrInvTyped == PrInv => PrTypeOK
<1> SUFFICES ASSUME PrInv PROVE PrTypeOK
  OBVIOUS
<1>1. PrTyped /\ BackedUp
  BY DEF PrInv, PrHolds
<1>2. \A x \in PrPlaces : applying[x].looked \subseteq applying[x].todo
  BY <1>1 DEF BackedUp
<1> QED
  BY <1>1, <1>2 DEF PrTyped, PrTypeOK, Doings, Sents, Writes, Applies

-----------------------------------------------------------------------------
(* Releases of the client: the inductive invariant.                         *)

Launchers ==
  [current : Identifiers \cup {NoRelease}, previous : Identifiers \cup {NoRelease},
   highest : CrReleases \cup {NoRelease}, by : 0..CrMaxRuns]
CrCommands ==
  [at : {"idle", "fetch", "fetched", "rollback", "check", "sync backup", "stage", "sync release",
         "activate", "swap", "sync launcher", "sync restored"},
   n : 0..CrMaxRuns, id : CrReleases \cup {NoRelease}, was : Launchers]

CrTyped ==
  /\ crLauncher \in Launchers /\ crOnDisk \subseteq Launchers \X SUBSET Identifiers
  /\ crStored \subseteq Identifiers /\ crSynced \subseteq crStored
  /\ crLock \in 0..CrMaxRuns /\ crRuns \in 0..CrMaxRuns /\ crFaults \in 0..CrMaxFaults
  /\ crRun \in [CrRunners -> CrCommands]
  /\ crTold \in [1..CrMaxRuns -> {"nothing", "unchanged", "installed", "rolled back", "failed", "failed twice"}]
  /\ crInstalled \subseteq CrReleases

Changing == {"check", "sync backup", "stage", "sync release", "activate", "swap", "sync launcher", "sync restored"}
Replaced == {"sync launcher", "sync restored"}

(* Each command has a number of its own; the one that changes files has the *)
(* lock, and nothing was said of it yet.                                    *)
Numbered ==
  /\ \A x \in CrRunners : crRun[x].at # "idle" =>
       crRun[x].n \in 1..crRuns /\ crTold[crRun[x].n] = "nothing"
  /\ \A x, y \in CrRunners : crRun[x].at # "idle" /\ crRun[y].at # "idle" /\ crRun[x].n = crRun[y].n => x = y
  /\ \A x \in CrRunners : crRun[x].at \in Changing => crLock = crRun[x].n
  /\ \A n \in 1..CrMaxRuns : n > crRuns => crTold[n] = "nothing"

(* Of a version only one build was ever installed.                          *)
OneBuildEach == \A r, s \in crInstalled : r[1] = s[1] => r = s

(* A launcher the computer may yet come to run with.                        *)
WholeOf(launcher, ids) ==
  launcher.highest # NoRelease =>
    {launcher.current, launcher.previous, launcher.highest} \subseteq ids \cup {NoRelease}
AtLeastInstalled(launcher) ==
  \A r \in crInstalled :
    /\ launcher.highest # NoRelease /\ launcher.highest[1] >= r[1]
    /\ launcher.highest[1] = r[1] => launcher.highest = r
OfNoFailed(launcher) ==
  /\ launcher.by \in 0..crRuns
  /\ \A n \in 1..CrMaxRuns : crTold[n] = "failed" => launcher.by # n
  /\ \A x \in CrRunners : crRun[x].at # "idle" /\ crRun[x].at \notin Replaced => launcher.by # crRun[x].n
May(launcher) ==
  /\ launcher.highest = NoRelease => launcher \in Unmanaged
  /\ WholeOf(launcher, crStored) /\ AtLeastInstalled(launcher) /\ OfNoFailed(launcher)

OnDiskSound ==
  /\ \E kept \in crOnDisk : kept[1] = crLauncher
  /\ \A kept \in crOnDisk : kept[2] \subseteq crStored /\ WholeOf(kept[1], kept[2]) /\ May(kept[1])

(* Where each command is.                                                   *)
AtPlace(q) ==
  /\ q.at \in {"fetched", "check", "sync backup", "stage", "sync release", "activate"} => q.id \in CrReleases
  /\ q.at \in {"rollback", "swap"} => q.id = NoRelease
  /\ q.at \in {"sync backup", "stage", "sync release", "activate"} =>
       /\ managed => q.id[1] > crLauncher.highest[1] \/ q.id = crLauncher.highest
       /\ ~managed /\ crLauncher.current = Legacy => Legacy \in crStored
  /\ q.at \in {"sync release", "activate"} => q.id \in crStored
  /\ q.at = "sync launcher" =>
       /\ crLauncher.by = q.n
       /\ q.id # NoRelease => crLauncher.highest = q.id
       /\ managed /\ May(q.was) /\ q.was.by # q.n
  /\ q.at = "sync restored" => crLauncher.by # q.n

CrInv ==
  /\ CrTyped /\ Numbered /\ OnDiskSound /\ OneBuildEach
  /\ \A x \in CrRunners : AtPlace(crRun[x])

LEMMA NoReleaseIs ==
  /\ NoRelease \notin CrReleases /\ NoRelease # Legacy /\ Legacy \notin CrReleases
  /\ \A r \in CrReleases : r # NoRelease /\ r[1] \in Nat
  BY ReleaseAssumption DEF NoRelease, Legacy

LEMMA NumberIs ==
  ASSUME NEW most \in 0..CrMaxRuns, NEW n \in 1..most
  PROVE  /\ n # 0 /\ n \in 0..most /\ n \in 1..CrMaxRuns
         /\ \A m \in 1..CrMaxRuns : m > most => m # n
  BY ReleaseAssumption

LEMMA ZeroIs == 0 \in 0..CrMaxRuns
  BY ReleaseAssumption

LEMMA OneMorePair ==
  ASSUME NEW S, NEW T, NEW A, A \subseteq S \X SUBSET T, NEW a \in S, NEW b, b \subseteq T
  PROVE  /\ <<a, b>> \in S \X SUBSET T
         /\ A \cup {<<a, b>>} \subseteq S \X SUBSET T
  OBVIOUS

LEMMA UnmanagedIs ==
  ASSUME NEW launcher \in Unmanaged
  PROVE  /\ launcher \in Launchers /\ launcher.highest = NoRelease /\ launcher.previous = NoRelease
         /\ launcher.current \in {NoRelease, Legacy} /\ launcher.by = 0
  BY ReleaseAssumption DEF Unmanaged, Launcher, Launchers, Identifiers

LEMMA NotRunningIs == NotRunning \in CrCommands /\ NotRunning.at = "idle" /\ NotRunning.id = NoRelease
<1>1. Launcher(NoRelease, NoRelease, NoRelease, 0) \in Launchers
  BY ReleaseAssumption DEF Launcher, Launchers
<1> QED
  BY <1>1, ReleaseAssumption DEF NotRunning, CrCommands

LEMMA CrInitSound == CrInit => CrInv
<1> SUFFICES ASSUME CrInit PROVE CrInv
  OBVIOUS
<1>1. /\ crLauncher \in Unmanaged /\ crOnDisk = {<<crLauncher, {}>>} /\ crStored = {} /\ crSynced = {}
      /\ crLock = 0 /\ crRuns = 0 /\ crFaults = 0 /\ crInstalled = {}
      /\ crRun = [x \in CrRunners |-> NotRunning]
      /\ crTold = [n \in 1..CrMaxRuns |-> "nothing"]
  BY DEF CrInit
<1>2. /\ crLauncher \in Launchers /\ crLauncher.highest = NoRelease /\ crLauncher.by = 0
  BY <1>1, UnmanagedIs
<1>3. \A x \in CrRunners : crRun[x] \in CrCommands /\ crRun[x].at = "idle"
  BY <1>1, NotRunningIs
<1>4. CrTyped
  <2>1. crRun \in [CrRunners -> CrCommands]
    BY <1>1, <1>3
  <2>2. 0 \in 0..CrMaxRuns /\ 0 \in 0..CrMaxFaults
    BY ReleaseAssumption
  <2>3. crTold \in [1..CrMaxRuns -> {"nothing", "unchanged", "installed", "rolled back", "failed", "failed twice"}]
    BY <1>1
  <2> QED
    BY <1>1, <1>2, <2>1, <2>2, <2>3 DEF CrTyped
<1>5. Numbered
  BY <1>1, <1>3 DEF Numbered, Changing
<1>6. May(crLauncher) /\ WholeOf(crLauncher, {})
  BY <1>1, <1>2, <1>3 DEF May, WholeOf, AtLeastInstalled, OfNoFailed
<1>7. OnDiskSound
  BY <1>1, <1>6 DEF OnDiskSound
<1>8. \A x \in CrRunners : AtPlace(crRun[x])
  BY <1>3 DEF AtPlace
<1> QED
  BY <1>1, <1>4, <1>5, <1>7, <1>8 DEF CrInv, OneBuildEach

(* Who changes files does so alone.                                         *)
LEMMA OneChanges ==
  ASSUME CrInv, NEW x \in CrRunners, NEW y \in CrRunners, crRun[x].at \in Changing, crRun[y].at \in Changing
  PROVE  x = y
  BY DEF CrInv, Numbered, Changing

LEMMA LauncherMay == ASSUME CrInv PROVE May(crLauncher) /\ WholeOf(crLauncher, crStored)
  BY DEF CrInv, OnDiskSound, May

(* One command goes on, before anything is replaced.                        *)
LEMMA GoesOnKeeps ==
  ASSUME CrInv, NEW x \in CrRunners, NEW q \in CrCommands, crRun' = [crRun EXCEPT ![x] = q],
         q.n = crRun[x].n, crRun[x].at \notin Replaced \cup {"idle"}, q.at \notin Replaced \cup {"idle"},
         UNCHANGED <<crLauncher, crOnDisk, crTold, crInstalled, crRuns, crFaults>>,
         crStored \subseteq crStored', crStored' \subseteq Identifiers, crSynced' \subseteq crStored',
         \/ crLock' = crLock /\ (q.at \in Changing => crRun[x].at \in Changing)
         \/ crLock = 0 /\ crLock' = q.n,
         AtPlace(q)'
  PROVE  CrInv'
<1> USE DEF CrInv
<1>1. /\ crRun' \in [CrRunners -> CrCommands]
      /\ \A y \in CrRunners : crRun'[y] = IF y = x THEN q ELSE crRun[y]
  BY DEF CrTyped
<1>2. q.n \in 1..crRuns /\ q.n \in 0..CrMaxRuns
  BY DEF Numbered, CrCommands
<1>3. CrTyped'
  BY <1>1, <1>2 DEF CrTyped
<1>4. Numbered'
  <2>1. \A y \in CrRunners : crRun'[y].n = crRun[y].n /\ (crRun'[y].at = "idle" <=> crRun[y].at = "idle")
    BY <1>1
  <2>2. ASSUME NEW y \in CrRunners, crRun'[y].at \in Changing PROVE crLock' = crRun'[y].n
    <3>1. CASE y = x
      BY <1>1, <2>2, <3>1 DEF Numbered
    <3>2. CASE y # x
      <4>1. crRun[y].at \in Changing /\ crRun[y].at # "idle"
        BY <1>1, <2>2, <3>2 DEF Changing
      <4>2. crLock = crRun[y].n /\ crLock # 0
        <5>1. crLock = crRun[y].n /\ crRun[y].n \in 1..crRuns
          BY <4>1 DEF Numbered
        <5>2. crRuns \in Nat
          <6>1. crRuns \in 0..CrMaxRuns
            BY DEF CrTyped
          <6> QED
            BY <6>1
        <5> QED
          BY <5>1, <5>2
      <4> QED
        BY <1>1, <2>2, <3>2, <4>1, <4>2
    <3> QED
      BY <3>1, <3>2
  <2> QED
    BY <2>1, <2>2 DEF Numbered
<1>5. ASSUME NEW launcher, May(launcher) PROVE May(launcher)'
  <2>1. OfNoFailed(launcher)'
    <3>1. \A y \in CrRunners : crRun'[y].at # "idle" /\ crRun'[y].at \notin Replaced =>
            crRun'[y].n = crRun[y].n /\ crRun[y].at # "idle" /\ crRun[y].at \notin Replaced
      BY <1>1
    <3> QED
      BY <1>5, <3>1 DEF May, OfNoFailed
  <2> QED
    BY <1>5, <2>1 DEF May, WholeOf, AtLeastInstalled
<1>6. OnDiskSound'
  BY <1>5 DEF OnDiskSound, WholeOf
<1>7. ASSUME NEW y \in CrRunners PROVE AtPlace(crRun[y])'
  <2>1. CASE y = x
    BY <1>1, <2>1 DEF AtPlace
  <2>2. CASE y # x
    <3>1. AtPlace(crRun[y]) /\ crRun'[y] = crRun[y]
      BY <1>1, <2>2
    <3> QED
      BY <1>5, <3>1 DEF AtPlace, managed
  <2> QED
    BY <2>1, <2>2
<1>20. OneBuildEach'
  BY DEF OneBuildEach
<1> QED
  BY <1>3, <1>4, <1>6, <1>7, <1>20

LEMMA BeginsKeeps ==
  ASSUME CrInv, NEW x \in CrRunners, NEW what \in {"fetch", "rollback"}, BeginsCommand(x, what)
  PROVE  CrInv'
<1> DEFINE k == [NotRunning EXCEPT !.at = what]
           q == [k EXCEPT !.n = crRuns + 1]
<1> USE DEF CrInv
<1>1. /\ UNCHANGED <<crLauncher, crOnDisk, crStored, crSynced, crLock, crTold, crInstalled, crFaults>>
      /\ crRuns' = crRuns + 1 /\ crRuns \in Nat /\ crRuns + 1 \in 1..CrMaxRuns /\ crRuns + 1 \in 0..CrMaxRuns
      /\ crRun' = [crRun EXCEPT ![x] = q] /\ crRun[x].at = "idle"
  <2>1. crRuns \in 0..CrMaxRuns /\ crRuns < CrMaxRuns
    BY DEF BeginsCommand, CrTyped
  <2>2. crRuns \in Nat /\ crRuns + 1 \in 1..CrMaxRuns /\ crRuns + 1 \in 0..CrMaxRuns
    BY <2>1, ReleaseAssumption
  <2> QED
    BY <2>2 DEF BeginsCommand, crFiles
<1>2. k \in CrCommands /\ k.at = what /\ k.id = NoRelease
  BY NotRunningIs DEF CrCommands
<1> HIDE DEF k
<1>3. q \in CrCommands /\ q.at = what /\ q.id = NoRelease /\ q.n = crRuns + 1
  BY <1>1, <1>2 DEF CrCommands
<1> HIDE DEF q
<1>4. /\ crRun' \in [CrRunners -> CrCommands]
      /\ \A y \in CrRunners : crRun'[y] = IF y = x THEN q ELSE crRun[y]
  BY <1>1, <1>3 DEF CrTyped
<1>5. CrTyped'
  <2>1. crRuns' \in 0..CrMaxRuns
    BY <1>1
  <2> QED
    BY <1>1, <1>4, <2>1 DEF CrTyped
<1>6. \A y \in CrRunners : crRun[y].at # "idle" => crRun[y].n \in 1..crRuns /\ crRun[y].n # crRuns + 1
  BY <1>1 DEF Numbered
<1>7. Numbered'
  <2>1. crTold[crRuns + 1] = "nothing"
    BY <1>1 DEF Numbered
  <2>2. \A n \in 1..crRuns : n \in 1..crRuns'
    BY <1>1
  <2>3. crRuns + 1 \in 1..crRuns'
    BY <1>1
  <2>5. what \notin Changing
    BY DEF Changing
  <2>4. \A n \in 1..CrMaxRuns : n > crRuns' => n > crRuns
    BY <1>1
  <2> QED
    BY <1>1, <1>3, <1>4, <1>6, <2>1, <2>2, <2>3, <2>4, <2>5 DEF Numbered
<1>8. ASSUME NEW launcher, May(launcher) PROVE May(launcher)'
  <2>1. launcher.by \in 0..crRuns
    BY <1>8 DEF May, OfNoFailed
  <2>2. launcher.by \in 0..crRuns' /\ launcher.by # crRuns + 1
    BY <1>1, <2>1
  <2>3. OfNoFailed(launcher)'
    BY <1>1, <1>3, <1>4, <1>8, <2>2 DEF May, OfNoFailed
  <2> QED
    BY <1>1, <1>8, <2>3 DEF May, WholeOf, AtLeastInstalled
<1>9. OnDiskSound'
  BY <1>1, <1>8 DEF OnDiskSound, WholeOf
<1>10. ASSUME NEW y \in CrRunners PROVE AtPlace(crRun[y])'
  <2>1. CASE y = x
    BY <1>3, <1>4, <2>1 DEF AtPlace
  <2>2. CASE y # x
    <3>1. AtPlace(crRun[y]) /\ crRun'[y] = crRun[y]
      BY <1>4, <2>2
    <3>2. crLauncher' = crLauncher /\ crStored' = crStored
      BY <1>1
    <3> QED
      BY <1>8, <3>1, <3>2 DEF AtPlace, managed
  <2> QED
    BY <2>1, <2>2
<1>20. OneBuildEach'
  BY <1>1 DEF OneBuildEach
<1> QED
  BY <1>5, <1>7, <1>9, <1>10, <1>20

(* A command ends: it said something, or was killed.                        *)
LEMMA EndsKeeps ==
  ASSUME CrInv, NEW x \in CrRunners, crRun[x].at # "idle",
         crRun' = [crRun EXCEPT ![x] = NotRunning],
         crLock' = IF crLock = crRun[x].n THEN 0 ELSE crLock,
         UNCHANGED <<crLauncher, crStored, crSynced, crRuns>>, crFaults' \in 0..CrMaxFaults,
         NEW word \in {"nothing", "unchanged", "installed", "rolled back", "failed", "failed twice"},
         crTold' = [crTold EXCEPT ![crRun[x].n] = word],
         crInstalled' \subseteq CrReleases, crInstalled' = crInstalled \/ crRun[x].at \in Changing,
         \A kept \in crOnDisk' : kept \in crOnDisk \/ kept = <<crLauncher, crStored>>,
         \E kept \in crOnDisk' : kept[1] = crLauncher,
         \A kept \in crOnDisk' : AtLeastInstalled(kept[1])' /\ (word = "failed" => kept[1].by # crRun[x].n),
         word = "failed" => crRun[x].at # "sync launcher", OneBuildEach'
  PROVE  CrInv'
<1> DEFINE n == crRun[x].n
<1> USE DEF CrInv
<1>1. /\ crRun' \in [CrRunners -> CrCommands]
      /\ \A y \in CrRunners : crRun'[y] = IF y = x THEN NotRunning ELSE crRun[y]
  BY NotRunningIs DEF CrTyped
<1>2. /\ n \in 1..crRuns /\ n # 0
      /\ \A y \in CrRunners : y # x /\ crRun[y].at # "idle" => crRun[y].n # n
  <2>1. n \in 1..crRuns
    BY DEF Numbered
  <2>2. n # 0
    BY <2>1, NumberIs DEF CrTyped
  <2> QED
    BY <2>1, <2>2 DEF Numbered
<1>3. /\ crTold' \in [1..CrMaxRuns -> {"nothing", "unchanged", "installed", "rolled back", "failed", "failed twice"}]
      /\ \A m \in 1..CrMaxRuns : crTold'[m] = IF m = n THEN word ELSE crTold[m]
  BY DEF CrTyped
<1>4. CrTyped'
  <2>1. crLock' \in 0..CrMaxRuns
    BY ZeroIs DEF CrTyped
  <2>2. crOnDisk' \subseteq Launchers \X SUBSET Identifiers
    <3>1. <<crLauncher, crStored>> \in Launchers \X SUBSET Identifiers
      BY OneMorePair DEF CrTyped
    <3> QED
      BY <3>1 DEF CrTyped
  <2> QED
    BY <1>1, <1>3, <2>1, <2>2 DEF CrTyped
<1>5. Numbered'
  <2>1. \A m \in 1..CrMaxRuns : m > crRuns => m # n
    BY <1>2, NumberIs DEF CrTyped
  <2>2. \A y \in CrRunners : crRun'[y].at # "idle" => y # x /\ crRun'[y] = crRun[y] /\ crRun[y].at # "idle"
    BY <1>1, NotRunningIs
  <2>3. \A y \in CrRunners : crRun[y].at # "idle" => crRun[y].n \in 1..CrMaxRuns
    BY NumberIs DEF Numbered, CrTyped
  <2>4. \A y \in CrRunners : crRun'[y].at # "idle" => crTold'[crRun'[y].n] = "nothing"
    BY <1>2, <1>3, <2>2, <2>3 DEF Numbered
  <2>5. \A y \in CrRunners : crRun'[y].at \in Changing => crLock' = crRun'[y].n
    <3> SUFFICES ASSUME NEW y \in CrRunners, crRun'[y].at \in Changing PROVE crLock' = crRun'[y].n
      OBVIOUS
    <3>1. crRun'[y].at # "idle"
      BY DEF Changing
    <3>2. crLock = crRun[y].n /\ crRun[y].n # n
      BY <1>2, <2>2, <3>1 DEF Numbered
    <3> QED
      BY <2>2, <3>1, <3>2
  <2>6. \A y \in CrRunners : crRun'[y].at # "idle" => crRun'[y].n \in 1..crRuns'
    BY <2>2 DEF Numbered
  <2>7. ASSUME NEW y \in CrRunners, NEW z \in CrRunners, crRun'[y].at # "idle", crRun'[z].at # "idle",
               crRun'[y].n = crRun'[z].n
        PROVE  y = z
    <3>1. crRun'[y] = crRun[y] /\ crRun'[z] = crRun[z] /\ crRun[y].at # "idle" /\ crRun[z].at # "idle"
      BY <2>2, <2>7
    <3>2. crRun[y].n = crRun[z].n
      BY <2>7, <3>1
    <3> QED
      BY <3>1, <3>2 DEF Numbered
  <2>8. \A m \in 1..CrMaxRuns : m > crRuns' => crTold'[m] = "nothing"
    BY <1>3, <2>1 DEF Numbered
  <2> QED
    BY <2>4, <2>5, <2>6, <2>7, <2>8 DEF Numbered
<1>6. ASSUME NEW launcher, May(launcher), word = "failed" => launcher.by # n, AtLeastInstalled(launcher)'
      PROVE  May(launcher)'
  <2>1. OfNoFailed(launcher)'
    <3>1. \A y \in CrRunners : crRun'[y].at # "idle" => crRun'[y] = crRun[y]
      BY <1>1, NotRunningIs
    <3> QED
      BY <1>3, <1>6, <3>1 DEF May, OfNoFailed
  <2> QED
    BY <1>6, <2>1 DEF May, WholeOf
<1>7. OnDiskSound'
  <2>1. ASSUME NEW kept \in crOnDisk'
        PROVE  kept[2] \subseteq crStored /\ WholeOf(kept[1], kept[2]) /\ May(kept[1])
    <3>1. CASE kept \in crOnDisk
      BY <3>1 DEF OnDiskSound
    <3>2. CASE kept = <<crLauncher, crStored>>
      BY <3>2, LauncherMay
    <3> QED
      BY <3>1, <3>2
  <2>2. \A kept \in crOnDisk' : May(kept[1])'
    BY <1>6, <2>1
  <2> QED
    BY <2>1, <2>2 DEF OnDiskSound, WholeOf
<1>8. ASSUME NEW y \in CrRunners PROVE AtPlace(crRun[y])'
  <2>1. CASE y = x
    BY <1>1, <2>1, NotRunningIs DEF AtPlace
  <2>2. CASE y # x
    <3>1. AtPlace(crRun[y]) /\ crRun'[y] = crRun[y]
      BY <1>1, <2>2
    <3>2. CASE crRun[y].at # "sync launcher"
      <4>1. crLauncher' = crLauncher /\ crStored' = crStored
        OBVIOUS
      <4> QED
        BY <3>1, <3>2, <4>1 DEF AtPlace, managed
    <3>3. CASE crRun[y].at = "sync launcher"
      <4>1. crRun[x].at \notin Changing
        BY <2>2, <3>3, OneChanges DEF Changing
      <4>2. May(crRun[y].was) /\ crRun[y].was.by # n
        <5>1. crRun[x].at \notin Replaced
          BY <4>1 DEF Changing, Replaced
        <5> QED
          BY <3>1, <3>3, <5>1 DEF AtPlace, May, OfNoFailed
      <4>3. crInstalled' = crInstalled
        BY <4>1
      <4>4. PICK was : was = crRun[y].was
        OBVIOUS
      <4>5. May(was)'
        BY <1>6, <4>2, <4>3, <4>4 DEF May, AtLeastInstalled
      <4> QED
        BY <3>1, <3>3, <4>4, <4>5 DEF AtPlace, managed
    <3> QED
      BY <3>2, <3>3
  <2> QED
    BY <2>1, <2>2
<1> QED
  BY <1>4, <1>5, <1>7, <1>8

(* The launcher is replaced, by what the one that changes files checked.    *)
LEMMA SelectsKeeps ==
  ASSUME CrInv, NEW x \in CrRunners, crRun[x].at \in {"activate", "swap"}, NEW launcher \in Launchers,
         Selects(x, launcher), launcher.by = crRun[x].n, launcher.highest # NoRelease,
         crRun[x].id # NoRelease => launcher.highest = crRun[x].id,
         WholeOf(launcher, crStored), AtLeastInstalled(launcher)
  PROVE  CrInv'
<1> DEFINE n == crRun[x].n
           k == [crRun[x] EXCEPT !.at = "sync launcher"]
           q == [k EXCEPT !.was = crLauncher]
<1> USE DEF CrInv
<1>1. /\ UNCHANGED <<crStored, crSynced, crLock, crTold, crInstalled, crRuns, crFaults>>
      /\ crLauncher' = launcher /\ crOnDisk' = crOnDisk \cup {<<launcher, crStored>>}
      /\ crRun' = [crRun EXCEPT ![x] = q]
  BY DEF Selects, CrTyped
<1>2. k \in CrCommands /\ k.at = "sync launcher" /\ k.n = n /\ k.id = crRun[x].id
  BY DEF CrTyped, CrCommands
<1> HIDE DEF k
<1>3. q \in CrCommands /\ q.at = "sync launcher" /\ q.n = n /\ q.id = crRun[x].id /\ q.was = crLauncher
  <2>1. crLauncher \in Launchers
    BY DEF CrTyped
  <2> QED
    BY <1>2, <2>1 DEF CrCommands
<1> HIDE DEF q
<1>4. /\ crRun' \in [CrRunners -> CrCommands]
      /\ \A y \in CrRunners : crRun'[y] = IF y = x THEN q ELSE crRun[y]
  BY <1>1, <1>3 DEF CrTyped
<1>5. CrTyped'
  <2>1. crOnDisk' \subseteq Launchers \X SUBSET Identifiers
    <3>1. crOnDisk \subseteq Launchers \X SUBSET Identifiers /\ crStored \subseteq Identifiers
      BY DEF CrTyped
    <3> QED
      BY <1>1, <3>1, OneMorePair
  <2> QED
    BY <1>1, <1>4, <2>1 DEF CrTyped
<1>6. Numbered'
  <2>1. \A y \in CrRunners : /\ crRun'[y].n = crRun[y].n /\ (crRun'[y].at = "idle" <=> crRun[y].at = "idle")
                             /\ crRun'[y].at \in Changing <=> crRun[y].at \in Changing
    BY <1>3, <1>4 DEF Changing
  <2> QED
    BY <1>1, <2>1 DEF Numbered
<1>7. n \in 1..crRuns /\ crTold[n] = "nothing"
  BY DEF Numbered
<1>8. ASSUME NEW l, May(l) PROVE May(l)'
  <2>1. OfNoFailed(l)'
    BY <1>1, <1>3, <1>4, <1>8 DEF May, OfNoFailed, Replaced
  <2> QED
    BY <1>1, <1>8, <2>1 DEF May, WholeOf, AtLeastInstalled
<1>9. May(launcher)'
  <2>1. OfNoFailed(launcher)'
    <3>1. n \in 0..crRuns
      BY <1>7
    <3>2. \A y \in CrRunners : crRun'[y].at # "idle" /\ crRun'[y].at \notin Replaced => n # crRun'[y].n
      BY <1>3, <1>4 DEF Numbered, Replaced
    <3> QED
      BY <1>1, <1>7, <3>1, <3>2 DEF OfNoFailed
  <2> QED
    BY <1>1, <2>1 DEF May, WholeOf, AtLeastInstalled
<1>10. OnDiskSound'
  <2>1. \A kept \in crOnDisk' : kept[2] \subseteq crStored /\ WholeOf(kept[1], kept[2]) /\ May(kept[1])'
    <3> SUFFICES ASSUME NEW kept \in crOnDisk'
                 PROVE  kept[2] \subseteq crStored /\ WholeOf(kept[1], kept[2]) /\ May(kept[1])'
      OBVIOUS
    <3>1. CASE kept \in crOnDisk
      BY <1>8, <3>1 DEF OnDiskSound
    <3>2. CASE kept = <<launcher, crStored>>
      BY <1>9, <3>2
    <3> QED
      BY <1>1, <3>1, <3>2
  <2>2. \E kept \in crOnDisk' : kept[1] = crLauncher'
    <3>1. <<crLauncher', crStored>> \in crOnDisk'
      BY <1>1
    <3> QED
      BY <3>1
  <2> QED
    BY <1>1, <2>1, <2>2 DEF OnDiskSound, WholeOf
<1>11. ASSUME NEW y \in CrRunners PROVE AtPlace(crRun[y])'
  <2>1. CASE y = x
    <3>1. May(crLauncher) /\ crLauncher.by # n
      <4>1. May(crLauncher) /\ crRun[x].at # "idle" /\ crRun[x].at \notin Replaced
        BY LauncherMay DEF Replaced
      <4> QED
        BY <4>1 DEF May, OfNoFailed
    <3>2. PICK was : was = crLauncher
      OBVIOUS
    <3>3. May(was)' /\ was.by # n
      BY <1>8, <3>1, <3>2
    <3> QED
      BY <1>1, <1>3, <1>4, <2>1, <3>2, <3>3 DEF AtPlace, managed
  <2>2. CASE y # x
    <3>1. AtPlace(crRun[y]) /\ crRun'[y] = crRun[y] /\ crRun[y].at \notin Changing
      BY <1>4, <2>2, OneChanges DEF Changing
    <3> QED
      BY <3>1 DEF AtPlace, Changing
  <2> QED
    BY <2>1, <2>2
<1>20. OneBuildEach'
  BY <1>1 DEF OneBuildEach
<1> QED
  BY <1>5, <1>6, <1>10, <1>11, <1>20

LEMMA SyncFailsKeeps ==
  ASSUME CrInv, NEW x \in CrRunners, sync_fails(x)
  PROVE  CrInv'
<1> DEFINE n == crRun[x].n
           q == [crRun[x] EXCEPT !.at = "sync restored"]
           launcher == crRun[x].was
<1> USE DEF CrInv
<1>0. crRun[x].at = "sync launcher" /\ crRun[x] \in CrCommands
  BY DEF sync_fails, CrTyped
<1>1. /\ UNCHANGED <<crStored, crSynced, crLock, crTold, crInstalled, crRuns>>
      /\ crLauncher' = launcher /\ crOnDisk' = crOnDisk \cup {<<launcher, crStored>>}
      /\ crRun' = [crRun EXCEPT ![x] = q] /\ crFaults' \in 0..CrMaxFaults
  <2>1. crFaults' \in 0..CrMaxFaults
    <3>1. crFaults \in 0..CrMaxFaults /\ crFaults < CrMaxFaults /\ crFaults' = crFaults + 1
      BY DEF sync_fails, Faulty, CrTyped
    <3> QED
      BY <3>1, ReleaseAssumption
  <2> QED
    BY <2>1 DEF sync_fails, Goes, Restored, CrTyped
<1>2. launcher \in Launchers /\ May(launcher) /\ launcher.by # n
  BY <1>0 DEF CrCommands, AtPlace
<1>3. q \in CrCommands /\ q.at = "sync restored" /\ q.n = n
  BY <1>0 DEF CrCommands
<1> HIDE DEF q, launcher
<1>4. /\ crRun' \in [CrRunners -> CrCommands]
      /\ \A y \in CrRunners : crRun'[y] = IF y = x THEN q ELSE crRun[y]
  BY <1>1, <1>3 DEF CrTyped
<1>5. CrTyped'
  <2>1. crOnDisk' \subseteq Launchers \X SUBSET Identifiers
    <3>1. crOnDisk \subseteq Launchers \X SUBSET Identifiers /\ crStored \subseteq Identifiers
      BY DEF CrTyped
    <3> QED
      BY <1>1, <1>2, <3>1, OneMorePair
  <2> QED
    BY <1>1, <1>2, <1>4, <2>1 DEF CrTyped
<1>6. Numbered'
  <2>1. \A y \in CrRunners : /\ crRun'[y].n = crRun[y].n /\ (crRun'[y].at = "idle" <=> crRun[y].at = "idle")
                             /\ crRun'[y].at \in Changing <=> crRun[y].at \in Changing
    BY <1>0, <1>3, <1>4 DEF Changing
  <2> QED
    BY <1>1, <2>1 DEF Numbered
<1>8. ASSUME NEW l, May(l) PROVE May(l)'
  <2>1. OfNoFailed(l)'
    BY <1>1, <1>3, <1>4, <1>8 DEF May, OfNoFailed, Replaced
  <2> QED
    BY <1>1, <1>8, <2>1 DEF May, WholeOf, AtLeastInstalled
<1>9. PICK was : was = launcher
  OBVIOUS
<1>10. OnDiskSound'
  <2>1. \A kept \in crOnDisk' : kept[2] \subseteq crStored /\ WholeOf(kept[1], kept[2]) /\ May(kept[1])'
    <3> SUFFICES ASSUME NEW kept \in crOnDisk'
                 PROVE  kept[2] \subseteq crStored /\ WholeOf(kept[1], kept[2]) /\ May(kept[1])'
      OBVIOUS
    <3>1. CASE kept \in crOnDisk
      BY <1>8, <3>1 DEF OnDiskSound
    <3>2. CASE kept = <<was, crStored>>
      BY <1>2, <1>8, <1>9, <3>2 DEF May
    <3> QED
      BY <1>1, <1>9, <3>1, <3>2
  <2>2. \E kept \in crOnDisk' : kept[1] = crLauncher'
    <3>1. <<crLauncher', crStored>> \in crOnDisk'
      BY <1>1
    <3> QED
      BY <3>1
  <2> QED
    BY <1>1, <2>1, <2>2 DEF OnDiskSound, WholeOf
<1>11. ASSUME NEW y \in CrRunners PROVE AtPlace(crRun[y])'
  <2>1. CASE y = x
    BY <1>1, <1>2, <1>3, <1>4, <2>1 DEF AtPlace
  <2>2. CASE y # x
    <3>1. AtPlace(crRun[y]) /\ crRun'[y] = crRun[y] /\ crRun[y].at \notin Changing
      BY <1>0, <1>4, <2>2, OneChanges DEF Changing
    <3> QED
      BY <3>1 DEF AtPlace, Changing
  <2> QED
    BY <2>1, <2>2
<1>20. OneBuildEach'
  BY <1>1 DEF OneBuildEach
<1> QED
  BY <1>5, <1>6, <1>10, <1>11, <1>20

LEMMA PowerCutKeeps ==
  ASSUME CrInv, CrOneJournal = TRUE, PowerCut
  PROVE  CrInv'
<1> USE DEF CrInv
<1>1. PICK kept \in crOnDisk, left \in SUBSET (crStored \ crSynced) :
        /\ crLauncher' = kept[1] /\ crStored' = crSynced \cup left \cup kept[2]
        /\ crSynced' = crStored' /\ crOnDisk' = {<<kept[1], crStored'>>}
  BY DEF PowerCut
<1>2. /\ UNCHANGED <<crTold, crInstalled, crRuns>> /\ crLock' = 0
      /\ crRun' = [x \in CrRunners |-> NotRunning] /\ crFaults' \in 0..CrMaxFaults
  <2>1. crFaults' \in 0..CrMaxFaults
    <3>1. crFaults \in 0..CrMaxFaults /\ crFaults < CrMaxFaults /\ crFaults' = crFaults + 1
      BY DEF PowerCut, Faulty, CrTyped
    <3> QED
      BY <3>1, ReleaseAssumption
  <2> QED
    BY <2>1 DEF PowerCut
<1>3. kept[1] \in Launchers /\ kept[2] \subseteq Identifiers /\ crStored' \subseteq Identifiers
  BY <1>1 DEF CrTyped
<1>4. CrTyped'
  <2>1. crOnDisk' \subseteq Launchers \X SUBSET Identifiers
    BY <1>1, <1>3, OneMorePair
  <2>2. crRun' \in [CrRunners -> CrCommands]
    BY <1>2, NotRunningIs
  <2> QED
    BY <1>1, <1>2, <1>3, <2>1, <2>2, ZeroIs DEF CrTyped
<1>5. \A x \in CrRunners : crRun'[x] = NotRunning
  BY <1>2
<1>6. Numbered'
  BY <1>2, <1>5, NotRunningIs DEF Numbered, Changing
<1>7. WholeOf(kept[1], kept[2]) /\ May(kept[1])
  BY <1>1 DEF OnDiskSound
<1>8. WholeOf(kept[1], crStored')
  BY <1>1, <1>7 DEF WholeOf
<1>9. May(kept[1])'
  BY <1>2, <1>5, <1>7, <1>8, NotRunningIs DEF May, OfNoFailed, AtLeastInstalled, WholeOf
<1>10. OnDiskSound'
  BY <1>1, <1>8, <1>9 DEF OnDiskSound, WholeOf
<1>11. \A x \in CrRunners : AtPlace(crRun[x])'
  BY <1>5, NotRunningIs DEF AtPlace
<1>20. OneBuildEach'
  BY <1>2 DEF OneBuildEach
<1> QED
  BY <1>4, <1>6, <1>10, <1>11, <1>20


(* What the handlers are, one lemma for each step.                          *)
LEMMA ResolveKeeps ==
  ASSUME CrInv, NEW x \in CrRunners, resolve_channel(x)
  PROVE  CrInv'
<1>1. PICK id \in CrReleases : crRun' = [crRun EXCEPT ![x].at = "fetched", ![x].id = id]
  BY DEF resolve_channel
<1> DEFINE k == [crRun[x] EXCEPT !.at = "fetched"]
           q == [k EXCEPT !.id = id]
<1>2. crRun[x] \in CrCommands /\ crRun \in [CrRunners -> CrCommands] /\ crRun[x].at = "fetch"
  BY DEF CrInv, CrTyped, resolve_channel
<1>3. crRun' = [crRun EXCEPT ![x] = q]
  BY <1>1, <1>2
<1>4. k \in CrCommands /\ k.at = "fetched" /\ k.n = crRun[x].n
  BY <1>2 DEF CrCommands
<1> HIDE DEF k
<1>10. q \in CrCommands /\ q.at = "fetched" /\ q.n = crRun[x].n /\ q.id = id
  BY <1>4 DEF CrCommands
<1> HIDE DEF q
<1>5. PICK p \in CrCommands : p.at = "fetched" /\ p.n = crRun[x].n /\ p.id = id /\ crRun' = [crRun EXCEPT ![x] = p]
  BY <1>3, <1>10
<1>6. UNCHANGED <<crLauncher, crOnDisk, crStored, crSynced, crLock, crTold, crInstalled, crRuns, crFaults>>
  BY DEF resolve_channel, crFiles
<1>7. AtPlace(p)'
  BY <1>5 DEF AtPlace
<1>8. crStored \subseteq Identifiers /\ crSynced \subseteq crStored
  BY DEF CrInv, CrTyped
<1>9. p.at \notin Changing /\ p.at \notin Replaced \cup {"idle"} /\ crRun[x].at \notin Replaced \cup {"idle"}
  BY <1>2, <1>5 DEF Changing, Replaced
<1> QED
  BY <1>2, <1>5, <1>6, <1>7, <1>8, <1>9, GoesOnKeeps

(* A command goes to another place, its release unchanged.                  *)
LEMMA GoesIs ==
  ASSUME CrInv, NEW x \in CrRunners, crRun[x].at # "idle",
         NEW place \in {"check", "sync backup", "stage", "sync release", "activate", "swap"}, Goes(x, place)
  PROVE  \E q \in CrCommands :
           /\ q.at = place /\ q.n = crRun[x].n /\ q.id = crRun[x].id /\ crRun' = [crRun EXCEPT ![x] = q]
           /\ q.at \in Changing /\ q.at \notin Replaced \cup {"idle"}
<1> DEFINE q == [crRun[x] EXCEPT !.at = place]
<1>1. crRun[x] \in CrCommands /\ crRun \in [CrRunners -> CrCommands]
  BY DEF CrInv, CrTyped
<1>2. q \in CrCommands /\ q.at = place /\ q.n = crRun[x].n /\ q.id = crRun[x].id
  BY <1>1 DEF CrCommands
<1>3. crRun' = [crRun EXCEPT ![x] = q]
  BY <1>1 DEF Goes
<1> HIDE DEF q
<1>4. q.at \in Changing /\ q.at \notin Replaced \cup {"idle"}
  BY <1>2 DEF Changing, Replaced
<1> QED
  BY <1>2, <1>3, <1>4

LEMMA InstallationKeeps ==
  ASSUME CrInv, NEW x \in CrRunners, _installation(x)
  PROVE  CrInv'
<1> DEFINE place == IF crRun[x].at = "fetched" THEN "check" ELSE "swap"
<1>1. /\ crRun[x].at \in {"fetched", "rollback"} /\ crLock = 0 /\ crLock' = crRun[x].n /\ Goes(x, place)
      /\ UNCHANGED <<crLauncher, crOnDisk, crStored, crSynced, crTold, crInstalled, crRuns, crFaults>>
  BY DEF _installation, crFiles
<1>2. place \in {"check", "swap"} /\ crRun[x].at # "idle"
  BY <1>1
<1>3. PICK q \in CrCommands :
        /\ q.at = place /\ q.n = crRun[x].n /\ q.id = crRun[x].id /\ crRun' = [crRun EXCEPT ![x] = q]
        /\ q.at \in Changing /\ q.at \notin Replaced \cup {"idle"}
  BY <1>1, <1>2, GoesIs
<1>4. AtPlace(crRun[x])
  BY DEF CrInv
<1>5. AtPlace(q)'
  <2>1. CASE crRun[x].at = "fetched"
    BY <1>3, <1>4, <2>1 DEF AtPlace
  <2>2. CASE crRun[x].at # "fetched"
    BY <1>1, <1>3, <1>4, <2>2 DEF AtPlace
  <2> QED
    BY <2>1, <2>2
<1>6. crStored \subseteq Identifiers /\ crSynced \subseteq crStored /\ crRun[x].at \notin Replaced \cup {"idle"}
  BY <1>1 DEF CrInv, CrTyped, Replaced
<1> QED
  BY <1>1, <1>3, <1>5, <1>6, GoesOnKeeps

LEMMA BackupKeeps ==
  ASSUME CrInv, NEW x \in CrRunners, _backup_legacy(x)
  PROVE  CrInv'
<1> DEFINE legacy == ~managed /\ crLauncher.current = Legacy /\ Legacy \notin crStored
           place == IF legacy THEN "sync backup" ELSE "stage"
<1>1. /\ crRun[x].at = "check" /\ MayInstall(crRun[x].id) /\ Goes(x, place)
      /\ crStored' = IF legacy THEN crStored \cup {Legacy} ELSE crStored
      /\ UNCHANGED <<crLauncher, crOnDisk, crSynced, crLock, crTold, crInstalled, crRuns, crFaults>>
  BY DEF _backup_legacy
<1>2. place \in {"sync backup", "stage"} /\ crRun[x].at # "idle" /\ crRun[x].at \in Changing
      /\ crRun[x].at \notin Replaced \cup {"idle"}
  BY <1>1 DEF Changing, Replaced
<1>3. PICK q \in CrCommands :
        /\ q.at = place /\ q.n = crRun[x].n /\ q.id = crRun[x].id /\ crRun' = [crRun EXCEPT ![x] = q]
        /\ q.at \in Changing /\ q.at \notin Replaced \cup {"idle"}
  BY <1>1, <1>2, GoesIs
<1>4. AtPlace(crRun[x])
  BY DEF CrInv
<1>5. /\ crRun[x].id \in CrReleases
      /\ managed => crRun[x].id[1] > crLauncher.highest[1] \/ crRun[x].id = crLauncher.highest
      /\ ~managed /\ crLauncher.current = Legacy => Legacy \in crStored'
  BY <1>1, <1>4 DEF AtPlace, MayInstall, _newer
<1>6. AtPlace(q)'
  <2>1. q.at \in {"sync backup", "stage"}
    BY <1>2, <1>3
  <2> HIDE DEF place
  <2> QED
    BY <1>1, <1>3, <1>5, <2>1 DEF AtPlace, managed
<1>7. crStored \subseteq crStored' /\ crStored' \subseteq Identifiers /\ crSynced' \subseteq crStored'
  BY <1>1 DEF CrInv, CrTyped, Identifiers
<1> QED
  BY <1>1, <1>2, <1>3, <1>6, <1>7, GoesOnKeeps

LEMMA StageKeeps ==
  ASSUME CrInv, NEW x \in CrRunners, _stage(x)
  PROVE  CrInv'
<1> DEFINE place == IF crRun[x].id \in crStored THEN "activate" ELSE "sync release"
<1>1. /\ crRun[x].at = "stage" /\ Goes(x, place) /\ crStored' = crStored \cup {crRun[x].id}
      /\ UNCHANGED <<crLauncher, crOnDisk, crSynced, crLock, crTold, crInstalled, crRuns, crFaults>>
  BY DEF _stage
<1>2. place \in {"activate", "sync release"} /\ crRun[x].at # "idle" /\ crRun[x].at \in Changing
      /\ crRun[x].at \notin Replaced \cup {"idle"}
  BY <1>1 DEF Changing, Replaced
<1>3. PICK q \in CrCommands :
        /\ q.at = place /\ q.n = crRun[x].n /\ q.id = crRun[x].id /\ crRun' = [crRun EXCEPT ![x] = q]
        /\ q.at \in Changing /\ q.at \notin Replaced \cup {"idle"}
  BY <1>1, <1>2, GoesIs
<1>4. AtPlace(crRun[x])
  BY DEF CrInv
<1>5. /\ crRun[x].id \in CrReleases
      /\ managed => crRun[x].id[1] > crLauncher.highest[1] \/ crRun[x].id = crLauncher.highest
      /\ ~managed /\ crLauncher.current = Legacy => Legacy \in crStored'
  BY <1>1, <1>4 DEF AtPlace
<1>6. AtPlace(q)'
  <2>1. q.at \in {"sync release", "activate"}
    BY <1>2, <1>3
  <2> HIDE DEF place
  <2> QED
    BY <1>1, <1>3, <1>5, <2>1 DEF AtPlace, managed
<1>7. crStored \subseteq crStored' /\ crStored' \subseteq Identifiers /\ crSynced' \subseteq crStored'
  BY <1>1, <1>5 DEF CrInv, CrTyped, Identifiers
<1> QED
  BY <1>1, <1>2, <1>3, <1>6, <1>7, GoesOnKeeps

LEMMA SyncRootKeeps ==
  ASSUME CrInv, NEW x \in CrRunners, sync_root(x)
  PROVE  CrInv'
<1> DEFINE place == IF crRun[x].at = "sync backup" THEN "stage" ELSE "activate"
<1>1. /\ crRun[x].at \in {"sync backup", "sync release"} /\ Goes(x, place) /\ crSynced' = crStored
      /\ UNCHANGED <<crLauncher, crOnDisk, crStored, crLock, crTold, crInstalled, crRuns, crFaults>>
  BY DEF sync_root
<1>2. /\ place \in {"stage", "activate"} /\ crRun[x].at # "idle" /\ crRun[x].at \in Changing
      /\ crRun[x].at \notin Replaced \cup {"idle"}
      /\ place = "activate" => crRun[x].at = "sync release"
  BY <1>1 DEF Changing, Replaced
<1>3. PICK q \in CrCommands :
        /\ q.at = place /\ q.n = crRun[x].n /\ q.id = crRun[x].id /\ crRun' = [crRun EXCEPT ![x] = q]
        /\ q.at \in Changing /\ q.at \notin Replaced \cup {"idle"}
  BY <1>1, <1>2, GoesIs
<1>4. AtPlace(crRun[x])
  BY DEF CrInv
<1>5. /\ crRun[x].id \in CrReleases
      /\ managed => crRun[x].id[1] > crLauncher.highest[1] \/ crRun[x].id = crLauncher.highest
      /\ ~managed /\ crLauncher.current = Legacy => Legacy \in crStored
      /\ crRun[x].at = "sync release" => crRun[x].id \in crStored
  BY <1>1, <1>4 DEF AtPlace
<1>6. AtPlace(q)'
  <2>1. q.at \in {"stage", "activate"} /\ (q.at = "activate" => crRun[x].at = "sync release")
    BY <1>2, <1>3
  <2> HIDE DEF place
  <2> QED
    BY <1>1, <1>3, <1>5, <2>1 DEF AtPlace, managed
<1>7. crStored \subseteq Identifiers
  BY DEF CrInv, CrTyped
<1> QED
  BY <1>1, <1>2, <1>3, <1>6, <1>7, GoesOnKeeps

(* A command that touched no launcher says something and ends.              *)
LEMMA SaysKeeps ==
  ASSUME CrInv, NEW x \in CrRunners, crRun[x].at # "idle", NEW word \in {"unchanged", "failed", "failed twice"},
         Says(x, word), UNCHANGED crFiles, crRuns' = crRuns, crFaults' \in 0..CrMaxFaults,
         word = "failed" => crRun[x].at \notin Replaced
  PROVE  CrInv'
<1>1. /\ crTold' = [crTold EXCEPT ![crRun[x].n] = word] /\ crInstalled' = crInstalled
      /\ crRun' = [crRun EXCEPT ![x] = NotRunning]
      /\ crLock' = IF crLock = crRun[x].n THEN 0 ELSE crLock
      /\ UNCHANGED <<crLauncher, crStored, crSynced, crRuns, crOnDisk>>
  BY DEF Says, crFiles
<1>2. \E kept \in crOnDisk' : kept[1] = crLauncher
  BY <1>1 DEF CrInv, OnDiskSound
<1>3. \A kept \in crOnDisk' : AtLeastInstalled(kept[1])' /\ (word = "failed" => kept[1].by # crRun[x].n)
  <2>1. \A kept \in crOnDisk : May(kept[1])
    BY DEF CrInv, OnDiskSound
  <2>2. \A kept \in crOnDisk : AtLeastInstalled(kept[1]) /\ (word = "failed" => kept[1].by # crRun[x].n)
    BY <2>1 DEF May, OfNoFailed
  <2> QED
    BY <1>1, <2>2 DEF AtLeastInstalled
<1>4. crInstalled' \subseteq CrReleases
  BY <1>1 DEF CrInv, CrTyped
<1>5. \A kept \in crOnDisk' : kept \in crOnDisk \/ kept = <<crLauncher, crStored>>
  BY <1>1
<1>6. word = "failed" => crRun[x].at # "sync launcher"
  BY DEF Replaced
<1>7. OneBuildEach'
  BY <1>1 DEF CrInv, OneBuildEach
<1> QED
  BY <1>1, <1>2, <1>7, <1>3, <1>4, <1>5, <1>6, EndsKeeps

LEMMA MoreFaults ==
  ASSUME CrInv
  PROVE  /\ crFaults \in 0..CrMaxFaults
         /\ Faulty => crFaults' \in 0..CrMaxFaults
         /\ crFaults + 1 < CrMaxFaults /\ crFaults' = crFaults + 2 => crFaults' \in 0..CrMaxFaults
<1>1. crFaults \in 0..CrMaxFaults
  BY DEF CrInv, CrTyped
<1> QED
  BY <1>1, ReleaseAssumption DEF Faulty

LEMMA NotBelowItself == \A n \in Nat : n >= n
  OBVIOUS

LEMMA KilledKeeps ==
  ASSUME CrInv, NEW x \in CrRunners, killed(x)
  PROVE  CrInv'
<1>1. /\ crRun' = [crRun EXCEPT ![x] = NotRunning] /\ crRun[x].at # "idle" /\ Faulty
      /\ crLock' = IF crLock = crRun[x].n THEN 0 ELSE crLock
      /\ UNCHANGED <<crLauncher, crStored, crSynced, crRuns, crOnDisk, crTold, crInstalled>>
  BY DEF killed, crFiles
<1>2. crTold' = [crTold EXCEPT ![crRun[x].n] = "nothing"]
  BY <1>1 DEF CrInv, Numbered, CrTyped
<1>3. \E kept \in crOnDisk' : kept[1] = crLauncher
  BY <1>1 DEF CrInv, OnDiskSound
<1>4. \A kept \in crOnDisk' : AtLeastInstalled(kept[1])'
  BY <1>1 DEF CrInv, OnDiskSound, May, AtLeastInstalled
<1>5. crInstalled' \subseteq CrReleases /\ crFaults' \in 0..CrMaxFaults
  BY <1>1, MoreFaults DEF CrInv, CrTyped
<1>6. \A kept \in crOnDisk' : kept \in crOnDisk
  BY <1>1
<1>7. OneBuildEach'
  BY <1>1 DEF CrInv, OneBuildEach
<1> QED
  BY <1>1, <1>7, <1>2, <1>3, <1>4, <1>5, <1>6, EndsKeeps

(* Once the launcher is on the disk for good, it is the only one there.     *)
LEMMA SyncedKeeps ==
  ASSUME CrInv, NEW x \in CrRunners, crRun[x].at \in Replaced,
         NEW word \in {"installed", "rolled back", "failed"}, Says(x, word),
         crOnDisk' = {<<crLauncher, crStored>>}, UNCHANGED <<crLauncher, crStored, crSynced, crRuns, crFaults>>,
         word = "failed" => crRun[x].at = "sync restored",
         word = "installed" => crRun[x].at = "sync launcher" /\ crRun[x].id # NoRelease
  PROVE  CrInv'
<1>1. /\ crTold' = [crTold EXCEPT ![crRun[x].n] = word]
      /\ crInstalled' = IF word = "installed" THEN crInstalled \cup {crRun[x].id} ELSE crInstalled
      /\ crRun' = [crRun EXCEPT ![x] = NotRunning] /\ crLock' = IF crLock = crRun[x].n THEN 0 ELSE crLock
  BY DEF Says
<1>2. /\ crRun[x] \in CrCommands /\ crRun[x].at # "idle" /\ crRun[x].at \in Changing
      /\ AtPlace(crRun[x]) /\ crFaults' \in 0..CrMaxFaults
  BY MoreFaults DEF CrInv, CrTyped, Changing, Replaced
<1>3. \E kept \in crOnDisk' : kept[1] = crLauncher
  OBVIOUS
<1>4. AtLeastInstalled(crLauncher)' /\ OneBuildEach'
  <2>1. AtLeastInstalled(crLauncher) /\ OneBuildEach
    BY LauncherMay DEF May, CrInv
  <2>2. CASE word # "installed"
    BY <1>1, <2>1, <2>2 DEF AtLeastInstalled, OneBuildEach
  <2>3. CASE word = "installed"
    <3> DEFINE version == crRun[x].id[1]
    <3>1. crLauncher.highest = crRun[x].id /\ crRun[x].id # NoRelease /\ crRun[x].id \in CrReleases
      BY <1>2, <2>3 DEF AtPlace, CrCommands
    <3>2. version \in Nat
      BY <3>1, NoReleaseIs
    <3>3. version >= version
      BY <3>2, NotBelowItself
    <3> QED
      BY <1>1, <2>1, <2>3, <3>1, <3>3 DEF AtLeastInstalled, OneBuildEach
  <2> QED
    BY <2>2, <2>3
<1>5. word = "failed" => crLauncher.by # crRun[x].n
  BY <1>2 DEF AtPlace
<1>6. crInstalled' \subseteq CrReleases
  BY <1>1, <1>2 DEF CrInv, CrTyped, CrCommands
<1>7. \A kept \in crOnDisk' : AtLeastInstalled(kept[1])' /\ (word = "failed" => kept[1].by # crRun[x].n)
  <2> SUFFICES ASSUME NEW kept \in crOnDisk'
               PROVE  AtLeastInstalled(kept[1])' /\ (word = "failed" => kept[1].by # crRun[x].n)
    OBVIOUS
  <2>1. kept[1] = crLauncher /\ crLauncher' = crLauncher
    <3>1. kept = <<crLauncher, crStored>>
      OBVIOUS
    <3> QED
      BY <3>1
  <2> QED
    BY <1>4, <1>5, <2>1 DEF AtLeastInstalled
<1>8. word = "failed" => crRun[x].at # "sync launcher"
  OBVIOUS
<1> QED
  BY <1>1, <1>2, <1>3, <1>4, <1>6, <1>7, <1>8, EndsKeeps

LEMMA ActivateKeeps ==
  ASSUME CrInv, NEW x \in CrRunners, _activate(x)
  PROVE  CrInv'
<1> DEFINE id == crRun[x].id
           launcher == Launcher(id, crLauncher.current, id, crRun[x].n)
<1>1. crRun[x].at = "activate" /\ Selects(x, launcher)
  BY DEF _activate
<1>2. /\ id \in CrReleases /\ id \in crStored
      /\ managed => id[1] > crLauncher.highest[1] \/ id = crLauncher.highest
      /\ ~managed /\ crLauncher.current = Legacy => Legacy \in crStored
  BY <1>1 DEF CrInv, AtPlace
<1>3. /\ crLauncher.current \in Identifiers \cup {NoRelease} /\ crRun[x].n \in 0..CrMaxRuns
      /\ crLauncher \in Launchers
  BY DEF CrInv, CrTyped, Launchers, CrCommands
<1>4. /\ launcher \in Launchers /\ launcher.current = id /\ launcher.previous = crLauncher.current
      /\ launcher.highest = id /\ launcher.by = crRun[x].n
  BY <1>2, <1>3 DEF Launcher, Launchers, Identifiers
<1> HIDE DEF launcher
<1>5. May(crLauncher)
  BY LauncherMay
<1>6. crLauncher.current \in crStored \cup {NoRelease}
  <2>1. CASE managed
    BY <1>5, <2>1 DEF May, WholeOf, managed
  <2>2. CASE ~managed
    <3>1. crLauncher \in Unmanaged
      BY <1>5, <2>2 DEF May, managed
    <3> QED
      BY <1>2, <2>2, <3>1, UnmanagedIs
  <2> QED
    BY <2>1, <2>2
<1>7. WholeOf(launcher, crStored)
  BY <1>2, <1>4, <1>6 DEF WholeOf
<1>8. AtLeastInstalled(launcher)
  <2> SUFFICES ASSUME NEW r \in crInstalled
               PROVE  id # NoRelease /\ id[1] >= r[1] /\ (id[1] = r[1] => id = r)
    BY <1>4 DEF AtLeastInstalled
  <2>1. /\ crLauncher.highest # NoRelease /\ crLauncher.highest[1] >= r[1]
        /\ crLauncher.highest[1] = r[1] => crLauncher.highest = r
    BY <1>5 DEF May, AtLeastInstalled
  <2>2. r \in CrReleases /\ crLauncher.highest \in CrReleases
    BY <1>3, <2>1 DEF CrInv, CrTyped, Launchers
  <2>3. id # NoRelease /\ id[1] \in Nat /\ r[1] \in Nat /\ crLauncher.highest[1] \in Nat
    BY <1>2, <2>2, NoReleaseIs
  <2>4. id[1] > crLauncher.highest[1] \/ id = crLauncher.highest
    BY <1>2, <2>1 DEF managed
  <2>5. CASE id = crLauncher.highest
    BY <2>1, <2>3, <2>5
  <2>6. CASE id[1] > crLauncher.highest[1]
    <3>1. id[1] >= r[1] /\ id[1] # r[1]
      BY <2>1, <2>3, <2>6
    <3> QED
      BY <2>3, <3>1
  <2> QED
    BY <2>4, <2>5, <2>6
<1>9. launcher.highest # NoRelease
  BY <1>2, <1>4, NoReleaseIs
<1> QED
  BY <1>1, <1>4, <1>7, <1>8, <1>9, SelectsKeeps

LEMMA RollbackKeeps ==
  ASSUME CrInv, NEW x \in CrRunners, rollback(x)
  PROVE  CrInv'
<1> DEFINE launcher == Launcher(crLauncher.previous, crLauncher.current, crLauncher.highest, crRun[x].n)
<1>1. crRun[x].at = "swap" /\ Selects(x, launcher) /\ MayGoBack
  BY DEF rollback
<1>2. crRun[x].id = NoRelease
  BY <1>1 DEF CrInv, AtPlace
<1>3. crLauncher \in Launchers /\ crRun[x].n \in 0..CrMaxRuns
  BY DEF CrInv, CrTyped, CrCommands
<1>4. /\ launcher \in Launchers /\ launcher.current = crLauncher.previous /\ launcher.previous = crLauncher.current
      /\ launcher.highest = crLauncher.highest /\ launcher.by = crRun[x].n
  BY <1>3 DEF Launcher, Launchers
<1> HIDE DEF launcher
<1>5. May(crLauncher) /\ WholeOf(crLauncher, crStored)
  BY LauncherMay
<1>6. WholeOf(launcher, crStored)
  BY <1>4, <1>5 DEF WholeOf
<1>7. AtLeastInstalled(launcher)
  BY <1>4, <1>5 DEF May, AtLeastInstalled
<1>8. launcher.highest # NoRelease
  BY <1>1, <1>4 DEF MayGoBack, managed
<1> QED
  BY <1>1, <1>2, <1>4, <1>6, <1>7, <1>8, SelectsKeeps

LEMMA CrStutterKeeps == ASSUME CrInv, UNCHANGED crVars PROVE CrInv'
<1>1. UNCHANGED <<crLauncher, crOnDisk, crStored, crSynced, crLock, crRun, crTold, crInstalled, crRuns, crFaults>>
  BY DEF crVars, crFiles
<1>2. CrTyped' /\ Numbered' /\ OneBuildEach'
  BY <1>1 DEF CrInv, CrTyped, Numbered, OneBuildEach
<1>3. \A l : May(l) => May(l)'
  BY <1>1 DEF May, WholeOf, AtLeastInstalled, OfNoFailed
<1>4. OnDiskSound'
  BY <1>1, <1>3 DEF CrInv, OnDiskSound, WholeOf
<1>5. ASSUME NEW y \in CrRunners PROVE AtPlace(crRun[y])'
  <2>1. AtPlace(crRun[y])
    BY DEF CrInv
  <2> QED
    BY <1>1, <1>3, <2>1 DEF AtPlace, managed
<1> QED
  BY <1>2, <1>4, <1>5 DEF CrInv

LEMMA CrStepKeeps ==
  ASSUME CrInv, CrOneJournal = TRUE, CrNext \/ UNCHANGED crVars
  PROVE  CrInv'
<1>1. ASSUME NEW x \in CrRunners, install(x) \/ begin_rollback(x) PROVE CrInv'
  BY <1>1, BeginsKeeps DEF install, begin_rollback
<1>2. ASSUME NEW x \in CrRunners, verify_bundle(x) PROVE CrInv'
  BY <1>2, SaysKeeps, MoreFaults DEF verify_bundle, Replaced
<1>3. ASSUME NEW x \in CrRunners, refused(x) PROVE CrInv'
  BY <1>3, SaysKeeps, MoreFaults DEF refused, Replaced
<1>4. ASSUME NEW x \in CrRunners, AlreadyRuns(x) PROVE CrInv'
  BY <1>4, SaysKeeps, MoreFaults DEF AlreadyRuns
<1>5. ASSUME NEW x \in CrRunners, disk_fails(x) PROVE CrInv'
  BY <1>5, SaysKeeps, MoreFaults DEF disk_fails, Replaced
<1>6. ASSUME NEW x \in CrRunners, restore_fails(x) PROVE CrInv'
  BY <1>6, SaysKeeps, MoreFaults DEF restore_fails
<1>7. ASSUME NEW x \in CrRunners, sync_launcher(x) PROVE CrInv'
  BY <1>7, SyncedKeeps DEF sync_launcher, Replaced
<1>8. ASSUME NEW x \in CrRunners, sync_restored(x) PROVE CrInv'
  BY <1>8, SyncedKeeps DEF sync_restored, Replaced
<1>9. CASE PowerCut
  BY <1>9, PowerCutKeeps
<1>10. CASE UNCHANGED crVars
  BY <1>10, CrStutterKeeps
<1> QED
  BY <1>1, <1>2, <1>3, <1>4, <1>5, <1>6, <1>7, <1>8, <1>9, <1>10, ResolveKeeps, InstallationKeeps,
     BackupKeeps, StageKeeps, SyncRootKeeps, ActivateKeeps, RollbackKeeps, SyncFailsKeeps, KilledKeeps
  DEF CrNext

LEMMA CrInvGivesSound == CrInv => ReleaseSound
<1> SUFFICES ASSUME CrInv PROVE ReleaseSound
  OBVIOUS
<1>1. May(crLauncher) /\ WholeOf(crLauncher, crStored)
  BY LauncherMay
<1>2. RunsWhole
  BY <1>1 DEF RunsWhole, WholeOf, managed
<1>3. FailedMeansUnchanged
  BY <1>1 DEF FailedMeansUnchanged, May, OfNoFailed
<1>4. ASSUME NEW r \in crInstalled
      PROVE  /\ managed /\ crLauncher.highest[1] >= r[1]
             /\ crLauncher.highest[1] = r[1] => crLauncher.highest = r
  BY <1>1 DEF May, AtLeastInstalled, managed
<1> QED
  BY <1>2, <1>3, <1>4 DEF ReleaseSound, InstalledIsKept, CrInv, OneBuildEach

-----------------------------------------------------------------------------
(* Where a rename that survives a power cut brings the older ones with it:   *)
(* nothing somebody wrote in a shared project is lost by a push or a pull,   *)
(* unless it was written while the copy that replaces it was; neither        *)
(* replaces what its computer had not agreed on; and the client itself is    *)
(* replaced whole or not at all, and by nothing older (project_access.py,    *)
(* project_files.py, client_release.py).                                     *)
THEOREM CopiesSoundAlways ==
  ASSUME CrOneJournal = TRUE
  PROVE  ComputerSpec => []CopiesSound
<1>1. ComputerInit => PrInv /\ CrInv
  BY PrInitSound, CrInitSound DEF ComputerInit
<1>2. ASSUME PrInv /\ CrInv, [ComputerNext]_<<focus, prVars, crVars, lvVars, lfVars, nsVars>>
      PROVE  (PrInv /\ CrInv)'
  <2>1. (PrNext \/ UNCHANGED prVars) /\ (CrNext \/ UNCHANGED crVars)
    BY <1>2 DEF ComputerNext
  <2> QED
    BY <1>2, <2>1, PrStepKeeps, CrStepKeeps
<1>3. PrInv /\ CrInv => CopiesSound
  BY PrInvGivesSound, CrInvGivesSound DEF CopiesSound
<1> QED
  BY <1>1, <1>2, <1>3, PTL DEF ComputerSpec
-----------------------------------------------------------------------------
(* The mounted folder.  The connector and the daemon that serve each other  *)
(* have carried out the same requests, unless the daemon was started anew   *)
(* for a connector whose mark an explicit stop had cleared under it; and    *)
(* what is numbered by such a one is not carried out twice either.          *)
Residents == [at : {"off", "waiting", "dialing", "linked"}, instance : 0..LvMaxInstances,
              done : Seq(Requested)]
Daemons == [on : BOOLEAN, instance : 0..LvMaxInstances, sequence : 0..LvMaxRequests,
            pending : 0..LvMaxRequests, anew : BOOLEAN]
Packets == [kind : {"none", "request", "reply"}, sequence : 0..LvMaxRequests, of : 0..LvMaxRequests]
Stops == [at : 0..3, daemon : BOOLEAN, by : {"computer", "failure", "agent", "abandoned"}, good : BOOLEAN]

LvTyped ==
  /\ connector \in Residents /\ daemon \in Daemons /\ request \in Packets /\ stopping \in Stops
  /\ marked \in 0..LvMaxInstances /\ mount \in BOOLEAN
  /\ dials \subseteq [instance : Instances, heard : BOOLEAN]
  /\ opening \in BOOLEAN /\ stopped \in BOOLEAN /\ pane \in {"none", "new", "checked", "claude"}
  /\ asked \in 0..LvMaxRequests /\ instances \in 0..LvMaxInstances
  /\ ran \in [Requested -> 0..1] /\ told \in [Requested -> 0..LvMaxRequests]
  /\ unmarked \subseteq 0..LvMaxInstances /\ renumbered \subseteq Requested

(* Who is older than whom, and who is heard by whom.                        *)
InOrder ==
  /\ \A d \in dials : /\ d.instance <= instances
                      /\ d.heard => connector.at = "dialing" /\ d.instance = connector.instance
  /\ connector.instance <= instances /\ daemon.instance <= instances /\ marked <= instances
  /\ connector.at # "off" => connector.instance > 0
  /\ Linked => Serving /\ connector.instance = daemon.instance
  /\ daemon.sequence <= asked
  /\ daemon.pending # 0 => daemon.pending = asked /\ daemon.sequence > 0
  /\ daemon.pending # 0 /\ daemon.anew => daemon.pending \in renumbered
  /\ ~daemon.on => daemon = NoDaemon

(* What was carried out is what was asked, but for the request that is open. *)
InStep(done) ==
  \/ daemon.sequence = Len(done) /\ (daemon.pending # 0 => done[Len(done)] = daemon.pending)
  \/ daemon.sequence = Len(done) + 1 /\ daemon.pending # 0 /\ ran[daemon.pending] = 0

(* The open request is not carried out yet, or was the last that was.        *)
Undone(done) ==
  daemon.pending # 0 =>
    ran[daemon.pending] = 0 \/ (daemon.sequence = Len(done) /\ done[Len(done)] = daemon.pending)

Remembered ==
  connector.at # "off" =>
    /\ connector.instance \notin unmarked /\ connector.done # <<>> => marked = connector.instance
    /\ daemon.on /\ daemon.instance = connector.instance =>
         /\ connector.instance \notin unmarked => marked = connector.instance
         /\ Undone(connector.done)
         /\ ~daemon.anew => InStep(connector.done)

OpenRequest ==
  /\ request.kind = "none" => request = Quietly
  /\ request.kind # "none" =>
       Linked /\ request.sequence = daemon.sequence /\ request.of \in Requested /\ daemon.pending # 0
  /\ request.kind = "request" => request.of = daemon.pending
  /\ request.kind = "reply" /\ ~daemon.anew =>
       request.of = daemon.pending /\ daemon.sequence = Len(connector.done)

Told ==
  /\ \A o \in Requested : o > asked => ran[o] = 0
  /\ \A o \in Requested : told[o] \in {0, o} \/ o \in renumbered

(* The computer stops what it no longer serves: what is there has not been  *)
(* mounted and will not be.                                                 *)
ComputerStops == stopping.at # 0 /\ stopping.by = "computer"
Barren == daemon.on => daemon.sequence = 0 \/ daemon.pending # 0
NothingWorks == ~mount /\ pane \in {"none", "new"}

Stopped ==
  /\ ComputerStops => connector.at = "off" /\ (~stopping.daemon => Barren)
  /\ ComputerStops /\ stopping.at = 3 /\ stopping.good => NothingWorks
  /\ stopped => connector.at = "off" /\ Barren /\ NothingWorks

LvInv == LvTyped /\ InOrder /\ Remembered /\ OpenRequest /\ Told /\ Stopped

LEMMA ResidentIs ==
  ASSUME NEW a \in {"off", "waiting", "dialing", "linked"}, NEW i \in 0..LvMaxInstances, NEW done \in Seq(Requested)
  PROVE  Resident(a, i, done) \in Residents
  BY DEF Resident, Residents

LEMMA NoResidentIs ==
  NoResident \in Residents /\ NoResident.at = "off" /\ NoResident.instance = 0 /\ NoResident.done = <<>>
<1>1. <<>> \in Seq(Requested) /\ 0 \in 0..LvMaxInstances
  BY LiveAssumption
<1> QED
  BY <1>1, ResidentIs DEF NoResident, Resident

LEMMA MovedIs ==
  ASSUME connector \in Residents, NEW a \in {"off", "waiting", "dialing", "linked"}
  PROVE  /\ [connector EXCEPT !.at = a] \in Residents /\ [connector EXCEPT !.at = a].at = a
         /\ [connector EXCEPT !.at = a].instance = connector.instance
         /\ [connector EXCEPT !.at = a].done = connector.done
  BY DEF Residents

LEMMA UnlinkedIs ==
  ASSUME connector \in Residents
  PROVE  /\ Unlinked \in Residents /\ Unlinked.at = (IF Linked THEN "waiting" ELSE connector.at)
         /\ Unlinked.instance = connector.instance /\ Unlinked.done = connector.done
  BY MovedIs DEF Unlinked, Linked

LEMMA NoDaemonIs ==
  /\ NoDaemon \in Daemons /\ ~NoDaemon.on /\ NoDaemon.instance = 0 /\ NoDaemon.sequence = 0 /\ NoDaemon.pending = 0
  /\ ~NoDaemon.anew
  BY LiveAssumption DEF NoDaemon, Daemons

LEMMA QuietlyIs == Quietly \in Packets /\ Quietly.kind = "none"
  BY LiveAssumption DEF Quietly, Packets

LEMMA NoStopIs == NoStop \in Stops /\ NoStop.at = 0 /\ ~NoStop.daemon /\ NoStop.good
  BY DEF NoStop, Stops

LEMMA WentOn ==
  ASSUME stopping \in Stops, stopping.at \in 1..2, NEW g \in BOOLEAN
  PROVE  LET s == [stopping EXCEPT !.at = stopping.at + 1, !.good = g]
         IN s \in Stops /\ s.at = stopping.at + 1 /\ s.by = stopping.by /\ s.daemon = stopping.daemon /\ (s.good <=> g)
<1> DEFINE k == [stopping EXCEPT !.at = stopping.at + 1]
           s == [stopping EXCEPT !.at = stopping.at + 1, !.good = g]
<1>1. k \in Stops /\ k.at = stopping.at + 1 /\ k.by = stopping.by /\ k.daemon = stopping.daemon
  BY DEF Stops
<1>2. s = [k EXCEPT !.good = g]
  OBVIOUS
<1> HIDE DEF k, s
<1>3. s \in Stops /\ s.at = k.at /\ s.by = k.by /\ s.daemon = k.daemon /\ (s.good <=> g)
  BY <1>1, <1>2 DEF Stops
<1> QED
  BY <1>1, <1>3 DEF s

LEMMA StartedFor ==
  ASSUME NEW i \in 0..LvMaxInstances, NEW a \in BOOLEAN
  PROVE  LET s == [on |-> TRUE, instance |-> i, sequence |-> 0, pending |-> 0, anew |-> a]
         IN s \in Daemons /\ s.on /\ s.instance = i /\ s.sequence = 0 /\ s.pending = 0 /\ s.anew = a
<1>1. 0 \in 0..LvMaxRequests /\ TRUE \in BOOLEAN
  BY LiveAssumption
<1> QED
  BY <1>1 DEF Daemons

LEMMA UnheardIs ==
  ASSUME LvTyped, NEW D \in {Unheard, {}}
  PROVE  /\ D \subseteq [instance : Instances, heard : BOOLEAN]
         /\ \A d \in D : ~d.heard /\ \E e \in dials : d.instance = e.instance
<1> SUFFICES ASSUME NEW d \in D
             PROVE  /\ d \in [instance : Instances, heard : BOOLEAN] /\ ~d.heard
                    /\ \E e \in dials : d.instance = e.instance
  OBVIOUS
<1>1. PICK e \in dials : d = [e EXCEPT !.heard = FALSE]
  BY DEF Unheard
<1>2. e \in [instance : Instances, heard : BOOLEAN]
  BY DEF LvTyped
<1> QED
  BY <1>1, <1>2

LEMMA StartLocalConnectorKeeps == ASSUME LvInv, start_local_connector PROVE LvInv'
<1>1. LvTyped'
  <2>1. connector' \in Residents
    <3>1. <<>> \in Seq(Requested)
      OBVIOUS
    <3>2. instances + 1 \in 0..LvMaxInstances
      BY LiveAssumption DEF LvInv, LvTyped, start_local_connector
    <3> QED
      BY <3>1, <3>2, ResidentIs DEF start_local_connector
  <2>2. instances' \in 0..LvMaxInstances
    BY LiveAssumption DEF LvInv, LvTyped, start_local_connector
  <2>3. stopping' \in Stops
    <3>1. [stopping EXCEPT !.by = "abandoned"] \in Stops
      BY DEF LvInv, LvTyped, Stops
    <3> QED
      BY <3>1 DEF start_local_connector, LvInv, LvTyped
  <2> QED
    BY <2>1, <2>2, <2>3 DEF start_local_connector, LvInv, LvTyped, lvSession, lvHistory
<1>2. InOrder'
  BY DEF start_local_connector, LvInv, LvTyped, InOrder, Resident, lvSession, lvHistory, Residents,
      Daemons, Packets, Stops, Instances, Requested, Linked, Serving, NoDaemon
<1>3. Remembered'
  BY DEF start_local_connector, LvInv, LvTyped, InOrder, Remembered, Resident, lvSession, lvHistory,
      Residents, Daemons, Packets, Stops, Instances, Requested, Linked, Serving, NoDaemon, InStep, Undone
<1>4. OpenRequest'
  BY DEF start_local_connector, LvInv, OpenRequest, Resident, lvSession, lvHistory, Quietly, Linked
<1>5. Told'
  BY DEF start_local_connector, LvInv, Told, Resident, lvSession, lvHistory, Requested
<1>6. Stopped'
  BY DEF start_local_connector, LvInv, Stopped, Resident, lvSession, lvHistory, ComputerStops,
      Barren, NothingWorks
<1> QED
  BY <1>1, <1>2, <1>3, <1>4, <1>5, <1>6 DEF LvInv

LEMMA DialKeeps == ASSUME LvInv, dial PROVE LvInv'
<1>1. LvTyped'
  <2>1. connector' \in Residents
    BY MovedIs DEF dial, LvInv, LvTyped
  <2>2. connector.instance \in Instances
    BY DEF LvInv, LvTyped, InOrder, Residents, Instances, dial
  <2>3. [instance |-> connector.instance, heard |-> TRUE] \in [instance : Instances, heard : BOOLEAN]
    BY <2>2
  <2> QED
    BY <2>1, <2>3 DEF dial, LvInv, LvTyped, lvSession, lvHistory
<1>2. InOrder'
  BY DEF dial, LvInv, InOrder, lvSession, lvHistory, Linked, Serving, NoDaemon
<1>3. Remembered'
  BY DEF dial, LvInv, Remembered, lvSession, lvHistory, InStep, Undone
<1>4. OpenRequest'
  BY DEF dial, LvInv, OpenRequest, lvSession, lvHistory, Quietly, Linked
<1>5. Told'
  BY DEF dial, LvInv, Told, lvSession, lvHistory, Requested
<1>6. Stopped'
  BY DEF dial, LvInv, Stopped, lvSession, lvHistory, ComputerStops, Barren, NothingWorks
<1> QED
  BY <1>1, <1>2, <1>3, <1>4, <1>5, <1>6 DEF LvInv

LEMMA LinkBreaksKeeps == ASSUME LvInv, link_breaks PROVE LvInv'
<1>1. LvTyped'
  BY MovedIs, NoResidentIs, QuietlyIs, UnheardIs DEF link_breaks, LvInv, LvTyped, lvSession, lvHistory
<1>2. InOrder'
  <2>1. connector'.at = "waiting" /\ connector.at # "off" /\ connector'.instance = connector.instance /\ instances' = instances
    BY MovedIs, NoResidentIs DEF link_breaks, LvInv, LvTyped
  <2>2. \A d \in dials' : d.instance <= instances' /\ ~d.heard
    BY <2>1, UnheardIs DEF link_breaks, LvInv, LvTyped, InOrder
  <2> QED
    BY <2>1, <2>2, LiveAssumption DEF link_breaks, LvInv, LvTyped, InOrder, Linked, Serving, NoDaemon, lvHistory
<1>3. Remembered'
  BY DEF link_breaks, LvInv, Remembered, Quietly, Unheard, lvSession, lvHistory, InStep, Undone
<1>4. OpenRequest'
  BY DEF link_breaks, LvInv, OpenRequest, Quietly, Unheard, lvSession, lvHistory, Linked
<1>5. Told'
  BY DEF link_breaks, LvInv, Told, Quietly, Unheard, lvSession, lvHistory, Requested
<1>6. Stopped'
  BY DEF link_breaks, LvInv, Stopped, Quietly, Unheard, lvSession, lvHistory, ComputerStops, Barren,
      NothingWorks
<1> QED
  BY <1>1, <1>2, <1>3, <1>4, <1>5, <1>6 DEF LvInv

LEMMA ConnectorEndsKeeps == ASSUME LvInv, connector_ends PROVE LvInv'
<1>1. LvTyped'
  BY MovedIs, NoResidentIs, QuietlyIs, UnheardIs DEF connector_ends, LvInv, LvTyped, lvSession, lvHistory
<1>2. InOrder'
  <2>1. connector'.at = "off" /\ connector'.instance = 0 /\ instances' = instances
    BY MovedIs, NoResidentIs DEF connector_ends, LvInv, LvTyped
  <2>2. \A d \in dials' : d.instance <= instances' /\ ~d.heard
    BY <2>1, UnheardIs DEF connector_ends, LvInv, LvTyped, InOrder
  <2> QED
    BY <2>1, <2>2, LiveAssumption DEF connector_ends, LvInv, LvTyped, InOrder, Linked, Serving, NoDaemon, lvHistory
<1>3. Remembered'
  BY DEF connector_ends, LvInv, Remembered, NoResident, Quietly, Unheard, lvSession, lvHistory,
      InStep, Undone, Resident
<1>4. OpenRequest'
  BY DEF connector_ends, LvInv, OpenRequest, NoResident, Quietly, Unheard, lvSession, lvHistory,
      Linked, Resident
<1>5. Told'
  BY DEF connector_ends, LvInv, Told, NoResident, Quietly, Unheard, lvSession, lvHistory, Requested,
      Resident
<1>6. Stopped'
  BY DEF connector_ends, LvInv, Stopped, NoResident, Quietly, Unheard, lvSession, lvHistory,
      ComputerStops, Barren, NothingWorks, Resident
<1> QED
  BY <1>1, <1>2, <1>3, <1>4, <1>5, <1>6 DEF LvInv

LEMMA AnswerKeeps == ASSUME LvInv, answer PROVE LvInv'
<1>1. LvTyped'
  <2>1. PICK s, done : s = request.sequence /\ done = connector.done
    OBVIOUS
  <2>2. /\ s \in Int /\ done \in Seq(Requested) /\ request.of \in Requested /\ ran[request.of] \in 0..1
        /\ s \in 1..Len(done) => done[s] \in Requested /\ s \in 0..LvMaxRequests
        /\ s = Len(done) + 1 => ran[request.of] = 0
    BY <2>1, LiveAssumption DEF answer, LvInv, LvTyped, Packets, Residents, Requested, OpenRequest, Linked,
       InOrder, Remembered, InStep, Undone, Daemons, Serving
  <2>3. s >= 1
    BY <2>1, LiveAssumption DEF answer, LvInv, LvTyped, Daemons, InOrder, OpenRequest
  <2>4. request' \in Packets
    <3>1. [kind |-> "reply", sequence |-> s, of |-> done[s]] \in Packets
             \/ ~ s \in (Len(done) - LvWindow + 1)..Len(done)
      BY <2>2, <2>3, LiveAssumption DEF Packets, Requested
    <3>2. [request EXCEPT !.kind = "reply"] \in Packets
      BY DEF LvInv, LvTyped, Packets
    <3> QED
      BY <2>1, <3>1, <3>2, QuietlyIs DEF answer
  <2>5. connector' \in Residents
    <3>1. Append(done, request.of) \in Seq(Requested)
      BY <2>2
    <3>2. [connector EXCEPT !.done = Append(done, request.of)] \in Residents
      BY <3>1 DEF LvInv, LvTyped, Residents
    <3> QED
      BY <2>1, <3>2, NoResidentIs DEF answer, LvInv, LvTyped
  <2>6. ran' \in [Requested -> 0..1]
    BY <2>1, <2>2 DEF answer, LvInv, LvTyped
  <2> QED
    BY <2>4, <2>5, <2>6 DEF answer, LvInv, LvTyped, lvSession
<1>2. InOrder'
  <2>1. /\ connector'.at \in {"off", "linked"} /\ (connector'.at = "linked" => connector'.instance = connector.instance)
        /\ connector'.instance \in {0, connector.instance}
    BY NoResidentIs DEF answer, LvInv, LvTyped, Linked, Residents
  <2>2. \A d \in dials : ~d.heard
    BY DEF answer, LvInv, InOrder, Linked
  <2> QED
    BY <2>1, <2>2, LiveAssumption DEF answer, LvInv, LvTyped, InOrder, Linked, Serving, NoDaemon, lvSession
<1>7. ASSUME request.sequence = Len(connector.done) + 1,
             ran' = [ran EXCEPT ![request.of] = @ + 1],
             connector' = [connector EXCEPT !.done = Append(connector.done, request.of)],
             request' = [request EXCEPT !.kind = "reply"]
      PROVE  Remembered' /\ OpenRequest'
  <2>1. PICK n, done : n = Len(done) /\ done = connector.done
    OBVIOUS
  <2>2. /\ done \in Seq(Requested) /\ n \in Nat /\ Append(done, request.of) \in Seq(Requested)
        /\ Len(Append(done, request.of)) = n + 1 /\ Append(done, request.of)[n + 1] = request.of
    BY <2>1, <1>7 DEF answer, LvInv, LvTyped, Residents, OpenRequest
  <2>3. /\ connector'.done = Append(done, request.of) /\ connector'.at = connector.at
        /\ connector'.instance = connector.instance /\ Append(done, request.of) # <<>>
    BY <2>1, <2>2, <1>7 DEF LvInv, LvTyped, Residents
  <2>4. /\ daemon.pending = request.of /\ daemon.sequence = n + 1 /\ daemon.pending # 0 /\ Linked
        /\ request.sequence = daemon.sequence /\ daemon.on /\ daemon.instance = connector.instance
    BY <2>1, <1>7 DEF answer, LvInv, OpenRequest, InOrder, Serving
  <2>5. daemon' = daemon /\ marked' = marked /\ unmarked' = unmarked
    BY DEF answer
  <2>6. InStep(connector.done)' /\ Undone(connector.done)'
    BY <2>2, <2>3, <2>4, <2>5 DEF InStep, Undone
  <2>7. Remembered'
    BY <2>3, <2>4, <2>5, <2>6 DEF LvInv, Remembered, Linked
  <2>8. OpenRequest'
    <3>1. request'.kind = "reply" /\ request'.sequence = request.sequence /\ request'.of = request.of
      BY <1>7 DEF LvInv, LvTyped, Packets
    <3>2. request.of \in Requested
      BY DEF answer, LvInv, OpenRequest
    <3> QED
      BY <2>2, <2>3, <2>4, <2>5, <3>1, <3>2 DEF OpenRequest, Linked
  <2> QED
    BY <2>7, <2>8
<1>8. ASSUME connector' = NoResident, request' = Quietly PROVE Remembered' /\ OpenRequest'
  BY <1>8, NoResidentIs, QuietlyIs DEF Remembered, OpenRequest
<1>9. ASSUME request.sequence \in (Len(connector.done) - LvWindow + 1)..Len(connector.done),
             request' = [kind |-> "reply", sequence |-> request.sequence, of |-> connector.done[request.sequence]],
             ran' = ran, connector' = connector
      PROVE  Remembered' /\ OpenRequest'
  <2>1. PICK n, done : n = Len(done) /\ done = connector.done
    OBVIOUS
  <2>2. done \in Seq(Requested) /\ n \in Nat /\ request.sequence \in Nat /\ request.sequence <= n
    BY <2>1, <1>9, LiveAssumption DEF LvInv, LvTyped, Residents, Packets
  <2>3. /\ daemon.pending = request.of /\ daemon.pending # 0 /\ Linked /\ request.sequence >= 1
        /\ request.sequence = daemon.sequence /\ daemon.on /\ daemon.instance = connector.instance
    BY DEF answer, LvInv, LvTyped, Daemons, OpenRequest, InOrder, Serving
  <2>4. daemon' = daemon /\ marked' = marked /\ unmarked' = unmarked
    BY DEF answer
  <2>5. Remembered'
    BY <1>9, <2>4 DEF LvInv, Remembered, InStep, Undone
  <2>6. ~daemon.anew => n = daemon.sequence /\ done[n] = daemon.pending
    BY <2>1, <2>2, <2>3 DEF LvInv, Remembered, InStep, Linked
  <2>7. done[request.sequence] \in Requested
    BY <2>1, <2>2, <2>3
  <2>8. OpenRequest'
    BY <1>9, <2>1, <2>2, <2>3, <2>4, <2>6, <2>7 DEF OpenRequest, Linked
  <2> QED
    BY <2>5, <2>8
<1>3. Remembered' /\ OpenRequest'
  <2>1. \/ /\ request.sequence = Len(connector.done) + 1
           /\ ran' = [ran EXCEPT ![request.of] = @ + 1]
           /\ connector' = [connector EXCEPT !.done = Append(connector.done, request.of)]
           /\ request' = [request EXCEPT !.kind = "reply"]
        \/ connector' = NoResident /\ request' = Quietly
        \/ /\ request.sequence \in (Len(connector.done) - LvWindow + 1)..Len(connector.done)
           /\ request' = [kind |-> "reply", sequence |-> request.sequence, of |-> connector.done[request.sequence]]
           /\ ran' = ran /\ connector' = connector
    BY Zenon DEF answer
  <2> QED
    BY <1>7, <1>8, <1>9, <2>1, Zenon
<1>5. Told'
  BY LiveAssumption DEF answer, LvInv, LvTyped, InOrder, OpenRequest, Told, Linked, NoResident,
      Quietly, lvSession, Residents, Daemons, Packets, Stops, Instances, Requested, Serving,
      NoDaemon, Resident
<1>6. Stopped'
  BY DEF answer, LvInv, Stopped, Linked, NoResident, Quietly, lvSession, ComputerStops, Barren,
      NothingWorks, Resident
<1> QED
  BY <1>1, <1>2, <1>3, <1>5, <1>6 DEF LvInv

LEMMA EnsureDaemonKeeps == ASSUME LvInv, NEW d \in dials, ensure_daemon(d) PROVE LvInv'
<1>1. LvTyped'
  <2>1. d \in [instance : Instances, heard : BOOLEAN]
    BY DEF LvInv, LvTyped
  <2>2. d.instance \in 0..LvMaxInstances
    BY <2>1, LiveAssumption DEF Instances
  <2>3. [on |-> TRUE, instance |-> d.instance, sequence |-> 0, pending |-> 0, anew |-> d.instance \in unmarked]
          \in Daemons
    <3>1. (d.instance \in unmarked) \in BOOLEAN
      OBVIOUS
    <3> QED
      BY <2>2, <3>1, StartedFor, Zenon
  <2> QED
    BY <2>2, <2>3, NoResidentIs DEF ensure_daemon, Forget, LvInv, LvTyped, lvSession, lvHistory
<1>2. InOrder'
  <2>1. /\ ~Linked /\ d.instance <= instances /\ d.instance \in Nat
    BY LiveAssumption DEF ensure_daemon, LvInv, LvTyped, InOrder, Serving, Instances
  <2>2. CASE LeftOver
    <3>1. connector' \in {connector, NoResident} /\ daemon' = daemon
      BY <2>2 DEF ensure_daemon, Forget
    <3>2. \A e \in dials' : e.heard => connector' = connector
      <4> SUFFICES ASSUME NEW e \in dials', e.heard PROVE connector' = connector
        OBVIOUS
      <4>1. e \in dials /\ e # d
        BY <2>2 DEF ensure_daemon, Forget
      <4>2. e.instance = connector.instance /\ (d.heard => d.instance = connector.instance)
        BY <4>1 DEF LvInv, InOrder
      <4>3. e \in [instance : Instances, heard : BOOLEAN] /\ d \in [instance : Instances, heard : BOOLEAN]
        BY <4>1 DEF LvInv, LvTyped
      <4>4. ~d.heard
        BY <4>1, <4>2, <4>3
      <4> QED
        BY <2>2, <4>4 DEF ensure_daemon, Forget
    <3> QED
      BY <2>1, <2>2, <3>1, <3>2, NoResidentIs, LiveAssumption
      DEF ensure_daemon, Forget, LvInv, LvTyped, InOrder, Linked, Serving, NoDaemon, lvHistory
  <2>3. CASE ~LeftOver
    <3>1. /\ daemon'.on /\ daemon'.instance = d.instance /\ daemon'.sequence = 0 /\ daemon'.pending = 0
          /\ dials' = dials /\ connector' = connector /\ marked' = d.instance /\ asked' = asked
      BY <2>3, NoDaemonIs DEF ensure_daemon, Daemons, lvHistory
    <3> QED
      BY <2>1, <3>1, LiveAssumption DEF ensure_daemon, LvInv, LvTyped, InOrder, Linked, Serving
  <2> QED
    BY <2>2, <2>3
<1>3. Remembered'
  <2>1. CASE LeftOver
    <3>1. /\ connector' \in {connector, NoResident} /\ daemon' = daemon /\ ran' = ran /\ marked' = marked
          /\ unmarked' = unmarked
      BY <2>1 DEF ensure_daemon, Forget, lvHistory
    <3> QED
      BY <3>1, NoResidentIs DEF LvInv, Remembered, InStep, Undone
  <2>2. CASE ~LeftOver
    <3>0. connector' = connector /\ marked' = d.instance /\ marked = 0 /\ unmarked' = unmarked
      BY <2>2 DEF ensure_daemon, LeftOver, lvHistory
    <3>1. /\ daemon'.on /\ daemon'.instance = d.instance /\ daemon'.sequence = 0 /\ daemon'.pending = 0
          /\ daemon'.anew <=> d.instance \in unmarked
      <4>1. d.instance \in 0..LvMaxInstances /\ (d.instance \in unmarked) \in BOOLEAN
        BY LiveAssumption DEF LvInv, LvTyped, Instances
      <4>2. daemon' = [on |-> TRUE, instance |-> d.instance, sequence |-> 0, pending |-> 0,
                       anew |-> d.instance \in unmarked]
        BY <2>2, Zenon DEF ensure_daemon
      <4> QED
        BY <4>1, <4>2, StartedFor, Zenon
    <3>2. connector.at # "off" /\ connector.instance \notin unmarked => connector.done = <<>>
      BY <3>0 DEF LvInv, LvTyped, Residents, InOrder, Remembered
    <3>3. Undone(connector.done)'
      BY <3>1 DEF Undone
    <3>4. ASSUME connector.done = <<>> PROVE InStep(connector.done)'
      BY <3>0, <3>1, <3>4 DEF InStep
    <3> QED
      BY <3>0, <3>1, <3>2, <3>3, <3>4 DEF Remembered
  <2> QED
    BY <2>1, <2>2
<1>4. OpenRequest'
  BY DEF ensure_daemon, LvInv, InOrder, OpenRequest, LeftOver, Forget, NoDaemon, lvSession,
      lvHistory, Linked, Serving, Quietly, NoResident, Resident
<1>5. Told'
  BY DEF ensure_daemon, LvInv, Told, LeftOver, Forget, NoDaemon, lvSession, lvHistory, Requested,
      NoResident, Resident
<1>6. Stopped'
  BY DEF ensure_daemon, LvInv, Stopped, LeftOver, Forget, NoDaemon, lvSession, lvHistory,
      ComputerStops, Barren, NothingWorks, NoResident, Resident
<1> QED
  BY <1>1, <1>2, <1>3, <1>4, <1>5, <1>6 DEF LvInv

LEMMA AttachKeeps == ASSUME LvInv, NEW d \in dials, attach(d) PROVE LvInv'
<1>1. LvTyped'
  BY NoResidentIs, UnlinkedIs, QuietlyIs, MovedIs DEF attach, LvInv, LvTyped, Forget, lvSession,
      lvHistory, Requested
<1>2. InOrder'
  <2>0. \A e \in dials' : e \in dials /\ (e.heard => ~d.heard)
    <3> SUFFICES ASSUME NEW e \in dials' PROVE e \in dials /\ (e.heard => ~d.heard)
      OBVIOUS
    <3>1. e \in dials /\ e # d
      BY DEF attach, Forget
    <3>2. e.heard /\ d.heard => e.instance = d.instance
      BY <3>1 DEF LvInv, InOrder
    <3>3. e \in [instance : Instances, heard : BOOLEAN] /\ d \in [instance : Instances, heard : BOOLEAN]
      BY <3>1 DEF LvInv, LvTyped
    <3> QED
      BY <3>1, <3>2, <3>3
  <2>1. CASE Serving /\ Owns(d.instance)
    <3>1. /\ connector'.instance = connector.instance
          /\ connector'.at = IF d.heard THEN "linked" ELSE IF Linked THEN "waiting" ELSE connector.at
          /\ daemon' = daemon /\ Serving'
      BY <2>1, MovedIs, UnlinkedIs DEF attach, LvInv, LvTyped, InOrder, Serving
    <3> QED
      BY <2>0, <2>1, <3>1, LiveAssumption
      DEF attach, Owns, LvInv, LvTyped, InOrder, Linked, NoDaemon, lvHistory
  <2>2. CASE ~(Serving /\ Owns(d.instance))
    <3>1. connector' \in {connector, NoResident} /\ daemon' = daemon /\ stopping' = stopping
      BY <2>2 DEF attach, Forget
    <3>2. ~d.heard => connector' = connector
      BY <2>2 DEF attach, Forget
    <3> QED
      BY <2>0, <3>1, <3>2, NoResidentIs, LiveAssumption
      DEF attach, LvInv, LvTyped, InOrder, Linked, Serving, NoDaemon, lvHistory
  <2> QED
    BY <2>1, <2>2
<1>3. Remembered'
  <2>1. /\ connector'.at # "off" =>
             connector.at # "off" /\ connector'.instance = connector.instance /\ connector'.done = connector.done
        /\ daemon' = daemon /\ marked' = marked /\ ran' = ran /\ unmarked' = unmarked
    BY MovedIs, UnlinkedIs, NoResidentIs DEF attach, Forget, LvInv, LvTyped, lvHistory, Linked
  <2> QED
    BY <2>1 DEF LvInv, Remembered, InStep, Undone
<1>4. OpenRequest'
  BY DEF attach, LvInv, OpenRequest, Serving, Owns, Quietly, Unlinked, Forget, lvSession, lvHistory,
      Linked, NoResident, Resident
<1>5. Told'
  BY DEF attach, LvInv, Told, Serving, Owns, Quietly, Unlinked, Forget, lvSession, lvHistory,
      Requested, Linked, NoResident, Resident
<1>6. Stopped'
  BY DEF attach, LvInv, Stopped, Serving, Owns, Quietly, Unlinked, Forget, lvSession, lvHistory,
      ComputerStops, Barren, NothingWorks, Linked, NoResident, Resident
<1> QED
  BY <1>1, <1>2, <1>3, <1>4, <1>5, <1>6 DEF LvInv

LEMMA ReadPacketKeeps == ASSUME LvInv, read_packet PROVE LvInv'
<1>1. LvTyped'
  <2>1. daemon.sequence + 1 \in 0..LvMaxRequests /\ asked + 1 \in 0..LvMaxRequests
    BY LiveAssumption DEF read_packet, LvInv, LvTyped, InOrder, Daemons
  <2>2. daemon' \in Daemons
    BY <2>1 DEF read_packet, LvInv, LvTyped, Daemons
  <2>3. renumbered' \subseteq Requested
    BY <2>1, LiveAssumption DEF read_packet, LvInv, LvTyped, Requested
  <2>4. asked' \in 0..LvMaxRequests
    BY <2>1 DEF read_packet
  <2> QED
    BY <2>2, <2>3, <2>4 DEF read_packet, LvInv, LvTyped, lvSession
<1>2. InOrder'
  BY DEF read_packet, LvInv, LvTyped, InOrder, Serving, lvSession, Residents, Daemons, Packets,
      Stops, Instances, Requested, Linked, NoDaemon
<1>3. Remembered'
  BY LiveAssumption DEF read_packet, LvInv, LvTyped, InOrder, Remembered, OpenRequest, Told,
      Stopped, Serving, lvSession, Residents, Daemons, Packets, Stops, Instances, Requested, Linked,
      NoDaemon, InStep, Undone, Quietly, ComputerStops, Barren, NothingWorks
<1>4. OpenRequest'
  BY DEF read_packet, LvInv, OpenRequest, Serving, lvSession, Quietly, Linked
<1>5. Told'
  BY DEF read_packet, LvInv, LvTyped, Told, Serving, lvSession, Residents, Daemons, Packets, Stops,
      Instances, Requested
<1>6. Stopped'
  BY DEF read_packet, LvInv, LvTyped, Stopped, Serving, lvSession, Residents, Daemons, Packets,
      Stops, Instances, Requested, ComputerStops, Barren, NothingWorks
<1> QED
  BY <1>1, <1>2, <1>3, <1>4, <1>5, <1>6 DEF LvInv

LEMMA SendKeeps == ASSUME LvInv, send PROVE LvInv'
<1>1. LvTyped'
  <2>1. request' \in Packets
    BY DEF send, LvInv, LvTyped, Daemons, Packets
  <2> QED
    BY <2>1 DEF send, LvInv, LvTyped, lvSession, lvHistory
<1>2. InOrder'
  BY DEF send, LvInv, InOrder, Serving, Linked, Quietly, lvSession, lvHistory, NoDaemon
<1>3. Remembered'
  BY DEF send, LvInv, Remembered, Serving, Linked, Quietly, lvSession, lvHistory, InStep, Undone
<1>4. OpenRequest'
  <2>1. daemon.pending \in Requested
    BY LiveAssumption DEF send, LvInv, LvTyped, Daemons, Requested
  <2> QED
    BY <2>1 DEF send, OpenRequest, Linked, Requested
<1>5. Told'
  BY DEF send, LvInv, Told, Serving, Linked, Quietly, lvSession, lvHistory, Requested
<1>6. Stopped'
  BY DEF send, LvInv, Stopped, Serving, Linked, Quietly, lvSession, lvHistory, ComputerStops,
      Barren, NothingWorks
<1> QED
  BY <1>1, <1>2, <1>3, <1>4, <1>5, <1>6 DEF LvInv

LEMMA ReceiveKeeps == ASSUME LvInv, receive PROVE LvInv'
<1>1. LvTyped'
  <2>1. daemon' \in Daemons
    BY LiveAssumption DEF receive, LvInv, LvTyped, Daemons
  <2>2. told' \in [Requested -> 0..LvMaxRequests]
    BY DEF receive, LvInv, LvTyped, Packets
  <2> QED
    BY <2>1, <2>2, QuietlyIs DEF receive, LvInv, LvTyped, lvSession
<1>2. InOrder'
  BY DEF receive, LvInv, InOrder, Serving, Quietly, lvSession, Linked, NoDaemon
<1>3. Remembered'
  BY DEF receive, LvInv, LvTyped, InOrder, Remembered, OpenRequest, Serving, Quietly, lvSession,
      Residents, Daemons, Packets, Stops, Instances, Requested, Linked, NoDaemon, InStep, Undone
<1>4. OpenRequest'
  BY DEF receive, LvInv, OpenRequest, Serving, Quietly, lvSession, Linked
<1>5. Told'
  BY DEF receive, LvInv, LvTyped, InOrder, OpenRequest, Told, Serving, Quietly, lvSession,
      Residents, Daemons, Packets, Stops, Instances, Requested, Linked, NoDaemon
<1>6. Stopped'
  BY DEF receive, LvInv, LvTyped, InOrder, OpenRequest, Stopped, Serving, Quietly, lvSession,
      Residents, Daemons, Packets, Stops, Instances, Requested, Linked, NoDaemon, ComputerStops,
      Barren, NothingWorks
<1> QED
  BY <1>1, <1>2, <1>3, <1>4, <1>5, <1>6 DEF LvInv

LEMMA MountsKeeps == ASSUME LvInv, mounts PROVE LvInv'
<1>1. LvTyped'
  BY DEF mounts, LvInv, LvTyped, lvSession, lvHistory, Requested
<1>2. InOrder'
  BY DEF mounts, LvInv, InOrder, Serving, lvSession, lvHistory, Linked, NoDaemon
<1>3. Remembered'
  BY DEF mounts, LvInv, Remembered, Serving, lvSession, lvHistory, InStep, Undone
<1>4. OpenRequest'
  BY DEF mounts, LvInv, OpenRequest, Serving, lvSession, lvHistory, Quietly, Linked
<1>5. Told'
  BY DEF mounts, LvInv, Told, Serving, lvSession, lvHistory, Requested
<1>6. Stopped'
  BY DEF mounts, LvInv, Stopped, Serving, lvSession, lvHistory, ComputerStops, Barren, NothingWorks
<1> QED
  BY <1>1, <1>2, <1>3, <1>4, <1>5, <1>6 DEF LvInv

LEMMA DaemonDiesKeeps == ASSUME LvInv, daemon_dies PROVE LvInv'
<1>1. LvTyped'
  BY UnlinkedIs, NoDaemonIs, QuietlyIs, NoStopIs DEF daemon_dies, LvInv, LvTyped, lvHistory,
      Requested
<1>2. InOrder'
  BY DEF daemon_dies, LvInv, LvTyped, InOrder, NoDaemon, Unlinked, Quietly, NoStop, lvHistory,
      Residents, Daemons, Packets, Stops, Instances, Requested, Linked, Serving
<1>3. Remembered'
  BY DEF daemon_dies, LvInv, Remembered, NoDaemon, Unlinked, Quietly, NoStop, lvHistory, InStep, Undone,
      Linked
<1>4. OpenRequest'
  BY DEF daemon_dies, LvInv, OpenRequest, NoDaemon, Unlinked, Quietly, NoStop, lvHistory, Linked
<1>5. Told'
  BY DEF daemon_dies, LvInv, Told, NoDaemon, Unlinked, Quietly, NoStop, lvHistory, Requested, Linked
<1>6. Stopped'
  <2>1. ~daemon'.on /\ pane' \in {pane, "none"} /\ stopped' = stopped /\ mount' \in {mount, FALSE}
    BY NoDaemonIs DEF daemon_dies
  <2>2. connector.at = "off" => connector'.at = "off"
    BY UnlinkedIs DEF daemon_dies, LvInv, LvTyped, Linked
  <2>3. \/ stopping' = stopping
        \/ stopping' = NoStop /\ stopping'.at = 0
    BY NoStopIs DEF daemon_dies
  <2>4. mount' => mount
    BY DEF daemon_dies
  <2>5. pane \in {"none", "new"} => pane' \in {"none", "new"}
    BY <2>1
  <2> QED
    BY <2>1, <2>2, <2>3, <2>4, <2>5 DEF LvInv, Stopped, ComputerStops, Barren, NothingWorks
<1> QED
  BY <1>1, <1>2, <1>3, <1>4, <1>5, <1>6 DEF LvInv

LEMMA StopBeginsKeeps == ASSUME LvInv, stop_begins PROVE LvInv'
<1>1. LvTyped'
  <2>1. stopping' \in Stops
    <3>1. PICK by \in {"computer", "failure", "agent"} : stopping' = [NoStop EXCEPT !.at = 1, !.daemon = daemon.on, !.by = by]
      BY DEF stop_begins, Stoppers
    <3>2. stopping' = [at |-> 1, daemon |-> daemon.on, by |-> by, good |-> TRUE]
      BY <3>1 DEF NoStop
    <3>3. daemon.on \in BOOLEAN
      BY DEF LvInv, LvTyped, Daemons
    <3> QED
      BY <3>2, <3>3 DEF Stops
  <2> QED
    BY <2>1, UnlinkedIs, QuietlyIs DEF stop_begins, LvInv, LvTyped, lvSession, lvHistory
<1>2. InOrder'
  <2>1. /\ connector'.at = (IF Linked THEN "waiting" ELSE connector.at) /\ connector'.instance = connector.instance
    BY UnlinkedIs DEF stop_begins, LvInv, LvTyped, InOrder, Linked, Serving
  <2> QED
    BY <2>1 DEF stop_begins, LvInv, InOrder, Linked, NoDaemon, lvHistory
<1>3. Remembered'
  BY DEF stop_begins, LvInv, LvTyped, Remembered, Stoppers, ComputerMayStop, NoStop, Unlinked,
      Quietly, lvSession, lvHistory, Residents, Daemons, Packets, Stops, Instances, Requested,
      InStep, Undone, Linked
<1>4. OpenRequest'
  BY DEF stop_begins, LvInv, OpenRequest, Stoppers, ComputerMayStop, NoStop, Unlinked, Quietly,
      lvSession, lvHistory, Linked
<1>5. Told'
  BY DEF stop_begins, LvInv, Told, Stoppers, ComputerMayStop, NoStop, Unlinked, Quietly, lvSession,
      lvHistory, Requested, Linked
<1>6. Stopped'
  BY DEF stop_begins, LvInv, Stopped, Stoppers, ComputerMayStop, NoStop, Unlinked, Quietly,
      lvSession, lvHistory, ComputerStops, Barren, NothingWorks, Linked
<1> QED
  BY <1>1, <1>2, <1>3, <1>4, <1>5, <1>6 DEF LvInv

LEMMA CleanupUnmountsKeeps == ASSUME LvInv, cleanup_unmounts PROVE LvInv'
<1>1. LvTyped'
  <2>1. stopping.at = 1
    BY DEF cleanup_unmounts, Cleans, CleanupSteps
  <2>2. mount' \in BOOLEAN
    BY DEF cleanup_unmounts, LvInv, LvTyped
  <2>3. stopping' \in Stops
    <3>1. (~mount') \in BOOLEAN /\ stopping \in Stops /\ stopping.at \in 1..2
      BY <2>1 DEF LvInv, LvTyped
    <3>2. stopping' = [stopping EXCEPT !.at = stopping.at + 1, !.good = ~mount']
      BY DEF cleanup_unmounts
    <3> QED
      BY <3>1, <3>2, WentOn, Zenon
  <2> QED
    BY <2>2, <2>3 DEF cleanup_unmounts, LvInv, LvTyped, lvSession, lvHistory
<1>2. InOrder'
  BY DEF cleanup_unmounts, LvInv, InOrder, Cleans, lvSession, lvHistory, Linked, Serving, NoDaemon,
      CleanupSteps
<1>3. Remembered'
  BY DEF cleanup_unmounts, LvInv, Remembered, Cleans, lvSession, lvHistory, InStep, Undone, CleanupSteps
<1>4. OpenRequest'
  BY DEF cleanup_unmounts, LvInv, OpenRequest, Cleans, lvSession, lvHistory, Quietly, Linked,
      CleanupSteps
<1>5. Told'
  BY DEF cleanup_unmounts, LvInv, Told, Cleans, lvSession, lvHistory, Requested, CleanupSteps
<1>6. Stopped'
  <2>1. stopping.at = 1
    BY DEF cleanup_unmounts, Cleans, CleanupSteps
  <2>2. stopping'.at = 2 /\ stopping'.by = stopping.by /\ stopping'.daemon = stopping.daemon
    <3>1. (~mount') \in BOOLEAN /\ stopping \in Stops /\ stopping.at \in 1..2
      BY <2>1 DEF LvInv, LvTyped
    <3>2. stopping' = [stopping EXCEPT !.at = stopping.at + 1, !.good = ~mount']
      BY DEF cleanup_unmounts
    <3>3. stopping'.at = stopping.at + 1 /\ stopping'.by = stopping.by /\ stopping'.daemon = stopping.daemon
      BY <3>1, <3>2, WentOn, Zenon
    <3> QED
      BY <2>1, <3>3
  <2>3. mount' => mount
    BY DEF cleanup_unmounts
  <2> QED
    BY <2>1, <2>2, <2>3 DEF cleanup_unmounts, lvSession, LvInv, Stopped, ComputerStops, Barren, NothingWorks
<1> QED
  BY <1>1, <1>2, <1>3, <1>4, <1>5, <1>6 DEF LvInv

LEMMA CleanupEndsSessionsKeeps == ASSUME LvInv, cleanup_ends_sessions PROVE LvInv'
<1>1. LvTyped'
  <2>1. stopping.at = 2
    BY DEF cleanup_ends_sessions, Cleans, CleanupSteps
  <2>2. pane' \in {"none", "new", "checked", "claude"}
    BY DEF cleanup_ends_sessions, LvInv, LvTyped
  <2>3. (stopping.good /\ pane' = "none" /\ ~mount) \in BOOLEAN
    OBVIOUS
  <2>4. stopping' \in Stops
    <3>1. stopping \in Stops /\ stopping.at \in 1..2
      BY <2>1 DEF LvInv, LvTyped
    <3>2. stopping' = [stopping EXCEPT !.at = stopping.at + 1, !.good = stopping.good /\ pane' = "none" /\ ~mount]
      BY DEF cleanup_ends_sessions
    <3> QED
      BY <2>3, <3>1, <3>2, WentOn, Zenon
  <2> QED
    BY <2>2, <2>4 DEF cleanup_ends_sessions, LvInv, LvTyped, lvHistory
<1>2. InOrder'
  BY DEF cleanup_ends_sessions, LvInv, InOrder, Cleans, lvHistory, Linked, Serving, NoDaemon,
      CleanupSteps
<1>3. Remembered'
  BY DEF cleanup_ends_sessions, LvInv, Remembered, Cleans, lvHistory, InStep, Undone, CleanupSteps
<1>4. OpenRequest'
  BY DEF cleanup_ends_sessions, LvInv, OpenRequest, Cleans, lvHistory, Quietly, Linked, CleanupSteps
<1>5. Told'
  BY DEF cleanup_ends_sessions, LvInv, Told, Cleans, lvHistory, Requested, CleanupSteps
<1>6. Stopped'
  <2>1. stopping.at = 2
    BY DEF cleanup_ends_sessions, Cleans, CleanupSteps
  <2>2. /\ stopping'.at = 3 /\ stopping'.by = stopping.by /\ stopping'.daemon = stopping.daemon
        /\ stopping'.good => pane' = "none" /\ ~mount
    <3>1. stopping \in Stops /\ stopping.at \in 1..2 /\ (stopping.good /\ pane' = "none" /\ ~mount) \in BOOLEAN
      BY <2>1 DEF LvInv, LvTyped
    <3>2. stopping' = [stopping EXCEPT !.at = stopping.at + 1, !.good = stopping.good /\ pane' = "none" /\ ~mount]
      BY DEF cleanup_ends_sessions
    <3>3. /\ stopping'.at = stopping.at + 1 /\ stopping'.by = stopping.by /\ stopping'.daemon = stopping.daemon
          /\ stopping'.good => pane' = "none" /\ ~mount
      BY <3>1, <3>2, WentOn, Zenon
    <3> QED
      BY <2>1, <3>3
  <2>3. /\ connector' = connector /\ daemon' = daemon /\ mount' = mount /\ stopped' = stopped
        /\ pane' \in {"none", pane}
    BY DEF cleanup_ends_sessions
  <2>4. ComputerStops' => ComputerStops
    BY <2>1, <2>2 DEF ComputerStops
  <2>5. NothingWorks => NothingWorks'
    BY <2>3 DEF NothingWorks
  <2>6. stopping'.good => NothingWorks'
    BY <2>2, <2>3 DEF NothingWorks
  <2>7. Barren' <=> Barren
    BY <2>3 DEF Barren
  <2> QED
    BY <2>2, <2>3, <2>4, <2>5, <2>6, <2>7 DEF LvInv, Stopped
<1> QED
  BY <1>1, <1>2, <1>3, <1>4, <1>5, <1>6 DEF LvInv

LEMMA CleanupEndsKeeps == ASSUME LvInv, cleanup_ends PROVE LvInv'
<1>1. LvTyped'
  <2>1. daemon' \in Daemons /\ stopping' \in Stops
    BY NoDaemonIs, NoStopIs DEF cleanup_ends, LvInv, LvTyped
  <2>2. marked' \in 0..LvMaxInstances
    BY LiveAssumption DEF cleanup_ends, LvInv, LvTyped
  <2>3. stopped' \in BOOLEAN
    BY DEF cleanup_ends, LvInv, LvTyped, Stops
  <2> QED
    BY <2>1, <2>2, <2>3 DEF cleanup_ends, LvInv, LvTyped, lvSession, lvHistory
<1>2. InOrder'
  BY DEF cleanup_ends, LvInv, LvTyped, InOrder, Cleans, NoStop, NoDaemon, lvSession, lvHistory,
      Residents, Daemons, Packets, Stops, Instances, Requested, Linked, Serving, CleanupSteps
<1>3. Remembered'
  BY DEF cleanup_ends, LvInv, LvTyped, InOrder, Remembered, OpenRequest, Told, Stopped, Cleans,
      NoStop, NoDaemon, lvSession, lvHistory, Residents, Daemons, Packets, Stops, Instances,
      Requested, Linked, Serving, InStep, Undone, Quietly, ComputerStops, Barren, NothingWorks, CleanupSteps
<1>4. OpenRequest'
  <2>1. stopping.at = 3
    BY DEF cleanup_ends, Cleans, CleanupSteps
  <2>2. Linked => daemon' = daemon
    BY <2>1 DEF cleanup_ends, LvInv, InOrder, Serving
  <2> QED
    BY <2>2 DEF cleanup_ends, LvInv, OpenRequest, Linked, Quietly
<1>5. Told'
  BY DEF cleanup_ends, LvInv, Told, Cleans, NoStop, NoDaemon, lvSession, lvHistory, Requested,
      CleanupSteps
<1>6. Stopped'
  <2>1. stopping.at = 3 /\ ~ComputerStops'
    BY NoStopIs DEF cleanup_ends, Cleans, CleanupSteps, ComputerStops
  <2>2. /\ connector' = connector /\ mount' = mount /\ pane' = pane
        /\ daemon' = IF stopping.daemon THEN NoDaemon ELSE daemon
    BY DEF cleanup_ends, lvSession
  <2>3. (NothingWorks' <=> NothingWorks) /\ (Barren => Barren') /\ (stopping.daemon => Barren')
    BY <2>2, NoDaemonIs DEF NothingWorks, Barren
  <2>4. stopped' => stopped \/ (stopping.good /\ stopping.by = "computer")
    BY DEF cleanup_ends
  <2>5. stopping.good /\ stopping.by = "computer" => connector.at = "off" /\ (~stopping.daemon => Barren) /\ NothingWorks
    BY <2>1 DEF LvInv, Stopped, ComputerStops
  <2> QED
    BY <2>1, <2>2, <2>3, <2>4, <2>5 DEF LvInv, Stopped
<1> QED
  BY <1>1, <1>2, <1>3, <1>4, <1>5, <1>6 DEF LvInv

LEMMA OpenLiveSessionKeeps == ASSUME LvInv, open_live_session PROVE LvInv'
<1>1. LvTyped'
  BY DEF open_live_session, LvInv, LvTyped, lvMain, lvHistory, Requested
<1>2. InOrder'
  BY DEF open_live_session, LvInv, InOrder, Ready, lvMain, lvHistory, Linked, Serving, NoDaemon
<1>3. Remembered'
  BY DEF open_live_session, LvInv, Remembered, Ready, lvMain, lvHistory, InStep, Undone, Serving, Linked
<1>4. OpenRequest'
  BY DEF open_live_session, LvInv, OpenRequest, Ready, lvMain, lvHistory, Quietly, Linked, Serving
<1>5. Told'
  BY DEF open_live_session, LvInv, Told, Ready, lvMain, lvHistory, Requested, Serving, Linked
<1>6. Stopped'
  BY DEF open_live_session, LvInv, Stopped, Ready, lvMain, lvHistory, ComputerStops, Barren,
      NothingWorks, Serving, Linked
<1> QED
  BY <1>1, <1>2, <1>3, <1>4, <1>5, <1>6 DEF LvInv

LEMMA NewLiveSessionKeeps == ASSUME LvInv, new_live_session PROVE LvInv'
<1>1. LvTyped'
  BY DEF new_live_session, LvInv, LvTyped, lvMain, lvHistory, Requested
<1>2. InOrder'
  BY DEF new_live_session, LvInv, InOrder, lvMain, lvHistory, Linked, Serving, NoDaemon
<1>3. Remembered'
  BY DEF new_live_session, LvInv, Remembered, lvMain, lvHistory, InStep, Undone
<1>4. OpenRequest'
  BY DEF new_live_session, LvInv, OpenRequest, lvMain, lvHistory, Quietly, Linked
<1>5. Told'
  BY DEF new_live_session, LvInv, Told, lvMain, lvHistory, Requested
<1>6. Stopped'
  BY DEF new_live_session, LvInv, Stopped, lvMain, lvHistory, ComputerStops, Barren, NothingWorks
<1> QED
  BY <1>1, <1>2, <1>3, <1>4, <1>5, <1>6 DEF LvInv

LEMMA RunClaudeKeeps == ASSUME LvInv, run_claude PROVE LvInv'
<1>1. LvTyped'
  BY DEF run_claude, LvInv, LvTyped, lvMain, lvHistory, Requested
<1>2. InOrder'
  BY DEF run_claude, LvInv, InOrder, Ready, lvMain, lvHistory, Linked, Serving, NoDaemon
<1>3. Remembered'
  BY DEF run_claude, LvInv, Remembered, Ready, lvMain, lvHistory, InStep, Undone, Serving, Linked
<1>4. OpenRequest'
  BY DEF run_claude, LvInv, OpenRequest, Ready, lvMain, lvHistory, Quietly, Linked, Serving
<1>5. Told'
  BY DEF run_claude, LvInv, Told, Ready, lvMain, lvHistory, Requested, Serving, Linked
<1>6. Stopped'
  BY DEF run_claude, LvInv, Stopped, Ready, lvMain, lvHistory, ComputerStops, Barren, NothingWorks,
      Serving, Linked
<1> QED
  BY <1>1, <1>2, <1>3, <1>4, <1>5, <1>6 DEF LvInv


LEMMA LvStutterKeeps == ASSUME LvInv, UNCHANGED lvVars PROVE LvInv'
  BY DEF lvVars, lvMain, lvSession, lvHistory, LvInv, LvTyped, InOrder, InStep, Undone, Remembered, OpenRequest, Told,
         ComputerStops, Barren, NothingWorks, Stopped, Linked, Serving, Residents, Daemons, Packets, Stops,
         NoDaemon, Quietly, Instances, Requested

LEMMA LvInitSound == LvInit => LvInv
<1> SUFFICES ASSUME LvInit PROVE LvInv
  OBVIOUS
<1>1. LvTyped
  <2>1. ran \in [Requested -> 0..1] /\ told \in [Requested -> 0..LvMaxRequests]
    BY LiveAssumption DEF LvInit
  <2>2. /\ marked \in 0..LvMaxInstances /\ asked \in 0..LvMaxRequests /\ instances \in 0..LvMaxInstances
        /\ dials \subseteq [instance : Instances, heard : BOOLEAN]
    BY LiveAssumption DEF LvInit
  <2>5. unmarked \subseteq 0..LvMaxInstances /\ renumbered \subseteq Requested
    BY DEF LvInit
  <2>3. connector \in Residents /\ daemon \in Daemons /\ request \in Packets /\ stopping \in Stops
    BY NoResidentIs, NoDaemonIs, QuietlyIs, NoStopIs DEF LvInit
  <2>4. mount \in BOOLEAN /\ opening \in BOOLEAN /\ stopped \in BOOLEAN /\ pane \in {"none", "new", "checked", "claude"}
    BY DEF LvInit
  <2> QED
    BY <2>1, <2>2, <2>3, <2>4, <2>5 DEF LvTyped
<1>2. InOrder /\ Remembered /\ OpenRequest /\ Told /\ Stopped
  BY NoResidentIs, NoDaemonIs, QuietlyIs, NoStopIs, LiveAssumption
  DEF LvInit, InOrder, Remembered, OpenRequest, Told, Stopped, ComputerStops, Barren, NothingWorks, Linked, Requested
<1> QED
  BY <1>1, <1>2 DEF LvInv

LEMMA LvStepKeeps == ASSUME LvInv, LvNext \/ UNCHANGED lvVars PROVE LvInv'
  BY StartLocalConnectorKeeps, DialKeeps, LinkBreaksKeeps, ConnectorEndsKeeps, AnswerKeeps, EnsureDaemonKeeps, AttachKeeps,
     ReadPacketKeeps, SendKeeps, ReceiveKeeps, MountsKeeps, DaemonDiesKeeps, StopBeginsKeeps, CleanupUnmountsKeeps,
     CleanupEndsSessionsKeeps, CleanupEndsKeeps, OpenLiveSessionKeeps, NewLiveSessionKeeps, RunClaudeKeeps,
     LvStutterKeeps DEF LvNext

LEMMA LvInvGivesSound == LvInv => LiveSound /\ LvTypeOK
<1> SUFFICES ASSUME LvInv PROVE LiveSound /\ LvTypeOK
  OBVIOUS
<1>1. LiveSound
  BY DEF LvInv, LvTyped, Told, Stopped, NothingWorks, LiveSound, CarriedOutOnce, TruthfulWhileMarked, StoppedIsStopped
<1>2. ran \in [Requested -> 0..2]
  BY DEF LvInv, LvTyped
<1>3. LvTypeOK
  BY <1>2 DEF LvInv, LvTyped, Residents, Daemons, Packets, Stops, LvTypeOK
<1> QED
  BY <1>1, <1>3

-----------------------------------------------------------------------------
(* The files in it.  The one subdirectory is at one place, never at that of *)
(* the control data; what is made is new.                                   *)
Ctl == <<Root, LfControl>>
TheSubIs(e, s) == s # Ctl /\ e[s] = TheSub /\ \A q \in PlacesOfFiles : e[q] = TheSub => q = s
OneSub(e) == \E s \in PlacesOfFiles : TheSubIs(e, s)
OnlyAt(e, i, p) == e[p] = i /\ \A q \in PlacesOfFiles : e[q] = i => q = p

HandleTyped(x) == x = Unused \/ (x.inode \in Inodes /\ x.dir \in {Root, Sub} /\ x.name \in LfNames)

LfTyped ==
  /\ entry \in [PlacesOfFiles -> Things] /\ OneSub(entry)
  /\ inodes \in 2..LfMaxInodes /\ \A p \in PlacesOfFiles : entry[p] <= inodes
  /\ protected_ids \subseteq 1..inodes /\ control \subseteq Inodes
  /\ handles = [h \in LfHandles |-> handles[h]]
  /\ \A h \in LfHandles : HandleTyped(handles[h])
  /\ changes \in 0..LfMaxChanges /\ touched \subseteq Inodes /\ removed \subseteq Inodes
  /\ disturbed \subseteq LfHandles

(* What others replaced as control data had been seen by the server.        *)
ControlSeen == control \subseteq protected_ids \cup {entry[Ctl]}

(* A path and the place it leads to.                                        *)
Leads(path, p, e) ==
  /\ p \in PlacesOfFiles /\ p[2] \in LfNames
  /\ \/ p = <<Root, p[2]>> /\ path = <<p[2]>>
     \/ /\ p = <<Sub, p[2]>>
        /\ \E s \in LfNames : path = <<s, p[2]>> /\ e[<<Root, s>>] = TheSub

(* A handle nobody disturbed is of the one file at the place its path leads to. *)
Open(x, e, ids) ==
  /\ x.inode \in Inodes \ ids /\ OnlyAt(e, x.inode, <<x.dir, x.name>>)
  /\ Leads(x.parts, <<x.dir, x.name>>, e)

OpenKept == \A h \in LfHandles \ disturbed : handles[h] # Unused => Open(handles[h], entry, protected_ids)

LfInv == LfTyped /\ ControlSeen /\ OpenKept /\ OnlyWhatIsShared

LEMMA PlacesAre ==
  /\ IsFiniteSet(PlacesOfFiles) /\ Ctl \in PlacesOfFiles
  /\ \A n \in LfNames : /\ <<Root, n>> \in PlacesOfFiles /\ <<Sub, n>> \in PlacesOfFiles
                        /\ <<Root, n>> # Ctl /\ <<Sub, n>> # Ctl
  /\ \A p \in PlacesOfFiles : p = <<p[1], p[2]>> /\ p[1] \in Dirs /\ p[2] \in LfNames \cup {LfControl}
<1>1. IsFiniteSet({Root, Sub} \X LfNames)
  <2>1. {Root, Sub} = ({} \cup {Root}) \cup {Sub}
    OBVIOUS
  <2>2. IsFiniteSet({Root, Sub})
    BY <2>1, FS_EmptySet, FS_AddElement
  <2>3. IsFiniteSet(LfNames)
    BY LiveFilesAssumption
  <2> QED
    BY <2>2, <2>3, FS_Product
<1>2. IsFiniteSet({Ctl, Elsewhere})
  <2>1. {Ctl, Elsewhere} = ({} \cup {Ctl}) \cup {Elsewhere}
    OBVIOUS
  <2> QED
    BY <2>1, FS_EmptySet, FS_AddElement
<1>3. IsFiniteSet(PlacesOfFiles)
  BY <1>1, <1>2, FS_Union DEF PlacesOfFiles, Ctl
<1> QED
  BY <1>3, LiveFilesAssumption DEF PlacesOfFiles, Ctl, Elsewhere, Root, Sub, Dirs

LEMMA OneLink ==
  ASSUME NEW e \in [PlacesOfFiles -> Things], NEW i
  PROVE  /\ \A p \in PlacesOfFiles : OnlyAt(e, i, p) => Links(e, i) = 1
         /\ \A p \in PlacesOfFiles : Links(e, i) = 1 /\ e[p] = i => OnlyAt(e, i, p)
<1> DEFINE S == {q \in PlacesOfFiles : e[q] = i}
<1>1. IsFiniteSet(S)
  BY PlacesAre, FS_Subset
<1>2. Links(e, i) = Cardinality(S)
  BY DEF Links
<1> SUFFICES ASSUME NEW p \in PlacesOfFiles
             PROVE (OnlyAt(e, i, p) => Cardinality(S) = 1) /\ (Cardinality(S) = 1 /\ e[p] = i => OnlyAt(e, i, p))
  BY <1>2
<1>3. OnlyAt(e, i, p) => S = {p}
  BY DEF OnlyAt
<1>4. S = {p} => Cardinality(S) = 1
  BY FS_Singleton
<1>5. Cardinality(S) = 1 /\ e[p] = i => S = {p}
  BY <1>1, FS_Singleton
<1>6. S = {p} => OnlyAt(e, i, p)
  BY DEF OnlyAt
<1> QED
  BY <1>3, <1>4, <1>5, <1>6

LEMMA SubIs == ASSUME NEW e, NEW s \in PlacesOfFiles, TheSubIs(e, s) PROVE SubAt(e) = s
  BY DEF SubAt, TheSubIs

(* Where a path leads.                                                      *)
LEMMA Lengths ==
  /\ \A a : Len(<<a>>) = 1 /\ <<a>>[1] = a
  /\ \A a, b : Len(<<a, b>>) = 2 /\ <<a, b>>[1] = a /\ <<a, b>>[2] = b
  OBVIOUS

LEMMA PathLeads ==
  ASSUME LfTyped, NEW path \in Paths, _guard(path), NEW p \in At(path)
  PROVE  Leads(path, p, entry) /\ p # Ctl
<1>1. CASE \E n \in LfNames \cup {LfControl} : path = <<n>>
  <2>1. PICK n \in LfNames \cup {LfControl} : path = <<n>>
    BY <1>1
  <2>2. n \in LfNames /\ Len(path) = 1
    BY <2>1 DEF _guard
  <2> QED
    BY <2>1, <2>2, PlacesAre DEF At, _resolve, Leads
<1>2. CASE path \in LfNames \X LfNames
  <2>1. PICK s \in LfNames, n \in LfNames : path = <<s, n>>
    BY <1>2
  <2>2. Len(path) = 2
    BY <2>1
  <2>3. p = <<Sub, n>> /\ entry[<<Root, s>>] = TheSub
    BY <2>1, <2>2, Lengths DEF At, _resolve
  <2> QED
    BY <2>1, <2>3, Lengths, PlacesAre DEF Leads
<1> QED
  BY <1>1, <1>2 DEF Paths

LEMMA LeadsOnce ==
  ASSUME NEW e, OneSub(e), NEW path, NEW other, NEW p, Leads(path, p, e)
  PROVE  /\ Leads(other, p, e) => other = path
         /\ path \in Paths /\ p # Ctl /\ _guard(path)
         /\ p[1] = Root \/ (p[1] = Sub /\ SubAt(e)[1] = Root)
<1>1. PICK s \in PlacesOfFiles : TheSubIs(e, s)
  BY DEF OneSub
<1>2. \A n \in LfNames : e[<<Root, n>>] = TheSub => s = <<Root, n>>
  BY <1>1, PlacesAre DEF TheSubIs
<1>3. SubAt(e) = s
  BY <1>1, SubIs
<1>4. \/ p = <<Root, p[2]>> /\ path = <<p[2]>>
      \/ /\ p = <<Sub, p[2]>>
         /\ \E t \in LfNames : path = <<t, p[2]>> /\ s = <<Root, t>>
  BY <1>2 DEF Leads
<1>5. Leads(other, p, e) =>
        \/ p = <<Root, p[2]>> /\ other = <<p[2]>>
        \/ /\ p = <<Sub, p[2]>>
           /\ \E t \in LfNames : other = <<t, p[2]>> /\ s = <<Root, t>>
  BY <1>2 DEF Leads
<1>6. p[2] \in LfNames
  BY DEF Leads
<1>7. \A n : <<Root, n>>[1] = Root /\ <<Sub, n>>[1] = Sub /\ <<Root, n>>[2] = n /\ <<Sub, n>>[2] = n /\ Root # Sub
  BY DEF Root, Sub
<1>8. Leads(other, p, e) => other = path
  BY <1>4, <1>5, <1>7
<1>9. path \in Paths
  BY <1>4, <1>6 DEF Paths
<1>10. p # Ctl /\ _guard(path)
  BY <1>4, <1>6, <1>7, Lengths, LiveFilesAssumption DEF _guard, Ctl
<1>11. p[1] = Root \/ (p[1] = Sub /\ SubAt(e)[1] = Root)
  BY <1>3, <1>4, <1>7
<1> QED
  BY <1>8, <1>9, <1>10, <1>11

LEMMA LeadsToOne ==
  ASSUME NEW e, NEW path, NEW p, NEW q, Leads(path, p, e), Leads(path, q, e)
  PROVE  p = q
<1>1. PICK m, n : m = p[2] /\ n = q[2]
  OBVIOUS
<1>2. (p = <<Root, m>> /\ path = <<m>>) \/ (p = <<Sub, m>> /\ \E s : path = <<s, m>>)
  BY <1>1 DEF Leads
<1>3. (q = <<Root, n>> /\ path = <<n>>) \/ (q = <<Sub, n>> /\ \E s : path = <<s, n>>)
  BY <1>1 DEF Leads
<1> HIDE <1>1
<1> QED
  BY <1>2, <1>3, Lengths

(* Paths of one name or two.                                                *)
LEMMA Parts ==
  /\ \A a : SubSeq(<<a>>, 1, 1) = <<a>>
  /\ \A a, b : SubSeq(<<a, b>>, 1, 1) = <<a>> /\ SubSeq(<<a, b>>, 1, 2) = <<a, b>> /\ SubSeq(<<a, b>>, 2, 2) = <<b>>
  /\ \A b, c : <<c>> \o <<b>> = <<c, b>>
<1>1. ASSUME NEW a, NEW b, NEW S, S = {a, b}
      PROVE  <<a>> \in Seq(S) /\ <<b>> \in Seq(S) /\ <<a, b>> \in Seq(S) /\ <<b, a>> \in Seq(S)
  BY <1>1
<1>2. ASSUME NEW a PROVE SubSeq(<<a>>, 1, 1) = <<a>>
  <2>0. PICK t : t = SubSeq(<<a>>, 1, 1)
    OBVIOUS
  <2>1. t \in Seq({a}) /\ Len(t) = 1 /\ t[1] = a
    BY <2>0, Lengths, SubSeqProperties
  <2>2. <<a>> \in Seq({a})
    BY <1>1
  <2>3. t = <<a>>
    BY <2>1, <2>2, Lengths, SeqEqual
  <2> QED
    BY <2>0, <2>3
<1>3. ASSUME NEW a, NEW b, NEW t, NEW m \in 1..2, NEW n \in m..2, t = SubSeq(<<a, b>>, m, n)
      PROVE  /\ t \in Seq({a, b}) /\ Len(t) = n - m + 1
             /\ \A i \in 1..Len(t) : t[i] = <<a, b>>[m + i - 1]
  <2>1. \A i \in m..n : <<a, b>>[i] \in {a, b}
    BY Lengths
  <2> QED
    BY <1>3, <2>1, SubSeqProperties
<1>4. ASSUME NEW a, NEW b PROVE SubSeq(<<a, b>>, 1, 1) = <<a>>
  <2>0. PICK t : t = SubSeq(<<a, b>>, 1, 1)
    OBVIOUS
  <2>1. t \in Seq({a, b}) /\ Len(t) = 1 /\ t[1] = a
    BY <2>0, <1>3, Lengths
  <2>2. <<a>> \in Seq({a, b})
    BY <1>1
  <2>3. t = <<a>>
    BY <2>1, <2>2, Lengths, SeqEqual
  <2> QED
    BY <2>0, <2>3
<1>5. ASSUME NEW a, NEW b PROVE SubSeq(<<a, b>>, 1, 2) = <<a, b>>
  <2>0. PICK t : t = SubSeq(<<a, b>>, 1, 2)
    OBVIOUS
  <2>1. t \in Seq({a, b}) /\ Len(t) = 2 /\ t[1] = a /\ t[2] = b
    BY <2>0, <1>3, Lengths
  <2>2. <<a, b>> \in Seq({a, b})
    BY <1>1
  <2>3. t = <<a, b>>
    BY <2>1, <2>2, Lengths, SeqEqual
  <2> QED
    BY <2>0, <2>3
<1>6. ASSUME NEW a, NEW b PROVE SubSeq(<<a, b>>, 2, 2) = <<b>>
  <2>0. PICK t : t = SubSeq(<<a, b>>, 2, 2)
    OBVIOUS
  <2>1. t \in Seq({a, b}) /\ Len(t) = 1 /\ t[1] = b
    BY <2>0, <1>3, Lengths
  <2>2. <<b>> \in Seq({a, b})
    BY <1>1
  <2>3. t = <<b>>
    BY <2>1, <2>2, Lengths, SeqEqual
  <2> QED
    BY <2>0, <2>3
<1>7. ASSUME NEW b, NEW c PROVE <<c>> \o <<b>> = <<c, b>>
  <2>0. PICK t : t = <<c>> \o <<b>>
    OBVIOUS
  <2>1. t \in Seq({b, c}) /\ Len(t) = 2 /\ t[1] = c /\ t[2] = b
    <3>1. <<b>> \in Seq({b, c}) /\ <<c>> \in Seq({b, c})
      BY <1>1
    <3>2. PICK x, y : x = <<c>> /\ y = <<b>>
      OBVIOUS
    <3>3. x \in Seq({b, c}) /\ y \in Seq({b, c}) /\ Len(x) = 1 /\ Len(y) = 1 /\ x[1] = c /\ y[1] = b
      BY <3>1, <3>2, Lengths
    <3>4. t = x \o y
      BY <2>0, <3>2
    <3> HIDE <3>2, <2>0
    <3> QED
      BY <3>3, <3>4, ConcatProperties
  <2>2. <<c, b>> \in Seq({b, c})
    BY <1>1
  <2>3. t = <<c, b>>
    BY <2>1, <2>2, Lengths, SeqEqual
  <2> QED
    BY <2>0, <2>3
<1> QED
  BY <1>2, <1>4, <1>5, <1>6, <1>7

LEMMA Prefixes ==
  /\ \A a, b : Prefix(<<a>>, <<b>>) <=> a = b
  /\ \A a, b, c : Prefix(<<a>>, <<b, c>>) <=> a = b
  /\ \A a, b, c : ~Prefix(<<a, b>>, <<c>>)
  /\ \A a, b, c, d : Prefix(<<a, b>>, <<c, d>>) <=> a = c /\ b = d
  BY Parts, Lengths DEF Prefix

LEMMA Rests ==
  /\ \A path \in Paths : \A target \in Paths : target \o SubSeq(path, Len(path) + 1, Len(path)) = target
  /\ \A a, b, c \in LfNames : <<c>> \o SubSeq(<<a, b>>, Len(<<a>>) + 1, Len(<<a, b>>)) = <<c, b>>
<1>1. ASSUME NEW path \in Paths PROVE path \in Seq(LfNames \cup {LfControl})
  <2>1. CASE \E n \in LfNames \cup {LfControl} : path = <<n>>
    BY <2>1
  <2>2. CASE \E s, n \in LfNames : path = <<s, n>>
    BY <2>2
  <2> QED
    BY <2>1, <2>2 DEF Paths
<1>2. \A path \in Paths : Len(path) \in Nat
  BY <1>1
<1>3. \A path \in Paths : SubSeq(path, Len(path) + 1, Len(path)) = <<>>
  BY <1>2, SubSeqEmpty
<1>4. \A target \in Paths : target \o <<>> = target
  BY <1>1, ConcatEmptySeq
<1>5. ASSUME NEW a \in LfNames, NEW b \in LfNames, NEW c \in LfNames
      PROVE  <<c>> \o SubSeq(<<a, b>>, Len(<<a>>) + 1, Len(<<a, b>>)) = <<c, b>>
  <2>1. SubSeq(<<a, b>>, Len(<<a>>) + 1, Len(<<a, b>>)) = SubSeq(<<a, b>>, 2, 2)
    BY Lengths
  <2>2. SubSeq(<<a, b>>, Len(<<a>>) + 1, Len(<<a, b>>)) = <<b>>
    BY <2>1, Parts
  <2>3. <<c>> \o <<b>> = <<c, b>>
    BY Parts
  <2> QED
    BY <2>2, <2>3
<1> QED
  BY <1>3, <1>4, <1>5

(* What an open handle may be used for, and what it takes to stay open.      *)
LEMMA OpenUsable ==
  ASSUME LfTyped, NEW h \in LfHandles, Open(handles[h], entry, protected_ids)
  PROVE  Usable(h, entry, protected_ids)
<1>1. PICK x : x = handles[h]
  OBVIOUS
<1>2. PICK p : p = <<x.dir, x.name>>
  OBVIOUS
<1>3. p[1] = x.dir
  BY <1>2
<1>4. Leads(x.parts, p, entry) /\ OnlyAt(entry, x.inode, p) /\ p \in PlacesOfFiles
  BY <1>1, <1>2 DEF Open, Leads
<1>5. _guard(x.parts) /\ (x.dir = Root \/ (x.dir = Sub /\ SubAt(entry)[1] = Root))
  BY <1>3, <1>4, LeadsOnce DEF LfTyped
<1>6. Links(entry, x.inode) = 1 /\ entry[p] = x.inode
  BY <1>4, OneLink DEF LfTyped, OnlyAt
<1>7. TheSub \notin protected_ids
  BY DEF LfTyped, TheSub
<1> QED
  BY <1>1, <1>2, <1>5, <1>6, <1>7 DEF Usable, Open, _check_directory

LEMMA StaysOpen ==
  ASSUME LfTyped, NEW h \in LfHandles, NEW e \in [PlacesOfFiles -> Things], OneSub(e),
         Open(handles[h], entry, protected_ids), Usable(h, e, protected_ids),
         handles[h].dir = Sub => SubAt(e) = SubAt(entry)
  PROVE  Open(handles[h], e, protected_ids)
<1>1. PICK x : x = handles[h]
  OBVIOUS
<1>2. PICK p : p = <<x.dir, x.name>>
  OBVIOUS
<1>3. p[1] = x.dir /\ p[2] = x.name
  BY <1>2
<1>4. Leads(x.parts, p, entry) /\ p \in PlacesOfFiles /\ x.inode \in Inodes \ protected_ids
  BY <1>1, <1>2 DEF Open, Leads
<1>5. OnlyAt(e, x.inode, p)
  BY <1>1, <1>2, <1>4, OneLink DEF Usable
<1>6. PICK s \in PlacesOfFiles : TheSubIs(entry, s)
  BY DEF LfTyped, OneSub
<1>7. PICK t \in PlacesOfFiles : TheSubIs(e, t)
  BY DEF OneSub
<1>8. SubAt(entry) = s /\ SubAt(e) = t
  BY <1>6, <1>7, SubIs
<1>9. Leads(x.parts, p, e)
  <2>1. CASE p = <<Root, p[2]>> /\ x.parts = <<p[2]>>
    BY <1>4, <2>1 DEF Leads
  <2>2. ASSUME NEW n \in LfNames, p = <<Sub, p[2]>>, x.parts = <<n, p[2]>>, entry[<<Root, n>>] = TheSub
        PROVE  Leads(x.parts, p, e)
    <3>1. s = <<Root, n>>
      BY <1>6, <2>2, PlacesAre DEF TheSubIs
    <3>2. s = t
      BY <1>1, <1>3, <1>8, <2>2
    <3>3. e[<<Root, n>>] = TheSub
      BY <1>7, <3>1, <3>2 DEF TheSubIs
    <3> QED
      BY <1>4, <2>2, <3>3 DEF Leads
  <2> QED
    BY <1>4, <2>1, <2>2 DEF Leads
<1> QED
  BY <1>1, <1>2, <1>4, <1>5, <1>9 DEF Open

(* A packet looks at the control data before it does anything.              *)
LEMMA Refreshed ==
  ASSUME LfInv, _refresh_protected
  PROVE  /\ protected_ids' \subseteq 1..inodes /\ control \subseteq protected_ids'
         /\ \A h \in LfHandles \ disturbed :
              handles[h] # Unused => Open(handles[h], entry, protected_ids')
<1>1. protected_ids' = protected_ids \cup ({entry[Ctl]} \ {Empty})
  BY DEF _refresh_protected, Ctl
<1>2. entry[Ctl] \in Inodes \cup {Empty} /\ entry[Ctl] <= inodes /\ inodes \in Nat
  BY PlacesAre, LiveFilesAssumption DEF LfInv, LfTyped, OneSub, TheSubIs, Things
<1>3. protected_ids' \subseteq 1..inodes
  BY <1>1, <1>2 DEF LfInv, LfTyped, Inodes, Empty
<1>4. control \subseteq protected_ids'
  BY <1>1, <1>2 DEF LfInv, LfTyped, ControlSeen, Inodes, Empty
<1>5. ASSUME NEW h \in LfHandles \ disturbed, handles[h] # Unused
      PROVE  Open(handles[h], entry, protected_ids')
  <2>1. PICK x : x = handles[h]
    OBVIOUS
  <2>2. Open(x, entry, protected_ids)
    BY <1>5, <2>1 DEF LfInv, OpenKept
  <2>3. <<x.dir, x.name>> # Ctl
    BY <2>2, LeadsOnce DEF Open, LfInv, LfTyped
  <2>4. entry[Ctl] # x.inode
    BY <2>2, <2>3, PlacesAre DEF Open, OnlyAt
  <2>5. Open(x, entry, protected_ids')
    BY <1>1, <2>2, <2>4 DEF Open
  <2> QED
    BY <2>1, <2>5
<1> QED
  BY <1>3, <1>4, <1>5

LEMMA CloseKeeps == ASSUME LfInv, NEW h \in LfHandles, close(h) PROVE LfInv'
<1>1. protected_ids' \subseteq 1..inodes /\ control \subseteq protected_ids' /\ UNCHANGED <<entry, inodes, changes, control>>
  BY Refreshed DEF close, Packet
<1>2. handles' = [handles EXCEPT ![h] = Unused] /\ disturbed' = disturbed \ {h} /\ touched' = {} /\ removed' = {}
  BY DEF close, Packet
<1>3. LfTyped'
  <2>1. HandleTyped(Unused)
    BY DEF HandleTyped
  <2>2. handles' = [g \in LfHandles |-> handles'[g]] /\ \A g \in LfHandles : HandleTyped(handles'[g])
    BY <1>2, <2>1 DEF LfInv, LfTyped
  <2> QED
    BY <1>1, <1>2, <2>2 DEF LfInv, LfTyped, HandleTyped
<1>4. ControlSeen'
  BY <1>1 DEF ControlSeen
<1>5. OpenKept'
  <2>1. \A g \in LfHandles : handles'[g] = IF g = h THEN Unused ELSE handles[g]
    BY <1>2 DEF LfInv, LfTyped
  <2>2. \A g \in LfHandles \ disturbed : handles[g] # Unused => Open(handles[g], entry, protected_ids')
    BY Refreshed DEF close, Packet
  <2>3. ASSUME NEW g \in LfHandles \ disturbed', handles'[g] # Unused
        PROVE  Open(handles'[g], entry', protected_ids')
    <3>1. g # h /\ handles'[g] = handles[g] /\ g \notin disturbed
      BY <1>2, <2>1, <2>3
    <3> QED
      BY <1>1, <2>2, <2>3, <3>1
  <2> QED
    BY <2>3 DEF OpenKept, Unused
<1>6. OnlyWhatIsShared'
  BY <1>2 DEF OnlyWhatIsShared
<1> QED
  BY <1>3, <1>4, <1>5, <1>6 DEF LfInv

LEMMA HeldKeeps == ASSUME LfInv, NEW h \in LfHandles, _handle(h) PROVE LfInv'
<1>1. /\ protected_ids' \subseteq 1..inodes /\ control \subseteq protected_ids'
      /\ UNCHANGED <<entry, inodes, changes, control, handles, disturbed>>
  BY Refreshed DEF _handle, Packet
<1>2. PICK x : x = handles[h]
  OBVIOUS
<1>3. touched' = {x.inode} /\ removed' = {} /\ Usable(h, entry, protected_ids') /\ x # Unused
  BY <1>2 DEF _handle, Packet, Held
<1>4. LfTyped'
  <2>1. x.inode \in Inodes
    BY <1>2, <1>3 DEF LfInv, LfTyped, HandleTyped
  <2> QED
    BY <1>1, <1>3, <2>1 DEF LfInv, LfTyped, HandleTyped
<1>5. ControlSeen'
  BY <1>1 DEF ControlSeen
<1>6. OpenKept'
  BY <1>1, Refreshed DEF OpenKept, Unused, _handle, Packet
<1>7. OnlyWhatIsShared'
  <2>1. PICK p : p = <<x.dir, x.name>>
    OBVIOUS
  <2>2. entry[p] = x.inode /\ x.inode \notin protected_ids' /\ _check_directory(entry, x.dir)
    BY <1>2, <1>3, <2>1 DEF Usable
  <2>3. p[1] = x.dir /\ (p[1] = Root \/ (p[1] = Sub /\ SubAt(entry)[1] = Root))
    BY <2>1, <2>2 DEF _check_directory
  <2>4. p \in PlacesOfFiles
    BY <1>2, <1>3, <2>1, PlacesAre DEF LfInv, LfTyped, HandleTyped
  <2> QED
    BY <1>1, <1>3, <2>2, <2>3, <2>4 DEF OnlyWhatIsShared, InTheFolder
<1> QED
  BY <1>4, <1>5, <1>6, <1>7 DEF LfInv

LEMMA CreateKeeps ==
  ASSUME LfInv, NEW h \in LfHandles, NEW path \in Paths, _open(h, path)
  PROVE  LfInv'
<1>1. _guard(path) /\ h \notin Held
  BY DEF _open
<1>2. PICK p \in At(path) : LET i == IF entry[p] = Empty THEN inodes + 1 ELSE entry[p]
          IN /\ i \in Inodes
             /\ Packet({i}, {}) /\ (entry[p] = Empty \/ _regular(entry, i))
             /\ entry' = [entry EXCEPT ![p] = i]
             /\ inodes' = IF entry[p] = Empty THEN i ELSE inodes
             /\ handles' = [handles EXCEPT ![h] = [inode |-> i, dir |-> p[1], name |-> p[2],
                                                   parts |-> path]]
  BY DEF _open
<1>3. PICK i : i = IF entry[p] = Empty THEN inodes + 1 ELSE entry[p]
  OBVIOUS
<1>4. PICK x : x = [inode |-> i, dir |-> p[1], name |-> p[2], parts |-> path]
  OBVIOUS
<1>5. /\ i \in Inodes /\ (entry[p] = Empty \/ _regular(entry, i))
      /\ entry' = [entry EXCEPT ![p] = i] /\ inodes' = (IF entry[p] = Empty THEN i ELSE inodes)
      /\ handles' = [handles EXCEPT ![h] = x] /\ disturbed' = disturbed \ {h}
      /\ touched' = {i} /\ removed' = {} /\ _refresh_protected /\ UNCHANGED <<changes, control>>
  BY <1>2, <1>3, <1>4 DEF _open, Packet
<1> HIDE <1>2
<1>6. x.inode = i /\ x.dir = p[1] /\ x.name = p[2] /\ x.parts = path
  BY <1>4
<1>7. Leads(path, p, entry) /\ p # Ctl /\ p \in PlacesOfFiles
  BY <1>1, PathLeads DEF LfInv, Leads
<1>8. p = <<x.dir, x.name>>
  BY <1>6, <1>7, PlacesAre
<1>9. protected_ids' \subseteq 1..inodes /\ control \subseteq protected_ids'
  BY <1>5, Refreshed
<1>10. /\ i \notin protected_ids' /\ OnlyAt(entry', i, p) /\ OneSub(entry')
       /\ \A q \in PlacesOfFiles : entry'[q] = IF q = p THEN i ELSE entry[q]
       /\ \A q \in PlacesOfFiles : entry'[q] = TheSub <=> entry[q] = TheSub
  <2>1. \A q \in PlacesOfFiles : entry'[q] = IF q = p THEN i ELSE entry[q]
    BY <1>5, <1>7 DEF LfInv, LfTyped
  <2>2. i # TheSub /\ i # Empty
    BY <1>5 DEF Inodes, TheSub, Empty
  <2>3. \A q \in PlacesOfFiles : entry'[q] = TheSub <=> entry[q] = TheSub
    BY <1>3, <2>1, <2>2 DEF TheSub, Empty
  <2>4. OneSub(entry')
    BY <2>3 DEF LfInv, LfTyped, OneSub, TheSubIs
  <2>5. CASE entry[p] = Empty
    <3>1. i = inodes + 1 /\ inodes \in Nat
      BY <1>3, <2>5, LiveFilesAssumption DEF LfInv, LfTyped
    <3>2. \A q \in PlacesOfFiles : entry[q] \in Int /\ entry[q] <= inodes
      BY DEF LfInv, LfTyped, Things, Inodes, TheSub, Empty
    <3>3. OnlyAt(entry', i, p)
      BY <1>7, <2>1, <3>1, <3>2 DEF OnlyAt
    <3>4. i \notin protected_ids'
      BY <1>9, <3>1
    <3> QED
      BY <2>1, <2>3, <2>4, <3>3, <3>4
  <2>6. CASE entry[p] # Empty
    <3>1. i = entry[p] /\ Links(entry, i) = 1 /\ i \notin protected_ids'
      BY <1>3, <1>5, <2>6 DEF _regular
    <3>2. OnlyAt(entry, i, p)
      BY <1>7, <3>1, OneLink DEF LfInv, LfTyped
    <3>3. OnlyAt(entry', i, p)
      BY <1>7, <2>1, <3>2 DEF OnlyAt
    <3> QED
      BY <2>1, <2>3, <2>4, <3>1, <3>3
  <2> QED
    BY <2>5, <2>6
<1>11. Leads(path, p, entry')
  BY <1>7, <1>10, PlacesAre DEF Leads
<1>12. inodes' \in 2..LfMaxInodes /\ inodes <= inodes' /\ i <= inodes' /\ inodes \in Nat
  BY <1>3, <1>5, <1>7, LiveFilesAssumption DEF LfInv, LfTyped, Inodes
<1>13. \A g \in LfHandles : handles'[g] = IF g = h THEN x ELSE handles[g]
  BY <1>5 DEF LfInv, LfTyped
<1>14. LfTyped'
  <2>1. HandleTyped(x)
    BY <1>5, <1>6, <1>7 DEF HandleTyped, Leads, Root, Sub
  <2>2. handles' = [g \in LfHandles |-> handles'[g]] /\ \A g \in LfHandles : HandleTyped(handles'[g])
    BY <1>5, <1>13, <2>1 DEF LfInv, LfTyped
  <2>3. entry' \in [PlacesOfFiles -> Things]
    BY <1>5 DEF LfInv, LfTyped, Things
  <2>4. \A q \in PlacesOfFiles : entry'[q] <= inodes'
    BY <1>10, <1>12 DEF LfInv, LfTyped, Things, Inodes, TheSub, Empty
  <2>5. protected_ids' \subseteq 1..inodes'
    BY <1>9, <1>12 DEF LfInv, LfTyped
  <2> QED
    BY <1>5, <1>10, <1>12, <2>2, <2>3, <2>4, <2>5 DEF LfInv, LfTyped, HandleTyped
<1>15. ControlSeen'
  BY <1>5, <1>9 DEF ControlSeen
<1>16. OpenKept'
  <2>1. Open(x, entry', protected_ids')
    BY <1>5, <1>6, <1>8, <1>10, <1>11 DEF Open
  <2>2. ASSUME NEW g \in LfHandles \ disturbed', handles'[g] # Unused, g # h
        PROVE  Open(handles'[g], entry', protected_ids')
    <3>1. PICK y : y = handles[g]
      OBVIOUS
    <3>2. handles'[g] = y /\ Open(y, entry, protected_ids')
      BY <1>5, <1>13, <2>2, <3>1, Refreshed
    <3>3. <<y.dir, y.name>> \in PlacesOfFiles /\ entry[<<y.dir, y.name>>] = y.inode /\ y.inode \in Inodes
      BY <3>2 DEF Open, OnlyAt, Leads
    <3>4. y.inode = i => entry[p] = i
      BY <1>3, <3>3, LiveFilesAssumption DEF LfInv, LfTyped, Inodes
    <3>5. OnlyAt(entry', y.inode, <<y.dir, y.name>>)
      BY <1>3, <1>7, <1>10, <3>2, <3>3, <3>4 DEF Open, OnlyAt, Inodes, Empty
    <3>6. Leads(y.parts, <<y.dir, y.name>>, entry')
      BY <1>10, <3>2, PlacesAre DEF Open, Leads
    <3> QED
      BY <3>2, <3>5, <3>6 DEF Open
  <2> QED
    BY <1>13, <2>1, <2>2 DEF OpenKept, Unused
<1>17. OnlyWhatIsShared'
  <2>1. p[1] = Root \/ (p[1] = Sub /\ SubAt(entry')[1] = Root)
    BY <1>10, <1>11, LeadsOnce
  <2> QED
    BY <1>5, <1>7, <1>9, <1>10, <2>1 DEF OnlyWhatIsShared, InTheFolder
<1> QED
  BY <1>14, <1>15, <1>16, <1>17 DEF LfInv

LEMMA UnlinkKeeps == ASSUME LfInv, NEW path \in Paths, unlink(path) PROVE LfInv'
<1>1. _guard(path) /\ UNCHANGED <<handles, inodes>>
  BY DEF unlink
<1>2. PICK p \in At(path) :
       /\ entry[p] \in Inodes /\ _check_directory(entry, p[1])
       /\ Packet({}, {entry[p]}) /\ entry[p] \notin protected_ids'
       /\ entry' = [entry EXCEPT ![p] = Empty]
       /\ disturbed' = disturbed \cup OpenOn(entry[p])
  BY DEF unlink
<1>3. touched' = {} /\ removed' = {entry[p]} /\ _refresh_protected /\ UNCHANGED <<changes, control>>
  BY <1>2 DEF Packet
<1>4. Leads(path, p, entry) /\ p # Ctl /\ p \in PlacesOfFiles
  BY <1>1, PathLeads DEF LfInv, Leads
<1>5. /\ protected_ids' \subseteq 1..inodes /\ control \subseteq protected_ids'
      /\ \A h \in LfHandles \ disturbed : handles[h] # Unused => Open(handles[h], entry, protected_ids')
  BY <1>3, Refreshed
<1>6. \A q \in PlacesOfFiles : entry'[q] = IF q = p THEN Empty ELSE entry[q]
  BY <1>2, <1>4 DEF LfInv, LfTyped
<1>7. \A q \in PlacesOfFiles : entry'[q] = TheSub <=> entry[q] = TheSub
  BY <1>2, <1>6 DEF TheSub, Empty, Inodes
<1>8. LfTyped'
  <2>1. entry' \in [PlacesOfFiles -> Things] /\ OneSub(entry')
    BY <1>2, <1>7 DEF LfInv, LfTyped, Things, OneSub, TheSubIs
  <2>2. \A q \in PlacesOfFiles : entry'[q] <= inodes'
    BY <1>1, <1>6, LiveFilesAssumption DEF LfInv, LfTyped, Empty
  <2>3. disturbed' \subseteq LfHandles
    BY <1>2 DEF LfInv, LfTyped, OpenOn, Held
  <2> QED
    BY <1>1, <1>2, <1>3, <1>5, <2>1, <2>2, <2>3 DEF LfInv, LfTyped, HandleTyped
<1>9. ControlSeen'
  BY <1>3, <1>5 DEF ControlSeen
<1>10. OpenKept'
  <2>1. ASSUME NEW h \in LfHandles \ disturbed', handles[h] # Unused
        PROVE  Open(handles[h], entry', protected_ids')
    <3>1. PICK x : x = handles[h]
      OBVIOUS
    <3>2. Open(x, entry, protected_ids') /\ x.inode # entry[p]
      BY <1>2, <1>5, <2>1, <3>1 DEF OpenOn, Held
    <3>3. OnlyAt(entry', x.inode, <<x.dir, x.name>>)
      BY <1>6, <3>2 DEF Open, OnlyAt, Leads, Inodes, Empty
    <3>4. Leads(x.parts, <<x.dir, x.name>>, entry')
      BY <1>7, <3>2, PlacesAre DEF Open, Leads
    <3> QED
      BY <3>1, <3>2, <3>3, <3>4 DEF Open
  <2> QED
    BY <1>1, <2>1 DEF OpenKept, Unused
<1>11. OnlyWhatIsShared'
  BY <1>2, <1>3, <1>5 DEF OnlyWhatIsShared
<1> QED
  BY <1>8, <1>9, <1>10, <1>11 DEF LfInv

(* A rename moves the handles of what it moves, and no others.               *)
LEMMA FollowedFile ==
  ASSUME NEW x, NEW old, NEW new \in Paths, NEW q, x # Unused, x.parts = old, old \in Paths
  PROVE  LET y == Followed(x, q, old, q, new)
         IN y.inode = x.inode /\ y.dir = q[1] /\ y.name = q[2] /\ y.parts = new
<1>1. Prefix(old, old)
  <2>1. CASE \E n \in LfNames \cup {LfControl} : old = <<n>>
    BY <2>1, Prefixes
  <2>2. CASE \E s, n \in LfNames : old = <<s, n>>
    BY <2>2, Prefixes
  <2> QED
    BY <2>1, <2>2 DEF Paths
<1>2. new \o SubSeq(old, Len(old) + 1, Len(old)) = new
  BY Rests
<1> QED
  BY <1>1, <1>2 DEF Followed

LEMMA RenameKeeps ==
  ASSUME LfInv, NEW old \in Paths, NEW new \in Paths, NEW replace \in BOOLEAN, _rename(old, new, replace)
  PROVE  LfInv'
<1>1. _guard(old) /\ _guard(new) /\ old # new /\ UNCHANGED inodes
  BY DEF _rename
<1>0. PICK p \in At(old), q \in At(new) : \E what, there :
        /\ what = entry[p] /\ there = entry[q]
        /\ Packet({what} \ {TheSub}, {there} \ {Empty})
        /\ what = TheSub \/ _regular(entry, what)
        /\ IF what = TheSub THEN q[1] # Sub /\ there = Empty
                            ELSE there = Empty \/ _regular(entry, there)
        /\ entry' = [entry EXCEPT ![p] = Empty, ![q] = what]
        /\ handles' = [h \in LfHandles |-> Followed(handles[h], p, old, q, new)]
        /\ disturbed' = disturbed \cup (IF there = Empty THEN {} ELSE OpenOn(there))
  BY DEF _rename
<1>2. PICK what, there :
        /\ what = entry[p] /\ there = entry[q]
        /\ Packet({what} \ {TheSub}, {there} \ {Empty})
        /\ what = TheSub \/ _regular(entry, what)
        /\ IF what = TheSub THEN q[1] # Sub /\ there = Empty
                            ELSE there = Empty \/ _regular(entry, there)
        /\ entry' = [entry EXCEPT ![p] = Empty, ![q] = what]
        /\ handles' = [h \in LfHandles |-> Followed(handles[h], p, old, q, new)]
        /\ disturbed' = disturbed \cup (IF there = Empty THEN {} ELSE OpenOn(there))
  BY <1>0
<1> HIDE <1>0
<1>3. /\ touched' = {what} \ {TheSub} /\ removed' = {there} \ {Empty}
      /\ _refresh_protected /\ UNCHANGED <<changes, control>>
  BY <1>2 DEF Packet
<1>4. /\ Leads(old, p, entry) /\ p # Ctl /\ p \in PlacesOfFiles /\ p[2] \in LfNames
      /\ Leads(new, q, entry) /\ q # Ctl /\ q \in PlacesOfFiles /\ q[2] \in LfNames
  BY <1>1, PathLeads DEF LfInv, Leads
<1>5. p # q
  BY <1>1, <1>4, LeadsOnce DEF LfInv, LfTyped
<1>6. /\ protected_ids' \subseteq 1..inodes /\ control \subseteq protected_ids'
      /\ \A h \in LfHandles \ disturbed : handles[h] # Unused => Open(handles[h], entry, protected_ids')
  BY <1>3, Refreshed
<1>7. \A r \in PlacesOfFiles : entry'[r] = IF r = q THEN what ELSE IF r = p THEN Empty ELSE entry[r]
  <2>1. PICK e : e = [entry EXCEPT ![p] = Empty]
    OBVIOUS
  <2>2. e \in [PlacesOfFiles -> Things] /\ \A r \in PlacesOfFiles : e[r] = IF r = p THEN Empty ELSE entry[r]
    BY <1>4, <2>1 DEF LfInv, LfTyped, Things
  <2>3. entry' = [e EXCEPT ![q] = what]
    BY <1>2, <2>1
  <2> QED
    BY <1>4, <2>2, <2>3
<1>8. /\ what \in Things /\ there \in Things /\ there # TheSub
      /\ what # TheSub => what \in Inodes \ protected_ids' /\ OnlyAt(entry, what, p)
      /\ there # Empty => what # TheSub /\ there \in Inodes \ protected_ids' /\ OnlyAt(entry, there, q)
  BY <1>2, <1>4, OneLink DEF LfInv, LfTyped, _regular, TheSub, Empty, Inodes
<1>9. PICK s \in PlacesOfFiles : TheSubIs(entry, s)
  BY DEF LfInv, LfTyped, OneSub
<1>10. /\ what = TheSub => s = p /\ TheSubIs(entry', q)
       /\ what # TheSub => TheSubIs(entry', s) /\ s # p /\ s # q
  <2>1. TheSub # Empty
    BY DEF TheSub, Empty
  <2>2. what = TheSub => s = p
    BY <1>2, <1>4, <1>9 DEF TheSubIs
  <2>3. ASSUME what = TheSub, NEW r \in PlacesOfFiles, entry'[r] = TheSub PROVE r = q
    BY <1>7, <1>9, <2>1, <2>2, <2>3 DEF TheSubIs
  <2>4. what = TheSub => TheSubIs(entry', q)
    BY <1>4, <1>7, <2>3 DEF TheSubIs
  <2>5. ASSUME what # TheSub PROVE s # p /\ s # q /\ entry'[s] = TheSub
    BY <1>2, <1>7, <1>8, <1>9, <2>5 DEF TheSubIs
  <2>6. ASSUME what # TheSub, NEW r \in PlacesOfFiles, entry'[r] = TheSub PROVE r = s
    BY <1>7, <1>9, <2>1, <2>6 DEF TheSubIs
  <2>7. what # TheSub => TheSubIs(entry', s)
    BY <1>9, <2>5, <2>6 DEF TheSubIs
  <2> QED
    BY <2>2, <2>4, <2>5, <2>7
<1>11. entry' \in [PlacesOfFiles -> Things] /\ OneSub(entry')
  <2>1. OneSub(entry')
    BY <1>4, <1>9, <1>10 DEF OneSub
  <2>2. entry' \in [PlacesOfFiles -> Things]
    BY <1>2, <1>8 DEF LfInv, LfTyped, Things
  <2> QED
    BY <2>1, <2>2
<1>12. what # TheSub => \A r, path : Leads(path, r, entry') <=> Leads(path, r, entry)
  BY <1>7, <1>8, <1>9, <1>10, PlacesAre DEF Leads, TheSubIs
<1>13. \A h \in LfHandles : handles'[h] = Followed(handles[h], p, old, q, new)
  BY <1>2
<1>14. q[1] \in {Root, Sub} /\ q = <<q[1], q[2]>> /\ p = <<p[1], p[2]>>
  BY <1>4, PlacesAre DEF Leads, Root, Sub
<1>15. ASSUME NEW x, HandleTyped(x)
       PROVE  LET y == Followed(x, p, old, q, new) IN (x = Unused => y = Unused) /\ HandleTyped(y)
  <2>1. x = Unused => Followed(x, p, old, q, new) = Unused
    BY DEF Followed
  <2>2. x # Unused => HandleTyped(Followed(x, p, old, q, new))
    BY <1>4, <1>14, <1>15 DEF Followed, HandleTyped
  <2> QED
    BY <2>1, <2>2 DEF HandleTyped
<1>16. LfTyped'
  <2>1. handles' = [h \in LfHandles |-> handles'[h]] /\ \A h \in LfHandles : HandleTyped(handles'[h])
    BY <1>2, <1>13, <1>15 DEF LfInv, LfTyped
  <2>2. \A r \in PlacesOfFiles : entry'[r] <= inodes'
    BY <1>1, <1>2, <1>4, <1>7, LiveFilesAssumption DEF LfInv, LfTyped, Empty
  <2>3. disturbed' \subseteq LfHandles
    BY <1>2 DEF LfInv, LfTyped, OpenOn, Held
  <2>4. touched' \subseteq Inodes /\ removed' \subseteq Inodes
    BY <1>3, <1>8
  <2> QED
    BY <1>1, <1>3, <1>6, <1>11, <2>1, <2>2, <2>3, <2>4 DEF LfInv, LfTyped, HandleTyped
<1>17. ControlSeen'
  BY <1>3, <1>6 DEF ControlSeen
<1>18. OpenKept'
  <2> SUFFICES ASSUME NEW h \in LfHandles \ disturbed', handles'[h] # Unused
               PROVE  Open(handles'[h], entry', protected_ids')
    BY DEF OpenKept, Unused
  <2>1. PICK x, y : x = handles[h] /\ y = handles'[h]
    OBVIOUS
  <2>2. y = Followed(x, p, old, q, new) /\ x # Unused /\ h \notin disturbed /\ (there # Empty => x.inode # there)
    BY <1>2, <1>13, <1>15, <2>1 DEF OpenOn, Held, LfInv, LfTyped
  <2>3. PICK r : r = <<x.dir, x.name>>
    OBVIOUS
  <2>4. /\ x.inode \in Inodes \ protected_ids' /\ OnlyAt(entry, x.inode, r) /\ Leads(x.parts, r, entry)
        /\ r \in PlacesOfFiles /\ x.parts \in Paths
    BY <1>6, <2>1, <2>2, <2>3, LeadsOnce DEF Open, Leads, LfInv, LfTyped
  <2>5. CASE what # TheSub /\ x.inode = what
    <3>1. r = p /\ x.parts = old
      BY <1>4, <1>8, <2>4, <2>5, LeadsOnce DEF OnlyAt, LfInv, LfTyped
    <3>2. y.inode = what /\ y.dir = q[1] /\ y.name = q[2] /\ y.parts = new
      BY <2>2, <2>5, <3>1, FollowedFile DEF Followed
    <3>3. OnlyAt(entry', what, q)
      BY <1>4, <1>7, <1>8, <2>5 DEF OnlyAt, Inodes, Empty
    <3> QED
      BY <1>4, <1>12, <1>14, <2>1, <2>4, <2>5, <3>2, <3>3 DEF Open
  <2>6. CASE what # TheSub /\ x.inode # what
    <3>1. r # p /\ (r = q => there = x.inode)
      BY <1>2, <2>4, <2>6 DEF OnlyAt
    <3>2. r # q
      BY <2>2, <2>4, <3>1 DEF Inodes, Empty
    <3>3. OnlyAt(entry', x.inode, r)
      BY <1>7, <2>4, <2>6, <3>1, <3>2 DEF OnlyAt, Inodes, Empty
    <3>4. ~Prefix(old, x.parts)
      <4>1. x.parts # old
        BY <1>4, <2>4, <3>1, LeadsToOne
      <4>2. ASSUME NEW n, NEW m, NEW k \in LfNames, old = <<n>>, x.parts = <<k, m>>, entry[<<Root, k>>] = TheSub
            PROVE  n # k
        <5>1. p = <<Root, n>>
          BY <1>4, <4>2, Lengths DEF Leads
        <5> QED
          BY <1>2, <2>6, <4>2, <5>1
      <4>3. PICK b : b = p[2]
        OBVIOUS
      <4>4. PICK c : c = r[2]
        OBVIOUS
      <4>5. old = <<b>> \/ \E k \in LfNames : old = <<k, b>>
        BY <1>4, <4>3 DEF Leads
      <4>6. x.parts = <<c>> \/ \E k \in LfNames : x.parts = <<k, c>> /\ entry[<<Root, k>>] = TheSub
        BY <2>4, <4>4 DEF Leads
      <4> HIDE <4>3, <4>4
      <4>7. CASE old = <<b>>
        <5>1. ASSUME NEW k \in LfNames, x.parts = <<k, c>>, entry[<<Root, k>>] = TheSub PROVE ~Prefix(old, x.parts)
          <6>1. b # k
            BY <4>2, <4>7, <5>1
          <6> QED
            BY <4>7, <5>1, <6>1, Prefixes
        <5>2. x.parts = <<c>> => ~Prefix(old, x.parts)
          BY <4>1, <4>7, Prefixes
        <5> QED
          BY <4>6, <5>1, <5>2
      <4>8. ASSUME NEW j \in LfNames, old = <<j, b>> PROVE ~Prefix(old, x.parts)
        <5>1. x.parts = <<c>> => ~Prefix(old, x.parts)
          BY <4>8, Prefixes
        <5>2. ASSUME NEW k, x.parts = <<k, c>> PROVE ~Prefix(old, x.parts)
          BY <4>1, <4>8, <5>2, Prefixes
        <5> QED
          BY <4>6, <5>1, <5>2
      <4> QED
        BY <4>5, <4>7, <4>8
    <3>5. y = x
      BY <2>2, <3>4 DEF Followed
    <3> QED
      BY <1>12, <2>1, <2>3, <2>4, <2>6, <3>3, <3>5 DEF Open
  <2>7. CASE what = TheSub
    <3>1. there = Empty /\ q[1] # Sub /\ s = p
      BY <1>2, <1>10, <2>7
    <3>2. PICK n \in LfNames : q = <<Root, n>> /\ new = <<n>>
      BY <1>4, <3>1 DEF Leads
    <3>3. PICK k \in LfNames : p = <<Root, k>> /\ old = <<k>>
      <4>1. CASE p = <<Root, p[2]>> /\ old = <<p[2]>>
        BY <1>4, <4>1
      <4>2. ASSUME NEW k \in LfNames, p = <<Sub, p[2]>>, entry[<<Root, k>>] = TheSub PROVE FALSE
        <5>1. s = <<Root, k>>
          BY <1>9, <4>2, PlacesAre DEF TheSubIs
        <5> QED
          BY <3>1, <4>2, <5>1 DEF Root, Sub
      <4> QED
        BY <1>4, <4>1, <4>2 DEF Leads
    <3>4. r # p /\ r # q
      <4>1. x.inode # TheSub /\ x.inode # Empty
        BY <2>4 DEF Inodes, TheSub, Empty
      <4> QED
        BY <1>2, <2>4, <2>7, <3>1, <4>1 DEF OnlyAt
    <3>5. OnlyAt(entry', x.inode, r)
      BY <1>7, <2>4, <2>7, <3>4 DEF OnlyAt, Inodes, TheSub, Empty
    <3>6. CASE r = <<Root, r[2]>> /\ x.parts = <<r[2]>>
      <4>1. r[2] # k
        BY <3>3, <3>4, <3>6
      <4>2. y = x
        BY <2>2, <3>3, <3>6, <4>1, Prefixes DEF Followed
      <4>3. Leads(x.parts, r, entry')
        BY <2>4, <3>6 DEF Leads
      <4> QED
        BY <2>1, <2>3, <2>4, <3>5, <4>2, <4>3 DEF Open
    <3>7. ASSUME NEW j \in LfNames, r = <<Sub, r[2]>>, x.parts = <<j, r[2]>>, entry[<<Root, j>>] = TheSub
          PROVE  Open(y, entry', protected_ids')
      <4>1. j = k
        <5>1. s = <<Root, j>>
          BY <1>9, <3>7, PlacesAre DEF TheSubIs
        <5> QED
          BY <3>1, <3>3, <5>1
      <4>2. r[2] \in LfNames
        BY <2>4 DEF Leads
      <4>3. Prefix(old, x.parts) /\ x.parts # old /\ new \o SubSeq(x.parts, Len(old) + 1, Len(x.parts)) = <<n, r[2]>>
        BY <3>2, <3>3, <3>7, <4>1, <4>2, Prefixes, Lengths, Rests
      <4>4. y.inode = x.inode /\ y.dir = x.dir /\ y.name = x.name /\ y.parts = <<n, r[2]>>
        BY <2>2, <4>3 DEF Followed
      <4>5. entry'[<<Root, n>>] = TheSub
        BY <1>7, <2>7, <3>2, PlacesAre
      <4>6. Leads(y.parts, r, entry')
        BY <2>4, <3>7, <4>2, <4>4, <4>5 DEF Leads
      <4> QED
        BY <2>3, <2>4, <3>5, <4>4, <4>6 DEF Open
    <3> QED
      BY <2>1, <2>4, <3>6, <3>7 DEF Leads
  <2> QED
    BY <2>5, <2>6, <2>7
<1>19. OnlyWhatIsShared'
  <2>1. what # TheSub => Leads(new, q, entry')
    BY <1>4, <1>12
  <2>2. what # TheSub => q[1] = Root \/ (q[1] = Sub /\ SubAt(entry')[1] = Root)
    BY <1>11, <2>1, LeadsOnce
  <2>3. entry'[q] = what
    BY <1>4, <1>7
  <2> QED
    BY <1>3, <1>4, <1>6, <1>8, <2>2, <2>3 DEF OnlyWhatIsShared, InTheFolder
<1> QED
  BY <1>16, <1>17, <1>18, <1>19 DEF LfInv

(* What others do moves nothing the server has not seen out of the place of *)
(* the control data.                                                        *)
LEMMA MeanwhileKeeps ==
  ASSUME LfInv, NEW e \in [PlacesOfFiles -> Things], OneSub(e), Meanwhile(e),
         inodes' \in 2..LfMaxInodes, inodes <= inodes', \A q \in PlacesOfFiles : e[q] <= inodes',
         entry[Ctl] \in protected_ids \cup {Empty, e[Ctl]}
  PROVE  LfInv'
<1>1. /\ entry' = e /\ touched' = {} /\ removed' = {} /\ changes' = changes + 1 /\ changes < LfMaxChanges
      /\ control' = control \cup ({e[Ctl]} \ {Empty, TheSub})
      /\ disturbed' = disturbed \cup {h \in Held : ~Usable(h, e, protected_ids)}
                        \cup {h \in Held : handles[h].dir = Sub /\ SubAt(e) # SubAt(entry)}
      /\ UNCHANGED <<protected_ids, handles>>
  BY DEF Meanwhile, Ctl
<1>2. LfTyped'
  <2>1. control' \subseteq Inodes
    BY <1>1, PlacesAre DEF LfInv, LfTyped, Things
  <2>2. disturbed' \subseteq LfHandles
    BY <1>1 DEF LfInv, LfTyped, Held
  <2>3. protected_ids' \subseteq 1..inodes'
    BY <1>1, LiveFilesAssumption DEF LfInv, LfTyped
  <2>4. changes' \in 0..LfMaxChanges
    BY <1>1, LiveFilesAssumption DEF LfInv, LfTyped
  <2> QED
    BY <1>1, <2>1, <2>2, <2>3, <2>4 DEF LfInv, LfTyped, HandleTyped
<1>3. ControlSeen'
  BY <1>1 DEF LfInv, LfTyped, ControlSeen, Inodes, Empty
<1>4. OpenKept'
  <2> SUFFICES ASSUME NEW h \in LfHandles \ disturbed', handles[h] # Unused
               PROVE  Open(handles[h], e, protected_ids)
    BY <1>1 DEF OpenKept, Unused
  <2>1. h \notin disturbed /\ h \in Held
    BY <1>1 DEF Held
  <2>2. Usable(h, e, protected_ids) /\ (handles[h].dir = Sub => SubAt(e) = SubAt(entry))
    BY <1>1, <2>1
  <2>3. Open(handles[h], entry, protected_ids)
    BY <2>1 DEF LfInv, OpenKept
  <2> QED
    BY <2>2, <2>3, StaysOpen DEF LfInv
<1>5. OnlyWhatIsShared'
  BY <1>1 DEF OnlyWhatIsShared
<1> QED
  BY <1>2, <1>3, <1>4, <1>5 DEF LfInv

LEMMA OthersMoveKeeps ==
  ASSUME LfInv, NEW p \in PlacesOfFiles, NEW q \in PlacesOfFiles, OthersMove(p, q)
  PROVE  LfInv'
<1>1. PICK e, what : e = [entry EXCEPT ![p] = Empty, ![q] = what] /\ what = entry[p]
  OBVIOUS
<1>2. /\ what # Empty /\ p # q /\ Movable(p) /\ Movable(q) /\ Meanwhile(e) /\ inodes' = inodes
      /\ IF what = TheSub THEN q[1] # Sub /\ q # Ctl /\ entry[q] = Empty ELSE entry[q] # TheSub
  BY <1>1 DEF OthersMove, Ctl
<1>3. /\ e \in [PlacesOfFiles -> Things]
      /\ \A r \in PlacesOfFiles : e[r] = IF r = q THEN what ELSE IF r = p THEN Empty ELSE entry[r]
  <2>1. PICK d : d = [entry EXCEPT ![p] = Empty]
    OBVIOUS
  <2>2. d \in [PlacesOfFiles -> Things] /\ \A r \in PlacesOfFiles : d[r] = IF r = p THEN Empty ELSE entry[r]
    BY <2>1 DEF LfInv, LfTyped, Things
  <2>3. e = [d EXCEPT ![q] = what] /\ what \in Things
    BY <1>1, <2>1 DEF LfInv, LfTyped
  <2> QED
    BY <2>2, <2>3
<1>4. PICK s \in PlacesOfFiles : TheSubIs(entry, s)
  BY DEF LfInv, LfTyped, OneSub
<1>5. OneSub(e)
  <2>1. TheSub # Empty
    BY DEF TheSub, Empty
  <2>2. CASE what = TheSub
    <3>1. s = p
      BY <1>1, <1>4, <2>2 DEF TheSubIs
    <3>2. ASSUME NEW r \in PlacesOfFiles, e[r] = TheSub PROVE r = q
      BY <1>3, <1>4, <2>1, <3>1, <3>2 DEF TheSubIs
    <3> QED
      BY <1>2, <1>3, <2>2, <3>2 DEF OneSub, TheSubIs
  <2>3. CASE what # TheSub
    <3>1. s # p /\ s # q /\ e[s] = TheSub
      BY <1>1, <1>2, <1>3, <1>4, <2>3 DEF TheSubIs
    <3>2. ASSUME NEW r \in PlacesOfFiles, e[r] = TheSub PROVE r = s
      BY <1>3, <1>4, <2>1, <2>3, <3>2 DEF TheSubIs
    <3> QED
      BY <1>4, <3>1, <3>2 DEF OneSub, TheSubIs
  <2> QED
    BY <2>2, <2>3
<1>6. \A r \in PlacesOfFiles : e[r] <= inodes'
  BY <1>1, <1>2, <1>3, LiveFilesAssumption DEF LfInv, LfTyped, Empty
<1>7. entry[Ctl] \in protected_ids \cup {Empty, e[Ctl]}
  BY <1>2, <1>3, PlacesAre DEF Movable, Ctl
<1>8. inodes' \in 2..LfMaxInodes /\ inodes <= inodes'
  BY <1>2, LiveFilesAssumption DEF LfInv, LfTyped
<1> QED
  BY <1>2, <1>3, <1>5, <1>6, <1>7, <1>8, MeanwhileKeeps

LEMMA OthersSaveKeeps == ASSUME LfInv, NEW p \in PlacesOfFiles, OthersSave(p) PROVE LfInv'
<1>1. PICK e, i : e = [entry EXCEPT ![p] = i] /\ i = inodes + 1
  OBVIOUS
<1>2. /\ entry[p] # TheSub /\ inodes < LfMaxInodes /\ inodes' = i /\ (Movable(p) \/ entry[p] = Empty)
      /\ Meanwhile(e)
  BY <1>1 DEF OthersSave
<1>3. inodes \in Nat /\ i \in Inodes /\ i # TheSub /\ inodes' \in 2..LfMaxInodes /\ inodes <= inodes'
  BY <1>1, <1>2, LiveFilesAssumption DEF LfInv, LfTyped, Inodes, TheSub
<1>4. /\ e \in [PlacesOfFiles -> Things]
      /\ \A r \in PlacesOfFiles : e[r] = IF r = p THEN i ELSE entry[r]
  BY <1>1, <1>3 DEF LfInv, LfTyped, Things
<1>5. OneSub(e)
  BY <1>2, <1>3, <1>4 DEF LfInv, LfTyped, OneSub, TheSubIs
<1>6. \A r \in PlacesOfFiles : e[r] <= inodes'
  <2>1. \A r \in PlacesOfFiles : entry[r] \in Int /\ entry[r] <= inodes
    BY DEF LfInv, LfTyped, Things, Inodes, TheSub, Empty
  <2> QED
    BY <1>1, <1>2, <1>3, <1>4, <2>1
<1>7. entry[Ctl] \in protected_ids \cup {Empty, e[Ctl]}
  BY <1>2, <1>4, PlacesAre DEF Movable, Ctl
<1> QED
  BY <1>2, <1>3, <1>4, <1>5, <1>6, <1>7, MeanwhileKeeps

LEMMA OthersLinkKeeps ==
  ASSUME LfInv, NEW p \in PlacesOfFiles, NEW q \in PlacesOfFiles, OthersLink(p, q)
  PROVE  LfInv'
<1>1. PICK e : e = [entry EXCEPT ![q] = entry[p]]
  OBVIOUS
<1>2. entry[p] \in Inodes /\ entry[q] = Empty /\ Meanwhile(e) /\ inodes' = inodes
  BY <1>1 DEF OthersLink
<1>3. /\ e \in [PlacesOfFiles -> Things]
      /\ \A r \in PlacesOfFiles : e[r] = IF r = q THEN entry[p] ELSE entry[r]
  BY <1>1 DEF LfInv, LfTyped
<1>4. OneSub(e)
  BY <1>2, <1>3 DEF LfInv, LfTyped, OneSub, TheSubIs, Inodes, TheSub, Empty
<1>5. \A r \in PlacesOfFiles : e[r] <= inodes'
  BY <1>2, <1>3 DEF LfInv, LfTyped
<1>6. entry[Ctl] \in protected_ids \cup {Empty, e[Ctl]}
  BY <1>2, <1>3, PlacesAre
<1>7. inodes' \in 2..LfMaxInodes /\ inodes <= inodes'
  BY <1>2, LiveFilesAssumption DEF LfInv, LfTyped
<1> QED
  BY <1>2, <1>3, <1>4, <1>5, <1>6, <1>7, MeanwhileKeeps

LEMMA LfStutterKeeps == ASSUME LfInv, UNCHANGED lfVars PROVE LfInv'
  BY DEF lfVars, LfInv, LfTyped, ControlSeen, OpenKept, OnlyWhatIsShared, InTheFolder, HandleTyped, Unused

LEMMA LfStepKeeps == ASSUME LfInv, LfNext \/ UNCHANGED lfVars PROVE LfInv'
  BY CloseKeeps, HeldKeeps, CreateKeeps, UnlinkKeeps, RenameKeeps, OthersMoveKeeps, OthersSaveKeeps,
     OthersLinkKeeps, LfStutterKeeps DEF LfNext

LEMMA LfInitSound == LfInit => LfInv
<1> SUFFICES ASSUME LfInit PROVE LfInv
  OBVIOUS
<1>1. PICK n \in LfNames, m \in LfNames :
        /\ n # m
        /\ entry = [p \in PlacesOfFiles |-> CASE p = <<Root, n>> -> 1 [] p = <<Root, m>> -> TheSub
                                              [] p = Ctl -> 2 [] OTHER -> Empty]
  BY DEF LfInit, Ctl
<1>2. <<Root, n>> \in PlacesOfFiles /\ <<Root, m>> \in PlacesOfFiles /\ <<Root, n>> # <<Root, m>>
      /\ <<Root, n>> # Ctl /\ <<Root, m>> # Ctl /\ Ctl \in PlacesOfFiles
  BY <1>1, PlacesAre
<1>3. \A p \in PlacesOfFiles :
        entry[p] = IF p = <<Root, n>> THEN 1 ELSE IF p = <<Root, m>> THEN TheSub
                   ELSE IF p = Ctl THEN 2 ELSE Empty
  BY <1>1, <1>2
<1>4. 1 \in Inodes /\ 2 \in Inodes /\ 2 \in 2..LfMaxInodes
  BY LiveFilesAssumption DEF Inodes
<1>5. entry \in [PlacesOfFiles -> Things]
  BY <1>1, <1>3, <1>4 DEF Things
<1>6. TheSubIs(entry, <<Root, m>>)
  BY <1>2, <1>3 DEF TheSubIs, TheSub, Empty
<1>7. LfTyped
  <2>1. \A p \in PlacesOfFiles : entry[p] <= inodes
    BY <1>3 DEF LfInit, TheSub, Empty
  <2>2. handles = [h \in LfHandles |-> handles[h]] /\ \A h \in LfHandles : HandleTyped(handles[h])
    BY DEF LfInit, HandleTyped
  <2>3. protected_ids \subseteq 1..inodes /\ control \subseteq Inodes
    BY <1>4 DEF LfInit
  <2>4. OneSub(entry)
    BY <1>2, <1>6 DEF OneSub
  <2> QED
    BY <1>4, <1>5, <2>1, <2>2, <2>3, <2>4, LiveFilesAssumption DEF LfInit, LfTyped
<1>8. ControlSeen /\ OpenKept /\ OnlyWhatIsShared
  BY DEF LfInit, ControlSeen, OpenKept, OnlyWhatIsShared
<1> QED
  BY <1>7, <1>8 DEF LfInv

LEMMA LfInvGivesSound == LfInv => LiveFilesSound /\ LfTypeOK
<1> SUFFICES ASSUME LfInv PROVE LiveFilesSound /\ LfTypeOK
  OBVIOUS
<1>1. ASSUME NEW h \in Held, h \notin disturbed PROVE Usable(h, entry, protected_ids)
  <2>1. Open(handles[h], entry, protected_ids)
    BY <1>1 DEF LfInv, OpenKept, Held
  <2> QED
    BY <2>1, OpenUsable DEF LfInv, Held
<1>2. LiveFilesSound
  BY <1>1 DEF LfInv, LiveFilesSound, OpenStaysOpen
<1>3. Cardinality({p \in PlacesOfFiles : entry[p] = TheSub}) = 1
  <2>1. PICK s \in PlacesOfFiles : TheSubIs(entry, s)
    BY DEF LfInv, LfTyped, OneSub
  <2>2. {p \in PlacesOfFiles : entry[p] = TheSub} = {s}
    BY <2>1 DEF TheSubIs
  <2> QED
    BY <2>2, FS_Singleton
<1>4. protected_ids \subseteq Things
  BY LiveFilesAssumption DEF LfInv, LfTyped, Things, Inodes
<1>5. \A h \in LfHandles : /\ handles[h].inode \in Inodes \cup {Empty}
                           /\ handles[h].dir \in Dirs /\ handles[h].name \in LfNames \cup {LfControl}
  BY DEF LfInv, LfTyped, HandleTyped, Unused, Dirs
<1>6. LfTypeOK
  BY <1>3, <1>4, <1>5 DEF LfInv, LfTyped, LfTypeOK
<1> QED
  BY <1>2, <1>6

-----------------------------------------------------------------------------
(* What is done in the mounted folder is carried out once, whatever breaks,  *)
(* dies or is stopped, and truthfully answered - the requests excepted that  *)
(* were numbered anew for a connector whose mark an explicit stop cleared    *)
(* under it; an end that was told is one, and a packet touches what is       *)
(* shared and nothing else (live_access.py, live_client.py, live_files.py).  *)
THEOREM MountSoundAlways == ComputerSpec => []MountSound
<1>1. ComputerInit => LvInv /\ LfInv
  BY LvInitSound, LfInitSound DEF ComputerInit
<1>2. ASSUME LvInv /\ LfInv, [ComputerNext]_<<focus, prVars, crVars, lvVars, lfVars, nsVars>>
      PROVE  (LvInv /\ LfInv)'
  <2>1. (LvNext \/ UNCHANGED lvVars) /\ (LfNext \/ UNCHANGED lfVars)
    BY <1>2 DEF ComputerNext
  <2> QED
    BY <1>2, <2>1, LvStepKeeps, LfStepKeeps
<1>3. LvInv /\ LfInv => MountSound
  BY LvInvGivesSound, LfInvGivesSound DEF MountSound
<1> QED
  BY <1>1, <1>2, <1>3, PTL DEF ComputerSpec
-----------------------------------------------------------------------------
(* The types of the whole composition.                                       *)

(* No worker is of a claim the slot has not been on yet, and the grant       *)
(* changed so often as the bound allows.                                     *)
NsCounted(most) ==
  /\ nsGrants \in 0..most /\ nsHolder \in 1..nsGrants + 1 /\ nsGrant \in 0..nsHolder
  /\ nsReserved \subseteq NsRequests \X (1..nsHolder)
  /\ \A n \in Runs : nsRun[n].holder \in 1..nsHolder

(* Whatever a worker does, it stays the one of its request and its claim.    *)
SameRequests ==
  /\ Runs' = Runs
  /\ \A o \in Runs : nsRun'[o].request = nsRun[o].request /\ nsRun'[o].holder = nsRun[o].holder

LEMMA StaysOfItsRequest ==
  ASSUME NativeInv, NEW n \in Runs, NEW w, nsRun' = [nsRun EXCEPT ![n] = w],
         w.request = nsRun[n].request, w.holder = nsRun[n].holder
  PROVE  SameRequests
<1>1. Runs' = Runs /\ nsRun'[n] = w /\ \A o \in Runs : o # n => nsRun'[o] = nsRun[o]
  BY DEF NativeInv, Runs
<1> QED
  BY <1>1 DEF SameRequests

LEMMA FreshIs == ASSUME NEW r, NEW h PROVE Fresh(r, h).request = r /\ Fresh(r, h).holder = h
BY DEF Fresh

LEMMA GoneIsSame ==
  ASSUME NativeInv, NEW n \in Runs, NEW place, NEW what, Gone(n, place, what)
  PROVE  SameRequests
<1> DEFINE first == Fresh(nsRun[n].request, nsRun[n].holder)
           turn == IF Prompted(n) THEN "asked" ELSE "none"
           left == [first EXCEPT !.at = place, !.client = FALSE, !.answer = what, !.turn = turn]
           full == [left EXCEPT !.native = nsRun[n].native, !.callFirst = nsRun[n].callFirst,
                                !.vouched = nsRun[n].vouched]
           w == IF what \in {"text", "tool"} THEN full ELSE left
<1>1. nsRun' = [nsRun EXCEPT ![n] = w]
  BY DEF Gone
<1>2. left.request = nsRun[n].request /\ left.holder = nsRun[n].holder
  BY DEF Fresh
<1>3. full.request = left.request /\ full.holder = left.holder
  BY DEF Fresh
<1>4. w.request = nsRun[n].request /\ w.holder = nsRun[n].holder
  BY <1>2, <1>3
<1> HIDE DEF w
<1> QED
  BY <1>1, <1>4, StaysOfItsRequest

LEMMA LeavesIsSame ==
  ASSUME NativeInv, NEW n \in Runs, NEW what, Leaves(n, what)
  PROVE  SameRequests
BY DEF Leaves, SameRequests, NativeInv, Runs, Workers

LEMMA MovesIsSame ==
  ASSUME NativeInv, NEW n \in Runs, NEW place, Moves(n, place)
  PROVE  SameRequests
BY DEF Moves, SameRequests, NativeInv, Runs, Workers

LEMMA KilledIsSame ==
  ASSUME NativeInv, NEW n \in Runs, NEW what
  PROVE  /\ Killed(n).request = nsRun[n].request /\ Killed(n).holder = nsRun[n].holder
         /\ Closed(n, what).request = nsRun[n].request /\ Closed(n, what).holder = nsRun[n].holder
<1>1. nsRun[n] \in Workers
  BY DEF NativeInv, Runs
<1>2. Killed(n).request = nsRun[n].request /\ Killed(n).holder = nsRun[n].holder
  BY <1>1 DEF Killed, Workers
<1>3. Closed(n, what).request = Killed(n).request /\ Closed(n, what).holder = Killed(n).holder
  BY <1>1 DEF Closed, Killed, Workers
<1> QED
  BY <1>2, <1>3

LEMMA WorkerStaysOfItsRequest ==
  ASSUME NativeInv, NEW n \in Runs, WorkerMoves(n)
  PROVE  SameRequests
<1>1. nsRun[n] \in Workers /\ nsRun \in Seq(Workers)
  BY DEF NativeInv, Runs
<1>2. CASE load_policy(n)
  BY <1>2, GoneIsSame, MovesIsSame DEF load_policy, Refused
<1>3. CASE request_frame(n)
  BY <1>3, GoneIsSame, MovesIsSame DEF request_frame, Refused
<1>4. CASE reserve(n)
  BY <1>4, GoneIsSame, MovesIsSame DEF reserve, Refused
<1>5. CASE _start(n)
  BY <1>1, <1>5, LeavesIsSame DEF _start, SameRequests, Runs, Workers
<1>6. CASE _wait_ready(n)
  BY <1>1, <1>6, LeavesIsSame DEF _wait_ready, SameRequests, Runs, Workers
<1>7. CASE _authorized(n)
  BY <1>7, LeavesIsSame, MovesIsSame DEF _authorized
<1>8. CASE prompt(n)
  BY <1>1, <1>8 DEF prompt, SameRequests, Runs, Workers
<1>9. CASE Watch(n)
  <2>1. CASE ~authorize(n) \/ ~Alive(n)
    BY <1>9, <2>1, LeavesIsSame DEF Watch
  <2>2. CASE authorize(n) /\ Alive(n) /\ nsRun[n].log = "partial"
    BY <1>1, <1>9, <2>2, LeavesIsSame DEF Watch, SameRequests, Runs, Workers
  <2>3. CASE authorize(n) /\ Alive(n) /\ nsRun[n].log # "partial"
    <3>1. PICK place, what : nsRun' = [nsRun EXCEPT ![n].partial = FALSE, ![n].at = place, ![n].outcome = what]
      BY <1>9, <2>3 DEF Watch
    <3> QED
      BY <1>1, <3>1 DEF SameRequests, Runs, Workers
  <2> QED
    BY <2>1, <2>2, <2>3
<1>10. CASE WaitForTheTurn(n)
  BY <1>1, <1>10, LeavesIsSame, MovesIsSame DEF WaitForTheTurn, SameRequests, Runs, Workers
<1>11. CASE DeadlinePasses(n)
  BY <1>11, LeavesIsSame DEF DeadlinePasses
<1>12. CASE controller_close(n)
  <2>1. CASE \E what : nsRun' = [nsRun EXCEPT ![n] = Closed(n, what)]
    BY <2>1, KilledIsSame, StaysOfItsRequest
  <2>2. CASE nsRun' = [nsRun EXCEPT ![n] = [Closed(n, "error") EXCEPT !.native = "up"]]
    <3>1. PICK w : w = [Closed(n, "error") EXCEPT !.native = "up"]
      OBVIOUS
    <3>2. w.request = Closed(n, "error").request /\ w.holder = Closed(n, "error").holder
      BY <1>1, <3>1 DEF Closed, Killed, Workers
    <3> QED
      BY <2>2, <3>1, <3>2, KilledIsSame, StaysOfItsRequest
  <2> QED
    BY <1>12, <2>1, <2>2 DEF controller_close
<1>13. CASE settle(n)
  BY <1>1, <1>13 DEF settle, SameRequests, Runs, Workers
<1>14. CASE respond(n)
  BY <1>14, GoneIsSame DEF respond
<1>15. CASE AgentCalls(n)
  BY <1>1, <1>15 DEF AgentCalls, SameRequests, Runs, Workers
<1>16. CASE tools_call(n)
  BY <1>1, <1>16 DEF tools_call, SameRequests, Runs, Workers
<1>17. CASE _lifecycle(n)
  BY <1>1, <1>17 DEF _lifecycle, SameRequests, Runs, Workers
<1>18. CASE TurnEnds(n)
  BY <1>1, <1>18 DEF TurnEnds, SameRequests, Runs, Workers
<1>19. CASE AgentDies(n)
  BY <1>19, KilledIsSame, StaysOfItsRequest DEF AgentDies
<1>20. CASE ShimCloses(n)
  BY <1>1, <1>20 DEF ShimCloses, SameRequests, Runs, Workers
<1>21. CASE disconnected(n)
  BY <1>1, <1>21 DEF disconnected, SameRequests, Runs, Workers
<1>22. CASE WorkerKilled(n)
  BY <1>22, GoneIsSame DEF WorkerKilled
<1> QED
  BY <1>2, <1>3, <1>4, <1>5, <1>6, <1>7, <1>8, <1>9, <1>10, <1>11, <1>12, <1>13, <1>14, <1>15,
     <1>16, <1>17, <1>18, <1>19, <1>20, <1>21, <1>22 DEF WorkerMoves

LEMMA WorkerReservesItsOwn ==
  ASSUME NEW n \in Runs, WorkerMoves(n)
  PROVE  /\ nsHolder' = nsHolder /\ nsGrant' = nsGrant /\ nsGrants' = nsGrants
         /\ nsReserved' \subseteq nsReserved \cup {Identity(n)}
BY DEF WorkerMoves, Stays, load_policy, request_frame, reserve, _start, _wait_ready, _authorized,
       prompt, Watch, WaitForTheTurn, DeadlinePasses, controller_close, settle, respond,
       AgentCalls, tools_call, _lifecycle, TurnEnds, AgentDies, ShimCloses, disconnected,
       WorkerKilled

LEMMA WorkerKeepsCount ==
  ASSUME NativeInv, NEW most \in Nat, NsCounted(most), NEW n \in Runs, WorkerMoves(n)
  PROVE  NsCounted(most)'
<1>1. SameRequests /\ nsHolder' = nsHolder /\ nsGrant' = nsGrant /\ nsGrants' = nsGrants
      /\ nsReserved' \subseteq nsReserved \cup {Identity(n)}
  BY WorkerStaysOfItsRequest, WorkerReservesItsOwn
<1>2. nsRun[n].request \in NsRequests /\ nsRun[n].holder \in 1..nsHolder
  <2>1. nsRun[n] \in Workers
    BY DEF NativeInv, Runs
  <2> QED
    BY <2>1 DEF NsCounted, Workers
<1>3. nsReserved' \subseteq NsRequests \X (1..nsHolder')
  BY <1>1, <1>2 DEF NsCounted, Identity
<1> QED
  BY <1>1, <1>3 DEF NsCounted, SameRequests

LEMMA StatusKeepsCount ==
  ASSUME NativeInv, NEW most \in Nat, NsCounted(most), NEW r \in NsRequests,
         nsRun' = Append(nsRun, Fresh(r, nsHolder)), Stays
  PROVE  NsCounted(most)'
<1>1. PICK w : w = Fresh(r, nsHolder)
  OBVIOUS
<1>2. w.holder = nsHolder /\ nsHolder \in 1..nsHolder
  BY <1>1, FreshIs DEF NsCounted
<1>3. \A n \in Runs' : nsRun'[n] = w \/ (n \in Runs /\ nsRun'[n] = nsRun[n])
  BY <1>1 DEF NativeInv, Runs
<1> QED
  BY <1>2, <1>3 DEF NsCounted, Stays

LEMMA GrantKeepsCount ==
  ASSUME NativeInv, NEW most \in Nat, NsCounted(most), nsGrants < most, nsGrants' = nsGrants + 1,
         GrantMoves
  PROVE  NsCounted(most)'
<1>1. /\ nsHolder \in Nat /\ nsGrants \in Nat /\ nsHolder >= 1 /\ nsHolder <= nsGrants + 1
      /\ \/ nsHolder' = nsHolder /\ nsGrant' \in {0, nsHolder}
         \/ nsHolder' = nsHolder + 1 /\ nsGrant' = nsHolder + 1
  BY DEF NsCounted, GrantMoves
<1>2. nsGrants' \in 0..most /\ nsHolder' \in 1..nsGrants' + 1 /\ nsGrant' \in 0..nsHolder'
      /\ 1..nsHolder \subseteq 1..nsHolder'
  BY <1>1
<1>3. Runs' = Runs /\ \A n \in Runs : nsRun'[n].holder = nsRun[n].holder
  <2>1. \A n \in Runs : nsRun[n] \in Workers
    BY DEF NativeInv, Runs
  <2>2. \A n \in Runs : \E v : nsRun'[n] = [nsRun[n] EXCEPT !.vouched = v]
    BY DEF GrantMoves
  <2> QED
    BY <2>1, <2>2 DEF GrantMoves, Runs, Workers
<1>4. nsReserved' \subseteq NsRequests \X (1..nsHolder')
  BY <1>2 DEF NsCounted, GrantMoves
<1> QED
  BY <1>2, <1>3, <1>4 DEF NsCounted

LEMMA NsNextKeepsCount ==
  ASSUME NativeInv, NsCounted(NsMaxGrants), NsNext
  PROVE  NsCounted(NsMaxGrants)'
<1> NsMaxGrants \in Nat
  BY NativeAssumption
<1>1. CASE \E r \in NsRequests : status_frame(r)
  BY <1>1, StatusKeepsCount DEF status_frame
<1>2. CASE grant
  BY <1>2, GrantKeepsCount DEF grant, GrantMoves
<1>3. CASE \E n \in Runs : WorkerMoves(n)
  BY <1>3, WorkerKeepsCount
<1> QED
  BY <1>1, <1>2, <1>3 DEF NsNext, WorkerMoves

LEMMA AloneNextKeepsCount ==
  ASSUME NativeInv, NsCounted(3), AloneRequest!NsNext
  PROVE  NsCounted(3)'
<1>1. CASE \E r \in NsRequests : AloneRequest!status_frame(r)
  BY <1>1, StatusKeepsCount DEF AloneRequest!status_frame, AloneRequest!Fresh, Fresh, AloneRequest!Stays, Stays
<1>2. CASE AloneRequest!grant
  BY <1>2, GrantKeepsCount DEF AloneRequest!grant, GrantMoves, AloneRequest!Runs, Runs
<1>3. CASE \E n \in Runs : WorkerMoves(n)
  BY <1>3, WorkerKeepsCount
<1>4. (\E r \in NsRequests : AloneRequest!status_frame(r)) \/ AloneRequest!grant
      \/ \E n \in Runs : WorkerMoves(n)
  BY SameSteps DEF AloneRequest!NsNext, AloneRequest!Runs, Runs, WorkerMoves
<1> QED
  BY <1>1, <1>2, <1>3, <1>4

LEMMA CountGivesTypes ==
  /\ NativeInv /\ NsCounted(NsMaxGrants) => NsTypeOK
  /\ NativeInv /\ NsCounted(3) => AloneRequest!NsTypeOK
<1>1. NativeInv => \A n \in Runs : nsRun[n] \in Workers
  BY DEF NativeInv, Runs
<1>2. ASSUME NEW most \in Nat, NativeInv, NsCounted(most)
      PROVE  nsHolder \in 1..most + 1
  BY <1>2 DEF NsCounted
<1>3. ASSUME NativeInv, NEW n \in Runs
      PROVE  nsRun[n].at \in Places /\ nsRun[n].request \in NsRequests
             /\ nsRun[n].native \in {"none", "up", "gone"} /\ nsRun[n].shim \in {"none", "ready", "closed"}
             /\ nsRun[n].call \in {"none", "sent", "published"}
             /\ nsRun[n].turn \in {"none", "asked", "answered", "failed"}
             /\ nsRun[n].outcome \in {"none", "text", "tool", "error"}
             /\ nsRun[n].answer \in {"none", "text", "tool", "error"}
  BY <1>1, <1>3 DEF Workers
<1>4. ASSUME NativeInv, NsCounted(NsMaxGrants) PROVE NsTypeOK
  BY <1>2, <1>3, <1>4, NativeAssumption DEF NativeInv, OneWorks, NsCounted, NsTypeOK, Places
<1>5. ASSUME NativeInv, NsCounted(3) PROVE AloneRequest!NsTypeOK
  <2>1. nsHolder \in 1..3 + 1
    BY <1>2, <1>5
  <2> QED
    BY <1>3, <1>5, <2>1 DEF NativeInv, OneWorks, NsCounted, AloneRequest!NsTypeOK, AloneRequest!Runs,
       Runs, AloneRequest!Working, Working, Places
<1> QED
  BY <1>4, <1>5

LEMMA TypesOfCopies == (PrInv => PrTypeOK) /\ (CrInv => CrTypeOK)
<1>1. PrInv => PrTypeOK
  BY PrInvTyped
<1>2. ASSUME CrInv PROVE CrTypeOK
  <2>1. \A kept \in crOnDisk :
          /\ {kept[1].current, kept[1].previous} \subseteq Identifiers \cup {NoRelease}
          /\ kept[1].highest \in CrReleases \cup {NoRelease} /\ kept[1].by \in 0..CrMaxRuns
    BY <1>2 DEF CrInv, CrTyped, Launchers
  <2>2. /\ \E kept \in crOnDisk : kept[1] = crLauncher
        /\ \A kept \in crOnDisk : kept[2] \subseteq crStored
    BY <1>2 DEF CrInv, OnDiskSound
  <2> QED
    BY <1>2, <2>1, <2>2 DEF CrInv, CrTyped, CrTypeOK, CrCommands
<1> QED
  BY <1>1, <1>2

(* What all of them are is inductive together.                               *)
ComputerInv ==
  /\ focus \in {"projects", "release", "live", "live alone", "files", "native", "native alone"}
  /\ PrInv /\ CrInv /\ LvInv /\ LfInv /\ NativeInv
  /\ focus = "native" => NsCounted(NsMaxGrants)
  /\ focus = "native alone" => NsCounted(3)

(* What a computer keeps of the service, and what works for it there, is of  *)
(* the types its code gives it: no command, request, instance or reservation *)
(* is ever of a number that was not given out, and every launcher on disk    *)
(* names releases that are stored.                                           *)
THEOREM ComputerTypeCorrect ==
  ASSUME CrOneJournal = TRUE, NsAtTheEdge = FALSE
  PROVE  ComputerSpec => []ComputerTypeOK
<1>1. ComputerInit => ComputerInv
  <2>1. ASSUME NsInit, NEW most \in Nat PROVE NsCounted(most)
    BY <2>1 DEF NsInit, NsCounted, Runs
  <2> QED
    BY <2>1, NativeAssumption, PrInitSound, CrInitSound, LvInitSound, LfInitSound, InitSound
       DEF ComputerInit, ComputerInv
<1>2. ASSUME ComputerInv, [ComputerNext]_<<focus, prVars, crVars, lvVars, lfVars, nsVars>>
      PROVE  ComputerInv'
  <2>1. (PrNext \/ UNCHANGED prVars) /\ (CrNext \/ UNCHANGED crVars)
        /\ (LvNext \/ UNCHANGED lvVars) /\ (LfNext \/ UNCHANGED lfVars) /\ focus' = focus
    BY <1>2 DEF ComputerNext
  <2>2. PrInv' /\ CrInv' /\ LvInv' /\ LfInv'
    BY <1>2, <2>1, PrStepKeeps, CrStepKeeps, LvStepKeeps, LfStepKeeps DEF ComputerInv
  <2>3. CASE focus = "native" /\ NsNext
    BY <1>2, <2>1, <2>2, <2>3, StepSound, NsNextKeepsCount DEF ComputerInv
  <2>4. CASE focus = "native alone" /\ AloneRequest!NsNext
    BY <1>2, <2>1, <2>2, <2>4, AloneStepSound, AloneNextKeepsCount DEF ComputerInv
  <2>5. CASE UNCHANGED nsVars
    <3>1. \A most : NsCounted(most)' <=> NsCounted(most)
      BY <2>5 DEF NsCounted, nsVars, Runs
    <3> QED
      BY <1>2, <2>1, <2>2, <2>5, <3>1, StutterSound DEF ComputerInv
  <2> QED
    BY <1>2, <2>3, <2>4, <2>5 DEF ComputerNext
<1>3. ComputerInv => ComputerTypeOK
  BY TypesOfCopies, LvInvGivesSound, LfInvGivesSound, CountGivesTypes DEF ComputerInv, ComputerTypeOK
<1> QED
  BY <1>1, <1>2, <1>3, PTL DEF ComputerSpec
=============================================================================
