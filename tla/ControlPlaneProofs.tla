------------------------- MODULE ControlPlaneProofs -------------------------
(***************************************************************************)
(* What clients are told, for any number of clients and requests, and any  *)
(* patience and startup timeout.                                           *)
(*                                                                         *)
(* The argument.  Requests are served in the order of their numbers, so    *)
(* the run at hand is never one of a younger request than the one that is  *)
(* served (InvInbox, InvRun).  An "ok" to a start is recorded once the run *)
(* has connected, which it never takes back, and one to a stop once the    *)
(* run has ended, after which only a younger start makes another (OkHolds, *)
(* ErrorHolds): so what was true when it was answered stays so, however    *)
(* late the answer is read.                                                *)
(*                                                                         *)
(* Behind that, the arguments of a start: joined, quoted and split again,  *)
(* for every list of texts.  Induction over the list keeps what the joined *)
(* text looks like from outside, white ends and a middle that is not, and  *)
(* what the loop of split_args has made of the middle (Joined).            *)
(*                                                                         *)
(* And the form: the list is read an argument at a time and taken an       *)
(* option at a time (ReadOn, TakeOn).  Gets says how far the list has been *)
(* read and that the configuration by then is the one the form asks for;   *)
(* every piece the backend writes carries that on, a text (GetsTexts), a   *)
(* device (ValidIsGood: what the backend has validated, parse_device_spec  *)
(* reads as the same device) or a number (GetsNumber: it is read as        *)
(* itself, or refused).  An empty text is lost on the way, and only the    *)
(* output directory may be one: its option then takes "--device" for one,  *)
(* and daqd refuses what is left.                                          *)
(***************************************************************************)
EXTENDS ControlPlane, WellFoundedInduction, TLAPS

Outcomes == {"none", "ok", "error", "timeout", "silence"}
Answers  == {"ok", "error", "timeout"}
Asked   == 1 .. Len(sent)

-----------------------------------------------------------------------------
(* The parts of the invariant.                                             *)

InvClients ==
  /\ sent \in Seq(Commands) /\ told \in Seq(Outcomes) /\ Len(told) = Len(sent)
  /\ pending \in [Clients -> 0 .. Len(sent)] /\ waited \in [Clients -> 0 .. Patience]
  /\ \A n \in Asked : told[n] = "none" => \E c \in Clients : pending[c] = n

\* Requests are served in the order in which they were sent.
InvInbox ==
  /\ inbox \in Seq(Nat) /\ serving \in 0 .. Len(sent)
  /\ \A i \in DOMAIN inbox : serving < inbox[i] /\ inbox[i] <= Len(sent)
  /\ \A i, j \in DOMAIN inbox : i < j => inbox[i] < inbox[j]

InvStatus ==
  /\ last_state \in States /\ published \in States /\ heard \in States \union {"none"}
  /\ news \in Seq(States) /\ Len(news) <= HWM
  /\ scene \in Scenes

\* A run belongs to a request that was taken, and to the one at hand while its
\* start waits; when the daemon is gone its last status is true.
InvRun ==
  /\ run \in [running : BOOLEAN, state : States, startup : {"none", "ok", "failed"}, of : Nat]
  /\ run.of <= serving
  /\ run.startup = "ok" => run.of \in connected
  /\ loop \in {"recv", "poll", "join", "look", "tell", "leave"} \union Over
  /\ loop = "poll" => serving \in Asked /\ sent[serving] = "start" /\ run.of = serving
  /\ loop = "join" => serving \in Asked /\ sent[serving] \in {"stop", "shutdown"}
  /\ loop = "gone" => ~run.running /\ published = run.state
  /\ age \in 0 .. Deadline /\ (~scene.late => age <= ConnectTimeout)

\* What an answer says stays true.
OkHolds(n) ==
  /\ n <= serving
  /\ sent[n] = "start" => n \in connected
  /\ sent[n] \in {"stop", "shutdown"} => ~run.running \/ run.of >= n
InvOk == \A n \in Asked : told[n] = "ok" => OkHolds(n)

ErrorHolds(n) ==
  /\ n <= serving
  /\ sent[n] = "start" /\ run.of = n => ~run.running \/ run.startup = "failed"
InvError == \A n \in Asked : told[n] = "error" => ErrorHolds(n)

\* Only in a late scene, or when the seconds do not fit, has a start timed out.
Punctual == ~scene.late /\ ConnectTimeout < MaxU32
InvLate  == Punctual => \A n \in Asked : told[n] # "timeout"

IInv == InvClients /\ InvInbox /\ InvStatus /\ InvRun /\ InvOk /\ InvError /\ InvLate

-----------------------------------------------------------------------------

\* The seconds start waits are one more than the run's, or none.
LEMMA DeadlineIs ==
  /\ ConnectTimeout \in Nat /\ Deadline \in Nat
  /\ ConnectTimeout < MaxU32 => Deadline = ConnectTimeout + 1
BY PlaneAssumption, RequestAssumption DEF Deadline

\* Nobody has asked for anything.
LEMMA IInvInit == ASSUME Init PROVE IInv
<1> USE PlaneAssumption
<1>1. /\ sent = <<>> /\ told = <<>> /\ inbox = <<>> /\ news = <<>> /\ serving = 0 /\ age = 0
      /\ pending = [c \in Clients |-> 0] /\ waited = [c \in Clients |-> 0] /\ connected = {}
      /\ loop = "recv" /\ run = NoRun /\ last_state = "idle" /\ published = "idle" /\ heard = "none"
      /\ scene \in Scenes
  BY DEF Init
<1>2. Len(sent) = 0 /\ Len(told) = 0 /\ Len(inbox) = 0 /\ Len(news) = 0 /\ Asked = {}
  BY <1>1 DEF Asked
<1>3. InvClients
  BY <1>1, <1>2 DEF InvClients
<1>4. InvInbox
  BY <1>1, <1>2 DEF InvInbox
<1>5. InvStatus
  BY <1>1, <1>2 DEF InvStatus, States
<1>6. InvRun
  BY <1>1, DeadlineIs DEF InvRun, NoRun, States, Over
<1>7. InvOk /\ InvError /\ InvLate
  BY <1>2 DEF InvOk, InvError, InvLate
<1>8. QED BY <1>3, <1>4, <1>5, <1>6, <1>7 DEF IInv

-----------------------------------------------------------------------------
(* Lemmas about the steps.                                                 *)

\* An answer is the outcome of its request, unless that has one.
LEMMA Answered ==
  ASSUME InvClients, NEW n \in Asked, NEW text \in Answers, Answer(n, text)
  PROVE  /\ InvClients' /\ sent' = sent
         /\ \A m \in Asked : told'[m] = told[m] \/ (m = n /\ told'[m] = text)
<1>1. sent' = sent /\ told' = [told EXCEPT ![n] = IF @ = "none" THEN text ELSE @]
  BY DEF Answer
<1>2. told \in Seq(Outcomes) /\ Len(told) = Len(sent) /\ sent \in Seq(Commands)
  BY DEF InvClients
<1>3. /\ told' \in Seq(Outcomes) /\ Len(told') = Len(told)
      /\ \A m \in Asked : m # n => told'[m] = told[m]
      /\ told'[n] = IF told[n] = "none" THEN text ELSE told[n]
  <2>1. DOMAIN told = Asked
    BY <1>2 DEF Asked
  <2>2. (IF told[n] = "none" THEN text ELSE told[n]) \in Outcomes
    <3>1. told[n] \in Outcomes
      BY <1>2, <2>1
    <3>2. text \in Outcomes
      BY DEF Outcomes, Answers
    <3>3. QED BY <3>1, <3>2
  <2>3. told' = [told EXCEPT ![n] = IF told[n] = "none" THEN text ELSE told[n]]
    BY <1>1
  <2> DEFINE word == IF told[n] = "none" THEN text ELSE told[n]
  <2> HIDE DEF word
  <2>4. told' = [told EXCEPT ![n] = word] /\ word \in Outcomes
    BY <2>2, <2>3 DEF word
  <2>5. told' \in Seq(Outcomes) /\ Len(told') = Len(told) /\ \A m \in Asked : m # n => told'[m] = told[m]
    BY <2>1, <2>4, <1>2
  <2>6. told'[n] = word
    BY <2>1, <2>4
  <2>7. QED BY <2>5, <2>6 DEF word
<1>4. pending' \in [Clients -> 0 .. Len(sent)] /\ waited' \in [Clients -> 0 .. Patience]
  <2>1. pending \in [Clients -> 0 .. Len(sent)] /\ waited \in [Clients -> 0 .. Patience]
    BY DEF InvClients
  <2>2. 0 \in 0 .. Patience /\ 0 \in 0 .. Len(sent)
    BY PlaneAssumption, <1>2
  <2>3. /\ pending' = [c \in Clients |-> IF pending[c] = n THEN 0 ELSE pending[c]]
        /\ waited' = [c \in Clients |-> IF pending[c] = n THEN 0 ELSE waited[c]]
    BY DEF Answer
  <2>4. QED BY <2>1, <2>2, <2>3
<1>5. \A m \in Asked : told'[m] = "none" => \E c \in Clients : pending'[c] = m
  <2> SUFFICES ASSUME NEW m \in Asked, told'[m] = "none" PROVE \E c \in Clients : pending'[c] = m
    OBVIOUS
  <2>1. m # n /\ told[m] = "none"
    BY <1>3 DEF Answers
  <2>2. PICK c \in Clients : pending[c] = m
    BY <2>1 DEF InvClients
  <2>3. pending'[c] = m
    BY <2>1, <2>2 DEF Answer
  <2>4. QED BY <2>3
<1>6. InvClients'
  BY <1>1, <1>2, <1>3, <1>4, <1>5 DEF InvClients, Asked
<1>7. QED BY <1>1, <1>3, <1>6

\* Taking the oldest request off the queue keeps those that wait in order.
LEMMA Taken ==
  ASSUME IInv, NEW command, Take(command), UNCHANGED sent
  PROVE  /\ InvInbox' /\ serving' \in Asked /\ sent[serving'] = command /\ serving' = Head(inbox)
         /\ serving < serving' /\ serving \in Nat /\ serving' \in Nat /\ loop = "recv"
         /\ UNCHANGED <<connected, last_state, published, watching, news, heard, scene>>
<1>1. /\ inbox # <<>> /\ sent[Head(inbox)] = command /\ inbox' = Tail(inbox) /\ serving' = Head(inbox)
      /\ loop = "recv"
      /\ UNCHANGED <<connected, last_state, published, watching, news, heard, scene>>
  BY DEF Take, Receiving, status, watch
<1>2. /\ inbox \in Seq(Nat) /\ serving \in 0 .. Len(sent) /\ sent \in Seq(Commands)
      /\ \A i \in DOMAIN inbox : serving < inbox[i] /\ inbox[i] <= Len(sent)
      /\ \A i, j \in DOMAIN inbox : i < j => inbox[i] < inbox[j]
  BY DEF IInv, InvInbox, InvClients
<1>3. 1 \in DOMAIN inbox /\ Head(inbox) = inbox[1] /\ inbox[1] \in Nat
  BY <1>1, <1>2
<1>4. /\ Tail(inbox) \in Seq(Nat)
      /\ \A i \in DOMAIN Tail(inbox) : i + 1 \in DOMAIN inbox /\ 1 < i + 1 /\ Tail(inbox)[i] = inbox[i + 1] /\ i \in Nat
  BY <1>1, <1>2
<1>5. serving < inbox[1] /\ inbox[1] <= Len(sent) /\ Len(sent) \in Nat /\ serving \in Nat
  BY <1>2, <1>3
<1>6. \A i \in DOMAIN Tail(inbox) : inbox[1] < Tail(inbox)[i] /\ Tail(inbox)[i] <= Len(sent)
  BY <1>2, <1>3, <1>4
<1>7. \A i, j \in DOMAIN Tail(inbox) : i < j => Tail(inbox)[i] < Tail(inbox)[j]
  <2> SUFFICES ASSUME NEW i \in DOMAIN Tail(inbox), NEW j \in DOMAIN Tail(inbox), i < j
               PROVE  Tail(inbox)[i] < Tail(inbox)[j]
    OBVIOUS
  <2>1. i + 1 < j + 1
    BY <1>4
  <2>2. QED BY <2>1, <1>2, <1>4
<1>8. InvInbox'
  BY <1>1, <1>3, <1>4, <1>5, <1>6, <1>7 DEF InvInbox
<1>9. QED BY <1>1, <1>3, <1>5, <1>8 DEF Asked

\* An answer that was true stays true if no run of an earlier request is
\* started, or saved from its failure.
Later ==
  /\ serving' \in Nat /\ serving <= serving' /\ connected \subseteq connected' /\ sent' = sent /\ scene' = scene
  /\ run'.of = run.of \/ (run'.of \in Nat /\ run'.of > serving)
  /\ run'.of = run.of /\ run'.running => run.running /\ (run.startup = "failed" => run'.startup = "failed")

\* What was answered before stays true while the run goes on, and when another starts.
LEMMA StayTrue ==
  ASSUME IInv, Later, NEW m \in Asked
  PROVE  (OkHolds(m) => OkHolds(m)') /\ (ErrorHolds(m) => ErrorHolds(m)')
<1>1. serving \in Nat /\ m \in Nat
  <2>1. m \in Nat
    BY DEF Asked
  <2>2. serving \in Nat
    BY DEF IInv, InvInbox
  <2>3. QED BY <2>1, <2>2
<1>2. run.of \in Nat
  BY DEF IInv, InvRun
<1>3. serving' \in Nat /\ serving <= serving' /\ (run'.of = run.of \/ (run'.of \in Nat /\ run'.of > serving))
  BY DEF Later
<1>4. m <= serving => m <= serving' /\ (run'.of # run.of => run'.of >= m /\ run'.of # m)
  BY <1>1, <1>2, <1>3
<1>5. OkHolds(m) => OkHolds(m)'
  BY <1>4 DEF OkHolds, Later
<1>6. ErrorHolds(m) => ErrorHolds(m)'
  BY <1>4 DEF ErrorHolds, Later
<1>7. QED BY <1>5, <1>6

\* What is told is what was told before, or true now.
TellsTruth(m) ==
  \/ told'[m] = told[m] \/ told'[m] = "silence"
  \/ told'[m] = "ok" /\ OkHolds(m)'
  \/ told'[m] = "error" /\ ErrorHolds(m)'
  \/ told'[m] = "timeout" /\ ~Punctual

\* An answer keeps all the others as they are.
LEMMA AnswersStay ==
  ASSUME IInv, Later, \A m \in Asked : TellsTruth(m)
  PROVE  InvOk' /\ InvError' /\ InvLate'
<1>1. Asked' = Asked
  BY DEF Asked, Later
<1>2. \A m \in Asked : (OkHolds(m) => OkHolds(m)') /\ (ErrorHolds(m) => ErrorHolds(m)')
  BY StayTrue
<1>3. \A m \in Asked : (told[m] = "ok" => OkHolds(m)) /\ (told[m] = "error" => ErrorHolds(m))
  BY DEF IInv, InvOk, InvError
<1>4. \A m \in Asked : (told'[m] = "ok" => OkHolds(m)') /\ (told'[m] = "error" => ErrorHolds(m)')
  BY <1>2, <1>3 DEF TellsTruth
<1>5. Punctual' = Punctual
  BY DEF Punctual, Later
<1>6. Punctual => \A m \in Asked : told'[m] # "timeout"
  BY DEF TellsTruth, IInv, InvLate
<1>7. QED BY <1>1, <1>4, <1>5, <1>6 DEF InvOk, InvError, InvLate

\* A step that leaves the run as it is.
LEMMA SameRunLater ==
  ASSUME IInv, serving' \in Nat, serving <= serving', UNCHANGED <<run, connected, sent, scene>>
  PROVE  Later
BY DEF Later

\* A request is the youngest of all.
LEMMA SendKeeps ==
  ASSUME IInv, NEW c \in Clients, NEW command \in Commands, Send(c, command)
  PROVE  IInv'
<1>1. /\ sent' = Append(sent, command) /\ told' = Append(told, "none")
      /\ pending' = [pending EXCEPT ![c] = Len(sent) + 1] /\ pending[c] = 0
      /\ inbox' = Append(inbox, Len(sent) + 1)
      /\ UNCHANGED <<waited, loop, serving, run, age, connected,
                     last_state, published, news, heard, scene>>
  BY DEF Send, status, watch
<1>2. /\ sent \in Seq(Commands) /\ told \in Seq(Outcomes) /\ Len(told) = Len(sent) /\ Len(sent) \in Nat
      /\ pending \in [Clients -> 0 .. Len(sent)] /\ waited \in [Clients -> 0 .. Patience]
  BY DEF IInv, InvClients
<1>3. /\ sent' \in Seq(Commands) /\ Len(sent') = Len(sent) + 1
      /\ \A n \in Asked : sent'[n] = sent[n] /\ told'[n] = told[n] /\ n \in Asked' /\ n \in Nat
      /\ Asked' = Asked \union {Len(sent) + 1}
  BY <1>1, <1>2 DEF Asked
<1>4. told'[Len(sent) + 1] = "none" /\ told' \in Seq(Outcomes) /\ Len(told') = Len(sent')
  BY <1>1, <1>2 DEF Outcomes
<1>5. pending' \in [Clients -> 0 .. Len(sent')]
  BY <1>1, <1>2, <1>3
<1>6. \A n \in Asked' : told'[n] = "none" => \E d \in Clients : pending'[d] = n
  <2> SUFFICES ASSUME NEW n \in Asked', told'[n] = "none" PROVE \E d \in Clients : pending'[d] = n
    OBVIOUS
  <2>1. CASE n = Len(sent) + 1
    BY <2>1, <1>1, <1>2
  <2>2. CASE n \in Asked
    <3>1. PICK d \in Clients : pending[d] = n
      BY <2>2, <1>3 DEF IInv, InvClients
    <3>2. d # c
      BY <3>1, <2>2, <1>1 DEF Asked
    <3>3. QED BY <3>1, <3>2, <1>1, <1>2
  <2>3. QED BY <2>1, <2>2, <1>3
<1>7. InvClients'
  BY <1>1, <1>2, <1>3, <1>4, <1>5, <1>6 DEF InvClients
<1>8. InvInbox'
  <2>1. /\ inbox \in Seq(Nat) /\ serving \in 0 .. Len(sent)
        /\ \A i \in DOMAIN inbox : serving < inbox[i] /\ inbox[i] <= Len(sent)
        /\ \A i, j \in DOMAIN inbox : i < j => inbox[i] < inbox[j]
    BY DEF IInv, InvInbox
  <2>2. /\ inbox' \in Seq(Nat)
        /\ \A i \in DOMAIN inbox' : i \in Nat /\ (i \in DOMAIN inbox \/ i = Len(inbox) + 1)
        /\ \A i \in DOMAIN inbox : inbox'[i] = inbox[i] /\ i <= Len(inbox) /\ inbox[i] \in Nat
        /\ inbox'[Len(inbox) + 1] = Len(sent) + 1 /\ Len(inbox) \in Nat
    BY <2>1, <1>1, <1>2
  <2> DEFINE top == Len(sent) + 1
             end == Len(inbox) + 1
  <2>3. top \in Nat /\ serving < top /\ top <= Len(sent') /\ \A i \in DOMAIN inbox : inbox[i] < top /\ inbox[i] <= Len(sent')
    BY <2>1, <2>2, <1>2, <1>3
  <2>4. end \in Nat /\ inbox'[end] = top /\ \A i \in DOMAIN inbox : i < end /\ i \in Nat
    BY <2>2
  <2>7. \A i \in DOMAIN inbox' : i \in DOMAIN inbox \/ i = end
    BY <2>2
  <2> HIDE DEF top, end
  <2>8. \A i \in DOMAIN inbox' : serving < inbox'[i] /\ inbox'[i] <= Len(sent')
    BY <2>1, <2>2, <2>3, <2>4, <2>7
  <2>9. \A i, j \in DOMAIN inbox' : i < j => inbox'[i] < inbox'[j]
    <3> SUFFICES ASSUME NEW i \in DOMAIN inbox', NEW j \in DOMAIN inbox', i < j PROVE inbox'[i] < inbox'[j]
      OBVIOUS
    <3>1. CASE i \in DOMAIN inbox /\ j \in DOMAIN inbox
      BY <3>1, <2>1, <2>2
    <3>2. CASE i \in DOMAIN inbox /\ j = end
      BY <3>2, <2>2, <2>3, <2>4
    <3>3. i # end
      BY <2>4, <2>7
    <3>4. QED BY <3>1, <3>2, <3>3, <2>7
  <2>5. serving' \in 0 .. Len(sent')
    BY <2>1, <1>1, <1>2, <1>3
  <2>6. QED BY <2>2, <2>5, <2>8, <2>9, <1>1 DEF InvInbox
<1>9. InvStatus'
  BY <1>1 DEF IInv, InvStatus
<1>10. InvRun'
  BY <1>1, <1>3 DEF IInv, InvRun
<1>11. InvOk' /\ InvError'
  <2> SUFFICES ASSUME NEW n \in Asked', told'[n] # "none"
               PROVE  (told'[n] = "ok" => OkHolds(n)') /\ (told'[n] = "error" => ErrorHolds(n)')
    BY DEF InvOk, InvError
  <2>1. n \in Asked /\ told'[n] = told[n] /\ sent'[n] = sent[n]
    BY <1>3, <1>4
  <2>2. (told[n] = "ok" => OkHolds(n)) /\ (told[n] = "error" => ErrorHolds(n))
    BY <2>1 DEF IInv, InvOk, InvError
  <2>3. QED BY <2>1, <2>2, <1>1 DEF OkHolds, ErrorHolds
<1>12. InvLate'
  <2> SUFFICES ASSUME Punctual, NEW n \in Asked' PROVE told'[n] # "timeout"
    BY <1>1 DEF InvLate, Punctual
  <2>1. told'[n] = "none" \/ (n \in Asked /\ told'[n] = told[n])
    BY <1>3, <1>4
  <2>2. QED BY <2>1 DEF IInv, InvLate
<1>13. QED BY <1>7, <1>8, <1>9, <1>10, <1>11, <1>12 DEF IInv

\* The elements of a part of a sequence.
LEMMA PartAt ==
  ASSUME NEW s \in Seq(Nat), NEW m \in Nat \ {0}, NEW n \in Nat, m <= n + 1, n <= Len(s),
         NEW i \in 1 .. n - m + 1
  PROVE  SubSeq(s, m, n)[i] = s[m + i - 1]
<1>1. i + m - 1 = m + i - 1 /\ i \in 1 .. Len(SubSeq(s, m, n))
  OBVIOUS
<1>2. QED BY <1>1

\* Removing a request leaves the others in their order.
Ordered(s) == \A i, j \in DOMAIN s : i < j => s[i] < s[j]
\* A queue in order stays in order without one of its requests.
LEMMA Removed ==
  ASSUME NEW s \in Seq(Nat), NEW k \in DOMAIN s, Ordered(s)
  PROVE  /\ RemoveAt(s, k) \in Seq(Nat) /\ Ordered(RemoveAt(s, k))
         /\ \A i \in DOMAIN RemoveAt(s, k) : \E j \in DOMAIN s : RemoveAt(s, k)[i] = s[j]
<1> DEFINE a == SubSeq(s, 1, k - 1)
           b == SubSeq(s, k + 1, Len(s))
           r == RemoveAt(s, k)
<1>1. k \in Nat /\ k >= 1 /\ k <= Len(s) /\ Len(s) \in Nat
  OBVIOUS
<1>2. a \in Seq(Nat) /\ Len(a) + 1 = k /\ \A i \in 1 .. Len(a) : a[i] = s[i]
  BY <1>1
<1>3. b \in Seq(Nat) /\ Len(b) + k = Len(s) /\ \A i \in 1 .. Len(b) : b[i] = s[i + k]
  <2>1. k + 1 \in 1 .. Len(s) + 1 /\ (k + 1) - 1 <= Len(s)
    BY <1>1
  <2>2. b \in Seq(Nat) /\ Len(b) = Len(s) - (k + 1) + 1
    BY <2>1, <1>1
  <2> HIDE DEF b
  <2>4. Len(s) - (k + 1) + 1 = Len(s) - k /\ (Len(s) - k) + k = Len(s)
    BY <1>1
  <2>5. Len(b) + k = Len(s)
    BY <2>2, <2>4
  <2>6. ASSUME NEW i \in 1 .. Len(b) PROVE b[i] = s[i + k]
    <3>1. (k + 1) + i - 1 = i + k /\ i \in 1 .. Len(s) - (k + 1) + 1
      BY <1>1, <2>2
    <3>2. k + 1 \in Nat \ {0} /\ k + 1 <= Len(s) + 1
      BY <1>1
    <3> DEFINE m == k + 1
               n == Len(s)
    <3>3. m \in Nat \ {0} /\ n \in Nat /\ m <= n + 1 /\ n <= Len(s) /\ i \in 1 .. n - m + 1
      BY <3>1, <3>2, <1>1
    <3> HIDE DEF m, n
    <3>4. SubSeq(s, m, n)[i] = s[m + i - 1]
      BY <3>3, PartAt
    <3>5. QED BY <3>1, <3>4 DEF b, m, n
  <2>7. QED BY <2>2, <2>5, <2>6
<1>4. r = a \o b
  BY DEF RemoveAt
<1> HIDE DEF a, b, r
<1>5. r \in Seq(Nat) /\ Len(r) = Len(a) + Len(b)
  BY <1>2, <1>3, <1>4
<1>6. \A i \in DOMAIN r : i \in Nat /\ i >= 1 /\ i + 1 <= Len(s)
  <2>1. DOMAIN r = 1 .. Len(r) /\ Len(r) \in Nat
    BY <1>5
  <2>2. Len(r) + 1 = Len(s)
    BY <1>1, <1>2, <1>3, <1>5
  <2>3. QED BY <2>1, <2>2
<1>7. ASSUME NEW i \in DOMAIN r PROVE r[i] = IF i < k THEN s[i] ELSE s[i + 1]
  <2>1. CASE i < k
    <3>1. i \in 1 .. Len(a)
      BY <2>1, <1>1, <1>2, <1>6
    <3>2. r[i] = a[i]
      BY <3>1, <1>2, <1>3, <1>4
    <3>3. QED BY <3>1, <3>2, <2>1, <1>2
  <2>2. CASE ~(i < k)
    <3>1. i - Len(a) \in 1 .. Len(b) /\ i - Len(a) + k = i + 1
      BY <2>2, <1>1, <1>2, <1>3, <1>6
    <3>2. r[i] = b[i - Len(a)]
      BY <3>1, <1>2, <1>3, <1>4, <1>5, <1>6
    <3>3. QED BY <3>1, <3>2, <2>2, <1>3
  <2>3. QED BY <2>1, <2>2
<1>8. \A i \in DOMAIN r : \E j \in DOMAIN s : r[i] = s[j]
  <2> SUFFICES ASSUME NEW i \in DOMAIN r PROVE \E j \in DOMAIN s : r[i] = s[j]
    OBVIOUS
  <2>1. i \in DOMAIN s /\ i + 1 \in DOMAIN s
    BY <1>6
  <2>2. QED BY <2>1, <1>7
<1>9. Ordered(r)
  <2> SUFFICES ASSUME NEW i \in DOMAIN r, NEW j \in DOMAIN r, i < j PROVE r[i] < r[j]
    BY DEF Ordered
  <2>1. i \in DOMAIN s /\ i + 1 \in DOMAIN s /\ j \in DOMAIN s /\ j + 1 \in DOMAIN s /\ i \in Nat /\ j \in Nat
    BY <1>6
  <2>2. /\ r[i] = IF i < k THEN s[i] ELSE s[i + 1]
        /\ r[j] = IF j < k THEN s[j] ELSE s[j + 1]
    BY <1>7
  <2>3. i + 1 < j + 1 /\ i < j + 1 /\ (j < k => i < k)
    BY <2>1, <1>1
  <2>4. s[i] < s[j] /\ s[i + 1] < s[j + 1] /\ s[i] < s[j + 1]
    BY <2>1, <2>3 DEF Ordered
  <2>5. QED BY <2>2, <2>3, <2>4
<1>10. QED BY <1>5, <1>8, <1>9 DEF r

\* A client that gives up takes its request with it, unless the daemon has it.
LEMMA GiveUpKeeps ==
  ASSUME IInv, NEW c \in Clients, GiveUp(c)
  PROVE  IInv'
<1> DEFINE n == pending[c]
<1>1. /\ n # 0 /\ told' = [told EXCEPT ![n] = "silence"]
      /\ pending' = [pending EXCEPT ![c] = 0] /\ waited' = [waited EXCEPT ![c] = 0]
      /\ inbox' = inbox \/ \E i \in DOMAIN inbox : inbox' = RemoveAt(inbox, i)
      /\ UNCHANGED <<sent, loop, serving, run, age, connected, last_state, published, news, heard, scene>>
  BY DEF GiveUp, status, watch
<1>2. /\ sent \in Seq(Commands) /\ told \in Seq(Outcomes) /\ Len(told) = Len(sent) /\ Len(sent) \in Nat
      /\ pending \in [Clients -> 0 .. Len(sent)] /\ waited \in [Clients -> 0 .. Patience]
  BY DEF IInv, InvClients
<1>3. n \in Asked
  BY <1>1, <1>2 DEF Asked
<1> HIDE DEF n
<1>4. /\ told' \in Seq(Outcomes) /\ Len(told') = Len(sent) /\ told'[n] = "silence"
      /\ \A m \in Asked : m # n => told'[m] = told[m]
  BY <1>1, <1>2, <1>3 DEF Outcomes, Asked
<1>5. pending' \in [Clients -> 0 .. Len(sent)] /\ waited' \in [Clients -> 0 .. Patience]
  <2>1. 0 \in 0 .. Patience /\ 0 \in 0 .. Len(sent)
    BY <1>2, PlaneAssumption
  <2>2. QED BY <2>1, <1>1, <1>2
<1>6. \A m \in Asked : told'[m] = "none" => \E d \in Clients : pending'[d] = m
  <2> SUFFICES ASSUME NEW m \in Asked, told'[m] = "none" PROVE \E d \in Clients : pending'[d] = m
    OBVIOUS
  <2>1. m # n /\ told[m] = "none"
    BY <1>4
  <2>2. PICK d \in Clients : pending[d] = m
    BY <2>1 DEF IInv, InvClients
  <2>3. d # c
    BY <2>1, <2>2 DEF n
  <2>4. QED BY <2>2, <2>3, <1>1, <1>2
<1>7. InvClients'
  BY <1>1, <1>2, <1>4, <1>5, <1>6 DEF InvClients, Asked
<1>8. InvInbox'
  <2>1. /\ inbox \in Seq(Nat) /\ serving \in 0 .. Len(sent) /\ Ordered(inbox)
        /\ \A i \in DOMAIN inbox : serving < inbox[i] /\ inbox[i] <= Len(sent)
    BY DEF IInv, InvInbox, Ordered
  <2>2. /\ inbox' \in Seq(Nat) /\ Ordered(inbox')
        /\ \A i \in DOMAIN inbox' : \E j \in DOMAIN inbox : inbox'[i] = inbox[j]
    <3>1. CASE inbox' = inbox
      BY Zenon, <3>1, <2>1
    <3>2. CASE \E i \in DOMAIN inbox : inbox' = RemoveAt(inbox, i)
      <4>1. PICK i \in DOMAIN inbox : inbox' = RemoveAt(inbox, i)
        BY <3>2
      <4>2. /\ RemoveAt(inbox, i) \in Seq(Nat) /\ Ordered(RemoveAt(inbox, i))
            /\ \A j \in DOMAIN RemoveAt(inbox, i) : \E l \in DOMAIN inbox : RemoveAt(inbox, i)[j] = inbox[l]
        BY Zenon, <2>1, Removed
      <4>3. QED BY Zenon, <4>1, <4>2
    <3>3. QED BY <3>1, <3>2, <1>1
  <2>3. \A i \in DOMAIN inbox' : serving < inbox'[i] /\ inbox'[i] <= Len(sent)
    BY Zenon, <2>1, <2>2
  <2>4. QED BY <2>1, <2>2, <2>3, <1>1 DEF InvInbox, Ordered
<1>9. InvStatus' /\ InvRun'
  BY <1>1 DEF IInv, InvStatus, InvRun, Asked
<1>10. InvOk' /\ InvError' /\ InvLate'
  <2>1. serving \in Nat
    BY DEF IInv, InvInbox
  <2>2. Later
    BY <2>1, <1>1, SameRunLater
  <2>3. \A m \in Asked : TellsTruth(m)
    BY <1>4 DEF TellsTruth
  <2>4. QED BY Zenon, <2>2, <2>3, AnswersStay
<1>11. QED BY <1>7, <1>8, <1>9, <1>10 DEF IInv

-----------------------------------------------------------------------------
(* The command loop takes a request.                                       *)

\* The parts of a run.
LEMMA RunTypes ==
  ASSUME IInv
  PROVE  /\ run.running \in BOOLEAN /\ run.state \in States /\ run.startup \in {"none", "ok", "failed"}
         /\ run.of \in Nat /\ run.of <= serving /\ serving \in Nat
         /\ run = [running |-> run.running, state |-> run.state, startup |-> run.startup, of |-> run.of]
BY DEF IInv, InvRun, InvInbox

\* The requests that are answered at once, which leave the run as it is.
LEMMA AtOnceKeeps ==
  ASSUME IInv, ServeStatus \/ Refuse \/ ServeShutdown
  PROVE  IInv'
<1>1. PICK command \in Commands, text \in {"ok", "error"} :
        /\ Take(command) /\ Answer(Head(inbox), text)
        /\ text = "ok" => command # "start" /\ (command = "stop" \/ command = "shutdown" => ~run.running)
  BY DEF ServeStatus, Refuse, ServeShutdown, Commands
<1>2. loop' = "look" /\ UNCHANGED <<run, age>>
  BY DEF ServeStatus, Refuse, ServeShutdown
<1>3. sent' = sent
  BY <1>1 DEF Answer
<1>4. /\ InvInbox' /\ serving' \in Asked /\ sent[serving'] = command /\ serving' = Head(inbox)
      /\ serving < serving' /\ serving \in Nat /\ serving' \in Nat
      /\ UNCHANGED <<connected, last_state, published, watching, news, heard, scene>>
  BY <1>1, <1>3, Taken
<1>5. InvClients /\ Answer(serving', text) /\ text \in Answers
  BY <1>1, <1>4 DEF IInv, Answers
<1>6. /\ InvClients'
      /\ \A m \in Asked : told'[m] = told[m] \/ (m = serving' /\ told'[m] = text)
  BY <1>1, <1>4, <1>5, Answered
<1>7. run.of \in Nat /\ run.of <= serving
  BY RunTypes
<1>8. InvStatus'
  BY <1>4 DEF IInv, InvStatus
<1>9. InvRun'
  BY <1>2, <1>4, <1>7 DEF IInv, InvRun
<1>10. InvOk' /\ InvError' /\ InvLate'
  <2>1. Later
    BY <1>2, <1>3, <1>4, SameRunLater
  <2>2. PICK n \in Asked : n = serving'
    BY <1>4
  <2>3. text = "ok" => OkHolds(n)'
    BY <2>2, <1>1, <1>2, <1>3, <1>4 DEF OkHolds
  <2>4. text = "error" => ErrorHolds(n)'
    BY <2>2, <1>2, <1>4, <1>7 DEF ErrorHolds
  <2>5. ASSUME NEW m \in Asked PROVE TellsTruth(m)
    <3>1. CASE told'[m] = told[m]
      BY <3>1 DEF TellsTruth
    <3>2. CASE m = n /\ told'[m] = "ok" /\ text = "ok"
      BY <3>2, <2>3 DEF TellsTruth
    <3>3. CASE m = n /\ told'[m] = "error" /\ text = "error"
      BY <3>3, <2>4 DEF TellsTruth
    <3>4. QED BY <3>1, <3>2, <3>3, <2>2, <1>1, <1>6
  <2>6. QED BY Zenon, <2>1, <2>5, AnswersStay
<1>11. QED BY <1>4, <1>6, <1>8, <1>9, <1>10 DEF IInv

\* A start that is accepted, or ends the process, and a stop of a run.
LEMMA WorkKeeps ==
  ASSUME IInv, ServeStart \/ AskForHelp \/ ServeHalt
  PROVE  IInv'
<1>1. PICK command \in Commands : Take(command) /\ (command = "start" \/ ServeHalt)
  BY DEF ServeStart, AskForHelp, ServeHalt, Commands
<1>2. UNCHANGED <<clients, age>>
  BY DEF ServeStart, AskForHelp, ServeHalt
<1>3. UNCHANGED <<sent, told, pending, waited>>
  BY <1>2 DEF clients
<1>4. /\ InvInbox' /\ serving' \in Asked /\ sent[serving'] = command /\ serving' = Head(inbox)
      /\ serving < serving' /\ serving \in Nat /\ serving' \in Nat
      /\ UNCHANGED <<connected, last_state, published, watching, news, heard, scene>>
  BY <1>1, <1>3, Taken
<1>5. /\ run.running \in BOOLEAN /\ run.state \in States /\ run.startup \in {"none", "ok", "failed"}
      /\ run.of \in Nat /\ run.of <= serving
      /\ run = [running |-> run.running, state |-> run.state, startup |-> run.startup, of |-> run.of]
      /\ run.startup = "ok" => run.of \in connected
  BY RunTypes DEF IInv, InvRun
<1>6. InvRun' /\ Later
  <2>1. CASE ServeStart
    <3>1. /\ run' = [running |-> TRUE, state |-> "running", startup |-> "none", of |-> Head(inbox)]
          /\ loop' = "poll" /\ Take("start")
      BY <2>1 DEF ServeStart
    <3>2. sent[serving'] = "start"
      BY <3>1, <1>3, Taken
    <3>3. InvRun'
      BY <3>1, <3>2, <1>2, <1>3, <1>4 DEF InvRun, IInv, States, Asked
    <3>4. Later
      BY <3>1, <1>3, <1>4, <1>5 DEF Later
    <3>5. QED BY <3>3, <3>4
  <2>2. CASE AskForHelp
    <3>1. run' = [run EXCEPT !.running = FALSE] /\ loop' = "exited"
      BY <2>2 DEF AskForHelp
    <3>2. /\ run' \in [running : BOOLEAN, state : States, startup : {"none", "ok", "failed"}, of : Nat]
          /\ run'.of = run.of /\ run'.startup = run.startup /\ run'.running = FALSE
      BY <3>1, <1>5
    <3>3. InvRun'
      BY <3>1, <3>2, <1>2, <1>4, <1>5 DEF InvRun, IInv, Over
    <3>4. Later
      BY <3>2, <1>3, <1>4 DEF Later
    <3>5. QED BY <3>3, <3>4
  <2>3. CASE ServeHalt
    <3>1. run' = [run EXCEPT !.state = "stopping"] /\ loop' = "join" /\ (Take("stop") \/ Take("shutdown"))
      BY <2>3 DEF ServeHalt
    <3>2. /\ run' \in [running : BOOLEAN, state : States, startup : {"none", "ok", "failed"}, of : Nat]
          /\ run'.of = run.of /\ run'.startup = run.startup /\ run'.running = run.running
      BY <3>1, <1>5 DEF States
    <3>3. sent[serving'] \in {"stop", "shutdown"}
      BY <3>1, <1>3, Taken
    <3>4. InvRun'
      BY <3>1, <3>2, <3>3, <1>2, <1>3, <1>4, <1>5 DEF InvRun, IInv, Asked
    <3>5. Later
      BY <3>2, <1>3, <1>4 DEF Later
    <3>6. QED BY <3>4, <3>5
  <2>4. QED BY <2>1, <2>2, <2>3
<1>7. InvClients' /\ InvStatus'
  BY <1>3, <1>4 DEF IInv, InvClients, InvStatus, Asked
<1>8. InvOk' /\ InvError' /\ InvLate'
  <2>1. \A m \in Asked : TellsTruth(m)
    BY <1>3 DEF TellsTruth
  <2>2. QED BY Zenon, <2>1, <1>6, AnswersStay
<1>9. QED BY <1>4, <1>6, <1>7, <1>8 DEF IInv

\* The request at hand is answered: a start when it has waited, a stop or a
\* shutdown when the run has ended.
LEMMA AnswerKeeps ==
  ASSUME IInv, PollStartup \/ HaltJoined
  PROVE  IInv'
<1>1. PICK text \in Answers :
        /\ Answer(serving, text)
        /\ PollStartup => \/ age < Deadline /\ Decided /\ text = Verdict
                          \/ age >= Deadline /\ text = "timeout"
        /\ ~PollStartup => text = "ok"
  BY DEF PollStartup, HaltJoined, Verdict, Answers
<1>2. /\ loop' = "look" /\ (age' = 0 \/ age' = age) /\ (loop = "poll" \/ (loop = "join" /\ ~run.running))
      /\ UNCHANGED <<inbox, serving, run, connected, last_state, published, news, heard, scene>>
  BY DEF PollStartup, HaltJoined, status, watch
<1>3. serving \in Asked /\ serving \in Nat
  BY <1>2 DEF IInv, InvRun, Asked
<1>4. /\ InvClients' /\ sent' = sent
      /\ \A m \in Asked : told'[m] = told[m] \/ (m = serving /\ told'[m] = text)
  BY <1>1, <1>3, Answered DEF IInv
<1>5. InvInbox' /\ InvStatus'
  BY <1>2, <1>4 DEF IInv, InvInbox, InvStatus
<1>6. InvRun'
  <2>1. age' \in 0 .. Deadline /\ (~scene.late => age' <= ConnectTimeout)
    BY <1>2, DeadlineIs DEF IInv, InvRun
  <2>2. QED BY <1>2, <2>1 DEF IInv, InvRun
<1>7. InvOk' /\ InvError' /\ InvLate'
  <2>1. Later
    BY <1>2, <1>3, <1>4, SameRunLater
  <2>2. text = "ok" => OkHolds(serving)
    <3>1. CASE PollStartup
      <4>1. loop = "poll"
        BY <3>1 DEF PollStartup
      <4>2. sent[serving] = "start" /\ run.of = serving /\ (run.startup = "ok" => serving \in connected)
        BY <4>1 DEF IInv, InvRun
      <4>3. text = "ok" => run.startup = "ok"
        BY <3>1, <1>1 DEF Verdict
      <4>4. QED BY <4>2, <4>3, <1>3 DEF OkHolds
    <3>2. CASE ~PollStartup
      <4>1. loop = "join" /\ ~run.running
        BY <3>2 DEF HaltJoined
      <4>2. sent[serving] # "start"
        BY <4>1 DEF IInv, InvRun
      <4>3. QED BY <4>1, <4>2, <1>3 DEF OkHolds
    <3>3. QED BY <3>1, <3>2
  <2>3. text = "error" => ErrorHolds(serving)
    <3> SUFFICES ASSUME text = "error", run.running PROVE run.startup = "failed"
      BY <1>3 DEF ErrorHolds
    <3>1. PollStartup
      BY <1>1
    <3>2. Decided /\ run.startup # "ok"
      BY <3>1, <1>1 DEF Verdict
    <3>3. QED BY <3>2, RunTypes DEF Decided
  <2>4. text = "timeout" => ~Punctual
    <3> SUFFICES ASSUME text = "timeout", Punctual PROVE FALSE
      OBVIOUS
    <3>1. age >= Deadline
      BY <1>1 DEF Verdict
    <3>2. age \in 0 .. Deadline /\ age <= ConnectTimeout
      BY DEF IInv, InvRun, Punctual
    <3>3. QED BY <3>1, <3>2, DeadlineIs DEF Punctual
  <2>5. PICK n \in Asked : n = serving
    BY <1>3
  <2>6. (OkHolds(n) => OkHolds(n)') /\ (ErrorHolds(n) => ErrorHolds(n)')
    BY <2>1, StayTrue
  <2>7. (text = "ok" => OkHolds(n)') /\ (text = "error" => ErrorHolds(n)')
    BY <2>2, <2>3, <2>5, <2>6
  <2>8. ASSUME NEW m \in Asked PROVE TellsTruth(m)
    <3>1. CASE told'[m] = told[m]
      BY <3>1 DEF TellsTruth
    <3>2. CASE m = n /\ told'[m] = "ok" /\ text = "ok"
      BY <3>2, <2>7 DEF TellsTruth
    <3>3. CASE m = n /\ told'[m] = "error" /\ text = "error"
      BY <3>3, <2>7 DEF TellsTruth
    <3>4. CASE m = n /\ told'[m] = "timeout" /\ text = "timeout"
      BY <3>4, <2>4 DEF TellsTruth
    <3>5. QED BY <3>1, <3>2, <3>3, <3>4, <2>5, <1>1, <1>4 DEF Answers
  <2>9. QED BY Zenon, <2>1, <2>8, AnswersStay
<1>8. QED BY <1>4, <1>5, <1>6, <1>7 DEF IInv

-----------------------------------------------------------------------------
(* Steps that tell no client anything.                                     *)

\* A step of daemon, run or watcher leaves the clients alone.
LEMMA Elsewhere ==
  ASSUME IInv, UNCHANGED <<sent, told, pending, inbox, serving>>, waited' \in [Clients -> 0 .. Patience],
         Later, InvStatus', InvRun'
  PROVE  IInv'
<1>1. InvClients' /\ InvInbox'
  BY DEF IInv, InvClients, InvInbox, Asked
<1>2. \A m \in Asked : TellsTruth(m)
  BY DEF TellsTruth
<1>3. InvOk' /\ InvError' /\ InvLate'
  BY Zenon, <1>2, AnswersStay
<1>4. QED BY <1>1, <1>3 DEF IInv

LEMMA WaitTypes == ASSUME IInv PROVE waited \in [Clients -> 0 .. Patience] /\ serving \in Nat
BY DEF IInv, InvClients, InvInbox

\* What waits for daqmon stays within its queue.
LEMMA AnnounceKeeps ==
  ASSUME IInv, NEW state \in States, Announce(state), UNCHANGED last_state
  PROVE  InvStatus' /\ published' = state /\ scene' = scene
<1>1. /\ published' = state /\ UNCHANGED <<heard, scene>>
      /\ news' = news \/ (news' = Append(news, state) /\ Len(news) < HWM)
  BY DEF Announce
<1>2. news \in Seq(States) /\ Len(news) <= HWM
  BY DEF IInv, InvStatus
<1>3. news' \in Seq(States) /\ Len(news') <= HWM
  BY <1>1, <1>2, PlaneAssumption
<1>4. QED BY <1>1, <1>3 DEF IInv, InvStatus

\* The loop goes on without a request.
LEMMA LoopKeeps ==
  ASSUME IInv, Idle \/ Look \/ Tell \/ Leave \/ Gone
  PROVE  IInv'
<1>1. UNCHANGED <<sent, told, pending, waited, inbox, serving, connected, age>>
  BY DEF Idle, Look, Tell, Leave, Gone, clients
<1>2. /\ run.running \in BOOLEAN /\ run.state \in States /\ run.startup \in {"none", "ok", "failed"}
      /\ run.of \in Nat /\ run.of <= serving /\ serving \in Nat
      /\ run = [running |-> run.running, state |-> run.state, startup |-> run.startup, of |-> run.of]
  BY RunTypes
<1>3. waited' \in [Clients -> 0 .. Patience]
  BY <1>1, WaitTypes
<1>4. CASE Idle
  <2>1. loop' = "look" /\ UNCHANGED <<run, last_state, published, news, heard, scene>>
    BY <1>4 DEF Idle, status, watch
  <2>2. InvStatus' /\ InvRun'
    BY <2>1, <1>1 DEF IInv, InvStatus, InvRun
  <2>3. QED BY <2>1, <2>2, <1>1, <1>2, <1>3, SameRunLater, Elsewhere
<1>5. CASE Look
  <2>1. /\ loop' \in {"tell", "recv"} /\ last_state' = run.state
        /\ UNCHANGED <<run, published, news, heard, scene>>
    BY <1>5 DEF Look, watch
  <2>2. InvStatus' /\ InvRun'
    BY <2>1, <1>1, <1>2 DEF IInv, InvStatus, InvRun
  <2>3. QED BY <2>1, <2>2, <1>1, <1>2, <1>3, SameRunLater, Elsewhere
<1>6. CASE Tell
  <2>1. loop' = "recv" /\ Announce(run.state) /\ UNCHANGED <<run, last_state>>
    BY <1>6 DEF Tell
  <2>2. InvStatus' /\ scene' = scene
    BY <2>1, <1>2, AnnounceKeeps
  <2>3. InvRun'
    BY <2>1, <2>2, <1>1 DEF IInv, InvRun
  <2>4. QED BY <2>1, <2>2, <2>3, <1>1, <1>2, <1>3, SameRunLater, Elsewhere
<1>7. CASE Leave
  <2>1. /\ loop' = "leave" /\ run' = Halted /\ UNCHANGED <<last_state, published, news, heard, scene>>
    BY <1>7 DEF Leave, status, watch
  <2>2. /\ run' \in [running : BOOLEAN, state : States, startup : {"none", "ok", "failed"}, of : Nat]
        /\ run'.of = run.of /\ run'.startup = run.startup /\ run'.running = run.running
    <3>1. run' = run \/ run' = [run EXCEPT !.state = "stopping"]
      BY <2>1 DEF Halted
    <3>2. QED BY <3>1, <1>2 DEF States
  <2>3. InvStatus' /\ InvRun'
    BY <2>1, <2>2, <1>1 DEF IInv, InvStatus, InvRun
  <2>4. Later
    BY <2>1, <2>2, <1>1, <1>2 DEF Later
  <2>5. QED BY <2>3, <2>4, <1>1, <1>3, Elsewhere
<1>8. CASE Gone
  <2>1. loop' = "gone" /\ ~run.running /\ Announce(run.state) /\ UNCHANGED <<run, last_state>>
    BY <1>8 DEF Gone
  <2>2. InvStatus' /\ scene' = scene /\ published' = run.state
    BY <2>1, <1>2, AnnounceKeeps
  <2>3. InvRun'
    BY <2>1, <2>2, <1>1 DEF IInv, InvRun, Over
  <2>4. QED BY <2>1, <2>2, <2>3, <1>1, <1>2, <1>3, SameRunLater, Elsewhere
<1>9. QED BY <1>4, <1>5, <1>6, <1>7, <1>8

\* The acquisition connects, fails or ends.
LEMMA RunKeeps ==
  ASSUME IInv, Run
  PROVE  IInv'
<1>1. UNCHANGED <<sent, told, pending, waited, inbox, loop, serving, age, last_state, published, news, heard, scene>>
  BY DEF Run, Connects, StartupFails, RunEnds, clients, daemon, status, watch
<1>2. /\ run.running \in BOOLEAN /\ run.state \in States /\ run.startup \in {"none", "ok", "failed"}
      /\ run.of \in Nat /\ run.of <= serving /\ serving \in Nat
      /\ run = [running |-> run.running, state |-> run.state, startup |-> run.startup, of |-> run.of]
  BY RunTypes
<1>3. /\ run.running = TRUE
      /\ run' \in [running : BOOLEAN, state : States, startup : {"none", "ok", "failed"}, of : Nat]
      /\ run'.of = run.of /\ (run.startup = "failed" => run'.startup = "failed")
      /\ connected \subseteq connected'
      /\ run'.startup = "ok" => run.startup = "ok" \/ run.of \in connected'
  <2>1. CASE Connects
    <3>1. /\ run.running /\ run.startup = "none" /\ run' = [run EXCEPT !.startup = "ok"]
          /\ connected' = connected \union {run.of}
      BY <2>1 DEF Connects
    <3>2. QED BY <3>1, <1>2
  <2>2. CASE StartupFails
    <3>1. run.running /\ run' = [run EXCEPT !.startup = "failed"] /\ connected' = connected
      BY <2>2 DEF StartupFails
    <3>2. QED BY <3>1, <1>2
  <2>3. CASE RunEnds
    <3>1. /\ run.running /\ connected' = connected
          /\ \E state \in States : run' = [run EXCEPT !.running = FALSE, !.state = state]
      BY <2>3 DEF RunEnds, States
    <3>2. PICK state \in States : run' = [run EXCEPT !.running = FALSE, !.state = state]
      BY <3>1
    <3>3. QED BY <3>1, <3>2, <1>2
  <2>4. QED BY <2>1, <2>2, <2>3 DEF Run
<1>4. Later
  BY <1>1, <1>2, <1>3 DEF Later
<1>5. InvStatus'
  BY <1>1 DEF IInv, InvStatus
<1>6. InvRun'
  <2>1. loop # "gone"
    BY <1>3 DEF IInv, InvRun
  <2>2. run'.startup = "ok" => run'.of \in connected'
    BY <1>3 DEF IInv, InvRun
  <2>3. QED BY <2>1, <2>2, <1>1, <1>3 DEF IInv, InvRun, Asked
<1>7. QED BY <1>1, <1>4, <1>5, <1>6, WaitTypes, Elsewhere

\* Time passes for those who wait, as far as their patience and the deadline go.
LEMMA TickKeeps ==
  ASSUME IInv, Tick
  PROVE  IInv'
<1>1. /\ UNCHANGED <<sent, told, pending, inbox, loop, serving, run, connected, last_state, published, news, heard, scene>>
      /\ \A c \in Clients : pending[c] # 0 => waited[c] < Patience
      /\ waited' = [c \in Clients |-> waited[c] + (IF pending[c] # 0 THEN 1 ELSE 0)]
      /\ age' = age + (IF loop = "poll" THEN 1 ELSE 0)
      /\ loop = "poll" => age < Deadline
      /\ ~scene.late /\ loop = "poll" => age < ConnectTimeout
  BY DEF Tick, daemon, status, watch
<1>2. waited \in [Clients -> 0 .. Patience] /\ serving \in Nat
  BY WaitTypes
<1>3. waited' \in [Clients -> 0 .. Patience]
  <2>1. ASSUME NEW c \in Clients PROVE waited[c] + (IF pending[c] # 0 THEN 1 ELSE 0) \in 0 .. Patience
    <3>1. waited[c] \in 0 .. Patience
      BY <1>2
    <3>2. CASE pending[c] # 0
      BY <3>1, <3>2, <1>1, PlaneAssumption
    <3>3. CASE pending[c] = 0
      BY <3>1, <3>3
    <3>4. QED BY <3>2, <3>3
  <2>2. QED BY <2>1, <1>1
<1>4. age' \in 0 .. Deadline /\ (~scene.late => age' <= ConnectTimeout)
  <2>1. age \in 0 .. Deadline /\ (~scene.late => age <= ConnectTimeout)
    BY DEF IInv, InvRun
  <2>2. Deadline \in Nat /\ ConnectTimeout \in Nat
    BY DeadlineIs
  <2>3. CASE loop = "poll"
    <3>1. age' = age + 1 /\ age < Deadline /\ (~scene.late => age < ConnectTimeout)
      BY <2>3, <1>1
    <3>2. QED BY <3>1, <2>1, <2>2
  <2>4. CASE loop # "poll"
    <3>1. age' = age
      BY <2>1, <2>4, <1>1
    <3>2. QED BY <3>1, <2>1
  <2>5. QED BY <2>3, <2>4
<1>5. InvStatus'
  BY <1>1 DEF IInv, InvStatus
<1>6. InvRun'
  BY <1>1, <1>4 DEF IInv, InvRun, Asked, Deadline
<1>7. QED BY <1>1, <1>2, <1>3, <1>5, <1>6, SameRunLater, Elsewhere

\* daqmon, and the signal.
LEMMA OutsideKeeps ==
  ASSUME IInv, Subscribe \/ ReceiveNext \/ Terminate \/ UNCHANGED vars
  PROVE  IInv'
<1>1. UNCHANGED <<sent, told, pending, waited, inbox, loop, serving, run, age, connected, last_state, published, scene>>
  BY DEF Subscribe, ReceiveNext, Terminate, vars, clients, daemon, status, watch
<1>2. \/ news' = news /\ heard' = heard
      \/ news # <<>> /\ news' = Tail(news) /\ heard' = Head(news)
  BY DEF Subscribe, ReceiveNext, Terminate, vars, status, watch
<1>3. news \in Seq(States) /\ Len(news) <= HWM /\ heard \in States \union {"none"} /\ HWM \in Nat
  BY PlaneAssumption DEF IInv, InvStatus
<1>4. news' \in Seq(States) /\ Len(news') <= HWM /\ heard' \in States \union {"none"}
  BY <1>2, <1>3
<1>5. InvStatus'
  BY <1>1, <1>4 DEF IInv, InvStatus
<1>6. InvRun'
  BY <1>1 DEF IInv, InvRun, Asked
<1>7. QED BY <1>1, <1>5, <1>6, WaitTypes, SameRunLater, Elsewhere

-----------------------------------------------------------------------------
(* The theorems.                                                           *)

LEMMA IInvNext == ASSUME IInv, [Next]_vars PROVE IInv'
<1>1. CASE Loop
  BY <1>1, AtOnceKeeps, WorkKeeps, AnswerKeeps, LoopKeeps DEF Loop, Serve
<1>2. CASE Run
  BY <1>2, RunKeeps
<1>3. CASE Tick
  BY <1>3, TickKeeps
<1>4. CASE Terminate \/ Subscribe \/ ReceiveNext \/ UNCHANGED vars
  BY <1>4, OutsideKeeps
<1>5. ASSUME NEW c \in Clients, GiveUp(c) \/ \E command \in Commands : Send(c, command) PROVE IInv'
  BY <1>5, GiveUpKeeps, SendKeeps
<1>6. QED BY <1>1, <1>2, <1>3, <1>4, <1>5 DEF Next

\* Requests are served in the order they were sent, the run belongs to one that was
\* taken, and what was answered is true (daqd.cpp:736 to 834).
THEOREM IInvAlways == Spec => []IInv
BY IInvInit, IInvNext, PTL DEF Spec

\* What the invariant says of the properties.
LEMMA IInvTypes == ASSUME IInv PROVE TypeOK
<1>1. \A n \in Asked : told[n] \in {"ok", "error", "timeout", "silence"} \/ \E c \in Clients : pending[c] = n
  <2> SUFFICES ASSUME NEW n \in Asked
      PROVE told[n] \in {"ok", "error", "timeout", "silence"} \/ \E c \in Clients : pending[c] = n
    OBVIOUS
  <2>1. told \in Seq(Outcomes) /\ Len(told) = Len(sent)
    BY DEF IInv, InvClients
  <2>2. told[n] \in Outcomes
    BY <2>1 DEF Asked
  <2>3. told[n] = "none" => \E c \in Clients : pending[c] = n
    BY DEF IInv, InvClients
  <2>4. QED BY <2>2, <2>3 DEF Outcomes
<1>2. \A c \in Clients : waited[c] \in 0 .. Patience
  BY WaitTypes
<1>3. run.state \in States /\ run.startup \in {"none", "ok", "failed"}
  BY RunTypes
<1>4. QED BY <1>1, <1>2, <1>3 DEF IInv, InvClients, InvStatus, InvRun, TypeOK, Asked

LEMMA IInvOk == ASSUME IInv PROVE OkIsTrue
<1> SUFFICES ASSUME NEW n \in Asked, told[n] = "ok"
    PROVE  /\ sent[n] = "start" => n \in connected
           /\ sent[n] \in {"stop", "shutdown"} => ~(run.running /\ run.of < n)
  BY DEF OkIsTrue, Asked
<1>1. OkHolds(n) /\ n \in Nat /\ run.of \in Nat
  BY RunTypes DEF IInv, InvOk, Asked
<1>2. QED BY <1>1 DEF OkHolds

LEMMA IInvError == ASSUME IInv PROVE ErrorMeansNoRun
BY DEF IInv, InvError, ErrorHolds, ErrorMeansNoRun, Asked

LEMMA IInvLate == ASSUME IInv PROVE OnlyTheLateTimeOut
BY DEF IInv, InvLate, Punctual, OnlyTheLateTimeOut, Asked

\* Whatever a client was told, however late and whatever others have asked for
\* since, is true of its own request; and the last status that the daemon publishes
\* is that of the run (daqd.cpp:288, 298, 335, 803 and 829).
THEOREM AnswersTrue == Spec => []AnswersAreTrue
<1>1. ASSUME IInv PROVE AnswersAreTrue
  <2>1. LastWordIsTrue
    BY <1>1 DEF IInv, InvRun, LastWordIsTrue
  <2>2. QED BY <1>1, <2>1, IInvTypes, IInvOk, IInvError, IInvLate DEF AnswersAreTrue
<1>2. QED BY <1>1, IInvAlways, PTL

-----------------------------------------------------------------------------
(* Induction over numbers and sequences, without operators as parameters.    *)

\* Induction up to n: a set that has 0, and k + 1 with every k, has them all.
LEMMA Climb ==
  ASSUME NEW n \in Nat, NEW S, 0 \in S, \A k \in 0 .. n - 1 : k \in S => k + 1 \in S
  PROVE  0 .. n \subseteq S
<1> DEFINE Misses == (0 .. n) \ S
<1>1. SUFFICES ASSUME Misses # {} PROVE FALSE
  OBVIOUS
<1>2. Misses \subseteq Nat
  OBVIOUS
<1> DEFINE R == {p \in Nat \X Nat : p[1] < p[2]}
<1>3. PICK k \in Misses : \A j \in Misses : ~ (<<j, k>> \in R)
  <2>1. R = OpToRel(<, Nat)
    BY Zenon DEF OpToRel
  <2>2. IsWellFoundedOn(R, Nat)
    BY <2>1, NatLessThanWellFounded, Zenon
  <2> HIDE DEF R, Misses
  <2>3. QED BY <2>2, <1>1, <1>2, WFMin
<1>4. k \in 1 .. n /\ k \notin S
  BY <1>3
<1>5. k - 1 \in 0 .. n - 1 /\ (k - 1) + 1 = k
  BY <1>4
<1>6. k - 1 \in Misses
  BY <1>4, <1>5
<1>7. <<k - 1, k>> \in R
  BY <1>4
<1>8. QED BY <1>3, <1>6, <1>7

\* Induction over sequences: a set that has the empty one, and with each what it is
\* with an element more, has them all.
LEMMA Grow ==
  ASSUME NEW X, NEW T, <<>> \in T,
         \A seq \in Seq(X), e \in X : seq \in T => Append(seq, e) \in T
  PROVE  Seq(X) \subseteq T
<1> SUFFICES ASSUME NEW all \in Seq(X) PROVE all \in T
  OBVIOUS
<1> DEFINE n == Len(all)
           S == {k \in 0 .. n : SubSeq(all, 1, k) \in T}
<1>1. n \in Nat /\ \A k \in 1 .. n : all[k] \in X
  OBVIOUS
<1>2. 0 \in S
  <2>1. SubSeq(all, 1, 0) = <<>> /\ 0 \in 0 .. n
    BY <1>1
  <2>2. QED BY <2>1
<1>3. ASSUME NEW k \in 0 .. n - 1, k \in S PROVE k + 1 \in S
  <2>1. k + 1 \in 1 .. n /\ k + 1 \in 0 .. n /\ k \in 0 .. n
    BY <1>1
  <2>2. SubSeq(all, 1, k) \in Seq(X) /\ SubSeq(all, 1, k) \in T
    BY <1>3, <2>1
  <2>3. SubSeq(all, 1, k + 1) = Append(SubSeq(all, 1, k), all[k + 1])
    BY <2>1
  <2>4. QED BY <1>1, <2>1, <2>2, <2>3
<1> HIDE DEF S
<1>4. n \in S
  <2>1. 0 .. n \subseteq S
    BY ONLY <1>1, <1>2, <1>3, Climb
  <2>2. QED BY <1>1, <2>1
<1>5. SubSeq(all, 1, n) = all
  BY <1>1
<1>6. QED BY <1>4, <1>5 DEF S

\* A value for each place, made of the one before it by F.
Chain(m, n, base, F, f) == [k \in m .. n |-> IF k = m THEN base ELSE F[<<k, f[k - 1]>>]]
Keeps(m, n, F, A) == \A k \in m + 1 .. n, a \in A : F[<<k, a>>] \in A

\* There is a function that has them.
LEMMA Steps ==
  ASSUME NEW m \in Nat, NEW n \in Nat, m <= n, NEW A, NEW base \in A, NEW F, Keeps(m, n, F, A)
  PROVE  \E f \in [m .. n -> A] : f = Chain(m, n, base, F, f)
<1> DEFINE Right(f, d) == f[m] = base /\ \A k \in m + 1 .. m + d : f[k] = F[<<k, f[k - 1]>>]
           S == {d \in 0 .. n - m : \E f \in [m .. n -> A] : Right(f, d)}
<1>1. n - m \in Nat
  OBVIOUS
<1>2. 0 \in S
  <2>1. Right([k \in m .. n |-> base], 0)
    OBVIOUS
  <2>2. QED BY <1>1, <2>1
<1>3. ASSUME NEW d \in 0 .. (n - m) - 1, d \in S PROVE d + 1 \in S
  <2>1. PICK f \in [m .. n -> A] : Right(f, d)
    BY <1>3
  <2> DEFINE at == m + d + 1
             g == [f EXCEPT ![at] = F[<<at, f[at - 1]>>]]
  <2>2. at \in m + 1 .. n /\ at - 1 \in m .. n
    OBVIOUS
  <2>3. g \in [m .. n -> A]
    <3>1. f[at - 1] \in A
      BY <2>2
    <3>2. F[<<at, f[at - 1]>>] \in A
      BY <2>2, <3>1 DEF Keeps
    <3>3. QED BY <3>2
  <2>4. Right(g, d + 1)
    <3>1. g[m] = base
      BY <2>1, <2>2
    <3>2. ASSUME NEW k \in m + 1 .. m + (d + 1) PROVE g[k] = F[<<k, g[k - 1]>>]
      <4>1. g[k - 1] = f[k - 1]
        BY <2>2
      <4>2. CASE k = at
        <5>1. g[at] = F[<<at, f[at - 1]>>]
          BY <2>2
        <5> HIDE DEF g, at
        <5>2. QED BY <5>1, <4>1, <4>2
      <4>3. CASE k # at
        <5>1. g[k] = f[k] /\ k \in m + 1 .. m + d
          BY <2>2, <4>3
        <5>2. QED BY <5>1, <4>1, <2>1
      <4>4. QED BY <4>2, <4>3
    <3>3. QED BY <3>1, <3>2
  <2>5. d + 1 \in 0 .. n - m
    OBVIOUS
  <2>6. QED BY <2>3, <2>4, <2>5
<1> HIDE DEF S
<1>4. n - m \in S
  <2>1. 0 .. n - m \subseteq S
    BY ONLY <1>1, <1>2, <1>3, Climb
  <2>2. QED BY <1>1, <2>1
<1>5. PICK f \in [m .. n -> A] : Right(f, n - m)
  BY <1>4 DEF S
<1>6. \A k \in m .. n : f[k] = IF k = m THEN base ELSE F[<<k, f[k - 1]>>]
  <2>1. m + (n - m) = n
    OBVIOUS
  <2>2. QED BY <1>5, <2>1
<1>7. f = Chain(m, n, base, F, f)
  BY <1>6 DEF Chain
<1>8. QED BY <1>7

-----------------------------------------------------------------------------
(* Flattening, an element at a time.                                         *)

LEMMA FlattenMore ==
  ASSUME NEW X
  PROVE  /\ FlattenSeq(<<>>) = <<>>
         /\ \A seqs \in Seq(Seq(X)) : FlattenSeq(seqs) \in Seq(X)
         /\ \A seqs \in Seq(Seq(X)), e \in Seq(X) :
              FlattenSeq(Append(seqs, e)) = FlattenSeq(seqs) \o e
<1> DEFINE Fold(seqs, f) == [i \in 1 .. Len(seqs) |-> IF i = 1 THEN seqs[i] ELSE f[i - 1] \o seqs[i]]
           flat(seqs) == CHOOSE f : f = Fold(seqs, f)
<1>1. FlattenSeq(<<>>) = <<>>
  BY DEF FlattenSeq
<1>2. ASSUME NEW seqs \in Seq(Seq(X)), seqs # <<>>
      PROVE  FlattenSeq(seqs) = flat(seqs)[Len(seqs)]
  BY <1>2 DEF FlattenSeq
<1>3. ASSUME NEW seqs \in Seq(Seq(X)), seqs # <<>>
      PROVE  flat(seqs) = Fold(seqs, flat(seqs)) /\ flat(seqs) \in [1 .. Len(seqs) -> Seq(X)]
  <2> DEFINE n == Len(seqs)
             F == [p \in (1 .. n) \X Seq(X) |-> p[2] \o seqs[p[1]]]
  <2>1. n \in Nat /\ 1 <= n /\ \A i \in 1 .. n : seqs[i] \in Seq(X)
    BY <1>3
  <2>2. \A k \in 1 .. n, a \in Seq(X) : F[<<k, a>>] = a \o seqs[k]
    OBVIOUS
  <2>3. ASSUME NEW k \in 2 .. n, NEW a \in Seq(X) PROVE F[<<k, a>>] \in Seq(X)
    <3>1. k \in 1 .. n
      BY <2>1
    <3>2. seqs[k] \in Seq(X)
      BY <2>1, <3>1
    <3>3. a \o seqs[k] \in Seq(X)
      BY <3>2
    <3> HIDE DEF F
    <3>4. QED BY <2>2, <3>1, <3>3
  <2> HIDE DEF F
  <2>4. PICK f \in [1 .. n -> Seq(X)] : f = Chain(1, n, seqs[1], F, f)
    <3>1. seqs[1] \in Seq(X) /\ 1 + 1 = 2 /\ 1 \in Nat
      BY <2>1
    <3>2. \A k \in 1 + 1 .. n, a \in Seq(X) : F[<<k, a>>] \in Seq(X)
      BY <2>3, <3>1
    <3> HIDE DEF n
    <3>3. PICK base : base = seqs[1]
      OBVIOUS
    <3>4. PICK A : A = Seq(X)
      OBVIOUS
    <3>5. base \in A /\ \A k \in 1 + 1 .. n, a \in A : F[<<k, a>>] \in A
      BY <3>1, <3>2, <3>3, <3>4
    <3>6. \E f \in [1 .. n -> A] : f = Chain(1, n, base, F, f)
      <4>1. PICK m : m = 1
        OBVIOUS
      <4>2. m \in Nat /\ m <= n /\ n \in Nat /\ Keeps(m, n, F, A)
        BY <2>1, <3>5, <4>1 DEF Keeps
      <4>3. \E f \in [m .. n -> A] : f = Chain(m, n, base, F, f)
        BY ONLY <3>5, <4>2, Steps
      <4>4. QED BY <4>1, <4>3
    <3>7. QED BY <3>3, <3>4, <3>6
  <2>5. f = Fold(seqs, f)
    <3>1. ASSUME NEW k \in 1 .. n, k # 1 PROVE f[k - 1] \in Seq(X)
      <4>1. k - 1 \in 1 .. n
        BY <2>1, <3>1
      <4> HIDE DEF n
      <4>2. QED BY <4>1
    <3>2. \A k \in 1 .. n : k # 1 => F[<<k, f[k - 1]>>] = f[k - 1] \o seqs[k]
      BY <2>2, <3>1
    <3>3. QED BY <2>4, <3>2 DEF Chain
  <2>6. flat(seqs) = Fold(seqs, flat(seqs))
    BY <2>5
  <2>7. PICK g : g = flat(seqs) /\ g = Fold(seqs, g)
    BY <2>6
  <2> DEFINE S == {k \in 0 .. n : k = 0 \/ g[k] \in Seq(X)}
  <2>8. 0 \in S
    BY <2>1
  <2>9. ASSUME NEW k \in 0 .. n - 1, k \in S PROVE k + 1 \in S
    <3>1. k + 1 \in 1 .. n /\ (k + 1) - 1 = k /\ k + 1 \in 0 .. n
      BY <2>1
    <3>2. g[k + 1] = IF k + 1 = 1 THEN seqs[k + 1] ELSE g[k] \o seqs[k + 1]
      <4>1. PICK j : j = k + 1
        OBVIOUS
      <4>2. j \in 1 .. n /\ j - 1 = k
        BY <3>1, <4>1
      <4>3. g[j] = IF j = 1 THEN seqs[j] ELSE g[j - 1] \o seqs[j]
        BY <4>2, <2>7
      <4>4. QED BY <4>1, <4>2, <4>3
    <3>3. k + 1 = 1 \/ g[k] \in Seq(X)
      BY <2>9
    <3>4. seqs[k + 1] \in Seq(X)
      BY <2>1, <3>1
    <3>5. g[k + 1] \in Seq(X)
      <4> HIDE DEF S, n
      <4>1. QED BY <3>2, <3>3, <3>4
    <3>6. QED BY <3>1, <3>5
  <2> HIDE DEF S, n
  <2>10. 0 .. n \subseteq S
    BY ONLY <2>1, <2>8, <2>9, Climb
  <2>11. \A k \in 1 .. n : g[k] \in Seq(X)
    BY <2>1, <2>10 DEF S
  <2>12. QED BY <2>6, <2>7, <2>11 DEF n
<1> HIDE DEF flat
<1>4. ASSUME NEW seqs \in Seq(Seq(X)) PROVE FlattenSeq(seqs) \in Seq(X)
  <2>1. CASE seqs = <<>>
    <3>1. <<>> \in Seq(X)
      OBVIOUS
    <3>2. QED BY <2>1, <1>1, <3>1
  <2>2. CASE seqs # <<>>
    <3>1. Len(seqs) \in 1 .. Len(seqs)
      BY <2>2
    <3>2. flat(seqs) \in [1 .. Len(seqs) -> Seq(X)] /\ FlattenSeq(seqs) = flat(seqs)[Len(seqs)]
      BY <1>2, <1>3, <2>2
    <3>3. flat(seqs)[Len(seqs)] \in Seq(X)
      BY <3>1, <3>2
    <3>4. QED BY <3>2, <3>3
  <2>3. QED BY <2>1, <2>2
<1>5. ASSUME NEW seqs \in Seq(Seq(X)), NEW e \in Seq(X)
      PROVE  FlattenSeq(Append(seqs, e)) = FlattenSeq(seqs) \o e
  <2> DEFINE n == Len(seqs)  more == Append(seqs, e)
  <2>1. /\ n \in Nat /\ more \in Seq(Seq(X)) /\ Len(more) = n + 1 /\ more[n + 1] = e
        /\ \A k \in 1 .. n : more[k] = seqs[k]
        /\ more # <<>>
    <3>1. PICK A : A = Seq(X)
      OBVIOUS
    <3>2. seqs \in Seq(A) /\ e \in A
      BY <3>1
    <3>3. /\ n \in Nat /\ more \in Seq(A) /\ Len(more) = n + 1 /\ more[n + 1] = e
          /\ \A k \in 1 .. n : more[k] = seqs[k]
      BY <3>2
    <3> HIDE DEF more
    <3>4. more # <<>>
      BY <3>3
    <3>5. QED BY <3>1, <3>3, <3>4
  <2> HIDE DEF more
  <2>2. flat(more) = Fold(more, flat(more)) /\ FlattenSeq(more) = flat(more)[n + 1]
    BY <1>2, <1>3, <2>1
  <2>3. CASE seqs = <<>>
    <3>1. FlattenSeq(more) = e
      BY <2>1, <2>2, <2>3
    <3>2. QED BY <3>1, <2>3, <1>1 DEF more
  <2>4. CASE seqs # <<>>
    <3>1. flat(seqs) = Fold(seqs, flat(seqs)) /\ FlattenSeq(seqs) = flat(seqs)[n]
      BY <1>2, <1>3, <2>4
    <3> DEFINE g == flat(more)  f == flat(seqs)
    <3>2. n >= 1
      BY <2>4
    <3> HIDE DEF g, f
    <3> DEFINE S == {k \in 0 .. n : k = 0 \/ g[k] = f[k]}
    <3>3. 0 \in S
      BY <2>1
    <3>4. ASSUME NEW k \in 0 .. n - 1, k \in S PROVE k + 1 \in S
      <4>1. k + 1 \in 1 .. n /\ (k + 1) - 1 = k /\ k + 1 \in 1 .. n + 1
        BY <2>1
      <4>2. f[k + 1] = IF k + 1 = 1 THEN seqs[k + 1] ELSE f[k] \o seqs[k + 1]
        BY <4>1, <3>1 DEF f
      <4>3. g[k + 1] = IF k + 1 = 1 THEN more[k + 1] ELSE g[k] \o more[k + 1]
        BY <2>1, <4>1, <2>2 DEF g
      <4>4. g[k + 1] = f[k + 1]
        BY <2>1, <4>1, <4>2, <4>3, <3>4
      <4>5. QED BY <4>1, <4>4
    <3> HIDE DEF S, n
    <3>5. 0 .. n \subseteq S
      BY ONLY <2>1, <3>3, <3>4, Climb
    <3>6. g[n] = f[n]
      BY <2>1, <3>2, <3>5 DEF S
    <3>7. g[n + 1] = g[n] \o e
      <4>1. n + 1 # 1 /\ (n + 1) - 1 = n /\ n + 1 \in 1 .. Len(more)
        BY <2>1, <3>2
      <4>2. QED BY <2>1, <2>2, <4>1 DEF g
    <3>8. QED BY <2>2, <3>1, <3>6, <3>7 DEF g, f, more
  <2>5. QED BY <2>3, <2>4
<1>6. QED BY <1>1, <1>4, <1>5

-----------------------------------------------------------------------------
(* The loop of split_args, a character at a time.                            *)

Text  == Seq(Chars)
State == [out : Seq(Text), current : Text, quoted : BOOLEAN, escaping : BOOLEAN]

LEMMA NewWordType ==
  ASSUME NEW s \in State
  PROVE  /\ NewWord(s) \in State /\ NewWord(s).current = <<>>
         /\ NewWord(s).quoted = s.quoted /\ NewWord(s).escaping = s.escaping
         /\ NewWord(NewWord(s)) = NewWord(s)
<1>1. <<>> \in Text /\ s.current \in Text /\ s.out \in Seq(Text)
  BY DEF State, Text
<1>2. Append(s.out, s.current) \in Seq(Text)
  BY <1>1
<1>3. CASE s.current = <<>>
  BY <1>3 DEF NewWord
<1>4. CASE s.current # <<>>
  <2>1. PICK o \in Seq(Text) : o = Append(s.out, s.current)
    BY <1>2
  <2>2. NewWord(s) = [s EXCEPT !.out = o, !.current = <<>>]
    BY <1>4, <2>1 DEF NewWord
  <2> HIDE DEF Text
  <2>3. NewWord(s) \in State /\ NewWord(s).current = <<>>
    BY <1>1, <2>2 DEF State
  <2>4. NewWord(s).quoted = s.quoted /\ NewWord(s).escaping = s.escaping
    BY <1>1, <2>2 DEF State
  <2>5. QED BY <2>3, <2>4 DEF NewWord
<1>5. QED BY <1>3, <1>4

LEMMA ReadCharType ==
  ASSUME NEW s \in State, NEW char \in Chars
  PROVE  ReadChar(s, char) \in State
<1>1. NewWord(s) \in State
  BY NewWordType
<1>2. PICK c \in Text : c = Append(s.current, char)
  <2>1. s.current \in Text
    BY DEF State
  <2>2. Append(s.current, char) \in Text
    BY <2>1 DEF Text
  <2>3. QED BY <2>2
<1>3. [s EXCEPT !.current = Append(@, char)] \in State /\ [s EXCEPT !.current = Append(@, char), !.escaping = FALSE] \in State
  BY <1>2 DEF State
<1>4. [s EXCEPT !.escaping = TRUE] \in State /\ [s EXCEPT !.quoted = ~@] \in State
  BY DEF State
<1>5. s.escaping \in BOOLEAN /\ s.quoted \in BOOLEAN
  BY DEF State
<1>6. \/ ReadChar(s, char) = NewWord(s)
      \/ ReadChar(s, char) = [s EXCEPT !.current = Append(@, char)]
      \/ ReadChar(s, char) = [s EXCEPT !.current = Append(@, char), !.escaping = FALSE]
      \/ ReadChar(s, char) = [s EXCEPT !.escaping = TRUE]
      \/ ReadChar(s, char) = [s EXCEPT !.quoted = ~@]
  BY <1>5 DEF ReadChar
<1>7. QED BY <1>1, <1>3, <1>4, <1>6

LEMMA Turns ==
  ASSUME NEW s \in State, NEW text \in Text
  PROVE  \E f \in [0 .. Len(text) -> State] :
           /\ f[0] = s /\ After(s, text) = f[Len(text)]
           /\ \A k \in 1 .. Len(text) : f[k] = ReadChar(f[k - 1], text[k])
<1> DEFINE n == Len(text)
           F == [p \in (1 .. n) \X State |-> ReadChar(p[2], text[p[1]])]
           Fold(f) == [k \in 0 .. n |-> IF k = 0 THEN s ELSE ReadChar(f[k - 1], text[k])]
           read == CHOOSE f : f = Fold(f)
<1>1. n \in Nat /\ 0 <= n /\ \A k \in 1 .. n : text[k] \in Chars
  BY DEF Text
<1>2. \A k \in 1 .. n, a \in State : F[<<k, a>>] = ReadChar(a, text[k])
  OBVIOUS
<1> HIDE DEF F
<1>3. Keeps(0, n, F, State)
  <2>1. ASSUME NEW k \in 0 + 1 .. n, NEW a \in State PROVE F[<<k, a>>] \in State
    <3>1. k \in 1 .. n
      BY <1>1
    <3>2. QED BY <1>1, <1>2, <3>1, ReadCharType
  <2>2. QED BY <2>1 DEF Keeps
<1>4. PICK f \in [0 .. n -> State] : f = Chain(0, n, s, F, f)
  <2>1. PICK m : m = 0
    OBVIOUS
  <2>2. m \in Nat /\ n \in Nat /\ m <= n /\ Keeps(m, n, F, State) /\ s \in State
    BY <1>1, <1>3, <2>1
  <2> HIDE DEF n
  <2>3. \E f \in [m .. n -> State] : f = Chain(m, n, s, F, f)
    BY ONLY <2>2, Steps
  <2>4. QED BY <2>1, <2>3
<1>5. f = Fold(f)
  <2>1. ASSUME NEW k \in 0 .. n, k # 0 PROVE F[<<k, f[k - 1]>>] = ReadChar(f[k - 1], text[k])
    <3>1. k \in 1 .. n /\ k - 1 \in 0 .. n
      BY <1>1, <2>1
    <3>2. f[k - 1] \in State
      BY <3>1
    <3>3. QED BY <1>2, <3>1, <3>2
  <2>2. QED BY <1>4, <2>1 DEF Chain
<1>6. PICK g : g = read /\ g = Fold(g)
  BY <1>5
<1>7. After(s, text) = g[n]
  BY <1>6 DEF After
<1>8. g[0] = s /\ \A k \in 1 .. n : g[k] = ReadChar(g[k - 1], text[k])
  <2>1. ASSUME NEW k \in 1 .. n PROVE g[k] = ReadChar(g[k - 1], text[k])
    <3>1. k \in 0 .. n /\ k # 0
      BY <1>1
    <3>2. QED BY <1>6, <3>1
  <2>2. g[0] = s
    <3>1. 0 \in 0 .. n
      BY <1>1
    <3> HIDE DEF n
    <3>2. g[0] = IF 0 = 0 THEN s ELSE ReadChar(g[0 - 1], text[0])
      BY <1>6, <3>1
    <3>3. QED BY <3>2
  <2>3. QED BY <2>1, <2>2
<1> DEFINE S == {k \in 0 .. n : g[k] \in State}
<1>9. 0 \in S
  BY <1>1, <1>6
<1>10. ASSUME NEW k \in 0 .. n - 1, k \in S PROVE k + 1 \in S
  <2>1. k + 1 \in 1 .. n /\ (k + 1) - 1 = k /\ k + 1 \in 0 .. n
    BY <1>1
  <2>2. PICK j : j = k + 1
    OBVIOUS
  <2>3. g[j] = ReadChar(g[k], text[j])
    <3>1. j \in 1 .. n /\ j - 1 = k
      BY <2>1, <2>2
    <3>2. QED BY <1>8, <3>1
  <2>4. g[j] \in State
    BY <1>1, <1>10, <2>1, <2>2, <2>3, ReadCharType
  <2>5. QED BY <2>1, <2>2, <2>4
<1> HIDE DEF S, n
<1>11. 0 .. n \subseteq S
  BY ONLY <1>1, <1>9, <1>10, Climb
<1>12. g \in [0 .. n -> State]
  <2>1. \A k \in 0 .. n : g[k] \in State
    BY <1>11 DEF S
  <2>2. QED BY <1>6, <2>1
<1>13. QED BY <1>7, <1>12, <1>8 DEF n

LEMMA AfterMore ==
  ASSUME NEW s \in State
  PROVE  /\ After(s, <<>>) = s
         /\ \A text \in Text : After(s, text) \in State
         /\ \A text \in Text, char \in Chars :
              After(s, Append(text, char)) = ReadChar(After(s, text), char)
<1>1. After(s, <<>>) = s
  <2>1. <<>> \in Text
    BY DEF Text
  <2>2. QED BY <2>1, Turns
<1>2. ASSUME NEW text \in Text PROVE After(s, text) \in State
  <2>1. Len(text) \in 0 .. Len(text)
    BY DEF Text
  <2>2. QED BY <2>1, Turns
<1>3. ASSUME NEW text \in Text, NEW char \in Chars
      PROVE  After(s, Append(text, char)) = ReadChar(After(s, text), char)
  <2> DEFINE n == Len(text)
  <2>1. PICK more \in Text : more = Append(text, char)
    <3>1. Append(text, char) \in Text
      BY DEF Text
    <3>2. QED BY <3>1
  <2>2. /\ n \in Nat /\ Len(more) = n + 1 /\ more[n + 1] = char
        /\ \A k \in 1 .. n : more[k] = text[k]
    BY <2>1 DEF Text
  <2>3. PICK f \in [0 .. n -> State] :
          /\ f[0] = s /\ After(s, text) = f[n]
          /\ \A k \in 1 .. n : f[k] = ReadChar(f[k - 1], text[k])
    BY Turns
  <2>4. PICK g \in [0 .. Len(more) -> State] :
          /\ g[0] = s /\ After(s, more) = g[Len(more)]
          /\ \A k \in 1 .. Len(more) : g[k] = ReadChar(g[k - 1], more[k])
    BY Turns
  <2>5. After(s, more) = g[n + 1] /\ \A k \in 1 .. n + 1 : g[k] = ReadChar(g[k - 1], more[k])
    BY <2>2, <2>4
  <2> DEFINE S == {k \in 0 .. n : f[k] = g[k]}
  <2>6. 0 \in S
    BY <2>2, <2>3, <2>4
  <2>7. ASSUME NEW k \in 0 .. n - 1, k \in S PROVE k + 1 \in S
    <3>1. PICK j : j = k + 1
      OBVIOUS
    <3>2. j \in 1 .. n /\ j \in 1 .. n + 1 /\ j - 1 = k /\ j \in 0 .. n
      BY <2>2, <3>1
    <3>3. f[j] = ReadChar(f[k], text[j]) /\ g[j] = ReadChar(g[k], more[j]) /\ more[j] = text[j]
      BY <2>2, <2>3, <2>5, <3>2
    <3>4. QED BY <2>7, <3>1, <3>2, <3>3
  <2> HIDE DEF S, n
  <2>8. 0 .. n \subseteq S
    BY ONLY <2>2, <2>6, <2>7, Climb
  <2>9. f[n] = g[n]
    BY <2>2, <2>8 DEF S
  <2>10. g[n + 1] = ReadChar(g[n], char)
    <3>1. PICK j : j = n + 1
      OBVIOUS
    <3>2. j \in 1 .. n + 1 /\ j - 1 = n
      BY <2>2, <3>1
    <3>3. QED BY <2>2, <2>5, <3>1, <3>2
  <2>11. QED BY <2>1, <2>3, <2>5, <2>9, <2>10
<1>4. QED BY <1>1, <1>2, <1>3

\* Two texts, one after the other.
LEMMA AfterBoth ==
  ASSUME NEW s \in State, NEW x \in Text, NEW y \in Text
  PROVE  After(s, x \o y) = After(After(s, x), y)
<1> DEFINE T == {z \in Text : After(s, x \o z) = After(After(s, x), z)}
<1>1. After(s, x) \in State
  BY AfterMore
<1>2. <<>> \in T
  <2>1. <<>> \in Text /\ x \o <<>> = x
    BY DEF Text
  <2>2. QED BY <1>1, <2>1, AfterMore
<1>3. ASSUME NEW z \in Text, NEW char \in Chars, z \in T PROVE Append(z, char) \in T
  <2>1. Append(z, char) \in Text /\ x \o z \in Text /\ x \o Append(z, char) = Append(x \o z, char)
    BY DEF Text
  <2>2. After(s, Append(x \o z, char)) = ReadChar(After(s, x \o z), char)
    BY <2>1, AfterMore
  <2>3. After(After(s, x), Append(z, char)) = ReadChar(After(After(s, x), z), char)
    BY <1>1, AfterMore
  <2>4. QED BY <1>3, <2>1, <2>2, <2>3
<1> HIDE DEF T
<1>4. Text \subseteq T
  BY ONLY <1>2, <1>3, Grow DEF Text
<1>5. QED BY <1>4 DEF T

-----------------------------------------------------------------------------
(* What the loop makes of blanks, and of a quoted argument.                  *)

\* A character of an argument added to the word.
With(s, text) == [s EXCEPT !.current = @ \o text]
Unquoted(s)      == s \in State /\ ~s.quoted /\ ~s.escaping
InQuotes(s)     == s \in State /\ s.quoted /\ ~s.escaping

LEMMA Letters ==
  /\ White \subseteq Chars /\ Quote \in Chars /\ Slash \in Chars /\ Blank \in White
  /\ Quote \notin White /\ Slash \notin White /\ Quote # Slash /\ Blank \in Chars
  /\ \A w \in Seq(White) : w \in Text
  /\ \A char \in Chars : <<char>> \in Text
  /\ <<>> \in Text /\ <<>> \in Seq(White) /\ <<Blank>> \in Seq(White)
  /\ Command \in Text /\ Command = <<"letter">> /\ "letter" \in Chars /\ "letter" \notin White
<1>1. /\ White \subseteq Chars /\ Quote \in Chars /\ Slash \in Chars /\ Blank \in White
      /\ Quote \notin White /\ Slash \notin White /\ Quote # Slash /\ "letter" \in Chars /\ "letter" \notin White
  BY DEF White, Chars, Quote, Slash, Blank
<1>2. /\ \A w \in Seq(White) : w \in Text
      /\ \A char \in Chars : <<char>> \in Text
      /\ <<>> \in Text /\ <<>> \in Seq(White) /\ <<Blank>> \in Seq(White)
  BY <1>1 DEF Text
<1>3. Command \in Text /\ Command = <<"letter">>
  BY <1>1, <1>2 DEF Command
<1>4. QED BY <1>1, <1>2, <1>3

LEMMA WithType ==
  ASSUME NEW s \in State, NEW text \in Text
  PROVE  /\ With(s, text) \in State /\ With(s, text).current = s.current \o text
         /\ With(s, text).quoted = s.quoted /\ With(s, text).escaping = s.escaping
         /\ With(s, text).out = s.out
         /\ With(s, <<>>) = s
         /\ \A char \in Chars :
              With(s, Append(text, char)) = [With(s, text) EXCEPT !.current = Append(@, char)]
<1>1. s.current \in Text
  BY DEF State
<1>2. PICK c \in Text : c = s.current \o text
  <2>1. s.current \o text \in Text
    BY <1>1 DEF Text
  <2>2. QED BY <2>1
<1>3. s.current \o <<>> = s.current
  BY <1>1 DEF Text
<1>4. With(s, text) = [s EXCEPT !.current = c]
  BY <1>2 DEF With
<1>5. /\ With(s, text) \in State /\ With(s, text).current = c
      /\ With(s, text).quoted = s.quoted /\ With(s, text).escaping = s.escaping
      /\ With(s, text).out = s.out
  BY <1>4 DEF State
<1>6. With(s, <<>>) = s
  BY <1>3 DEF With, State
<1>7. ASSUME NEW char \in Chars
      PROVE  With(s, Append(text, char)) = [With(s, text) EXCEPT !.current = Append(@, char)]
  <2>1. s.current \o Append(text, char) = Append(c, char)
    <3>1. PICK x \in Text : x = s.current
      BY <1>1
    <3>2. x \o Append(text, char) = Append(x \o text, char)
      BY DEF Text
    <3>3. QED BY <1>2, <3>1, <3>2
  <2>2. With(s, Append(text, char)) = [s EXCEPT !.current = Append(c, char)]
    BY <2>1 DEF With
  <2>3. PICK d : d = Append(c, char)
    OBVIOUS
  <2>4. With(s, Append(text, char)) = [s EXCEPT !.current = d]
    BY <2>2, <2>3
  <2>5. [With(s, text) EXCEPT !.current = Append(@, char)] = [s EXCEPT !.current = d]
    BY <1>4, <1>5, <2>3 DEF State
  <2>6. QED BY <2>4, <2>5
<1>8. QED BY <1>2, <1>5, <1>6, <1>7

LEMMA Whites ==
  ASSUME NEW s, Unquoted(s)
  PROVE  \A w \in Seq(White) :
           IF w = <<>> THEN After(s, w) = s ELSE After(s, w) = NewWord(s)
<1> DEFINE T == {w \in Seq(White) : IF w = <<>> THEN After(s, w) = s ELSE After(s, w) = NewWord(s)}
<1>1. s \in State
  BY DEF Unquoted
<1>2. <<>> \in T
  BY <1>1, AfterMore
<1>3. ASSUME NEW w \in Seq(White), NEW char \in White, w \in T PROVE Append(w, char) \in T
  <2>1. w \in Text /\ char \in Chars /\ Append(w, char) \in Seq(White) /\ Append(w, char) # <<>>
    BY Letters
  <2>2. After(s, Append(w, char)) = ReadChar(After(s, w), char)
    BY <1>1, <2>1, AfterMore
  <2>3. After(s, w) \in {s, NewWord(s)}
    BY <1>3
  <2>4. ASSUME NEW t \in {s, NewWord(s)} PROVE ReadChar(t, char) = NewWord(s)
    <3>1. ~t.quoted /\ ~t.escaping /\ NewWord(t) = NewWord(s)
      BY <1>1, NewWordType DEF Unquoted
    <3>2. char # Slash /\ char # Quote
      BY Letters
    <3>3. QED BY <3>1, <3>2 DEF ReadChar
  <2>5. QED BY <2>1, <2>2, <2>3, <2>4
<1> HIDE DEF T
<1>4. Seq(White) \subseteq T
  BY ONLY <1>2, <1>3, Grow
<1>5. QED BY <1>4 DEF T

LEMMA Escapes ==
  ASSUME NEW s, InQuotes(s), NEW char \in Chars
  PROVE  Escaped(char) \in Text /\ After(s, Escaped(char)) = [s EXCEPT !.current = Append(@, char)]
<1>1. s \in State /\ s.quoted /\ ~s.escaping
  BY DEF InQuotes
<1>2. CASE char \in {Quote, Slash}
  <2>1. Escaped(char) = Append(<<Slash>>, char) /\ <<Slash>> = Append(<<>>, Slash)
    BY <1>2 DEF Escaped
  <2>2. <<Slash>> \in Text /\ <<>> \in Text /\ Append(<<Slash>>, char) \in Text
    BY Letters DEF Text
  <2>3. After(s, <<Slash>>) = ReadChar(s, Slash)
    <3>1. After(s, Append(<<>>, Slash)) = ReadChar(After(s, <<>>), Slash) /\ After(s, <<>>) = s
      BY <1>1, <2>2, Letters, AfterMore
    <3>2. QED BY <3>1, <2>1
  <2>4. PICK t : t = [s EXCEPT !.escaping = TRUE]
    OBVIOUS
  <2>5. ReadChar(s, Slash) = t
    BY <1>1, <2>4, Letters DEF ReadChar
  <2>6. After(s, Append(<<Slash>>, char)) = ReadChar(t, char)
    BY <1>1, <2>2, <2>3, <2>5, AfterMore
  <2>7. t.escaping /\ t.current = s.current
    BY <1>1, <2>4 DEF State
  <2>8. ReadChar(t, char) = [t EXCEPT !.current = Append(@, char), !.escaping = FALSE]
    BY <2>7 DEF ReadChar
  <2>9. [t EXCEPT !.current = Append(@, char), !.escaping = FALSE] = [s EXCEPT !.current = Append(@, char)]
    <3>1. PICK c : c = Append(s.current, char)
      OBVIOUS
    <3>2. [t EXCEPT !.current = c, !.escaping = FALSE] = [s EXCEPT !.current = c]
      BY <1>1, <2>4 DEF State
    <3>3. QED BY <2>7, <3>1, <3>2
  <2>10. QED BY <2>1, <2>2, <2>6, <2>8, <2>9
<1>3. CASE char \notin {Quote, Slash}
  <2>1. Escaped(char) = <<char>> /\ <<char>> = Append(<<>>, char)
    BY <1>3 DEF Escaped
  <2>2. <<char>> \in Text /\ <<>> \in Text
    BY Letters
  <2>3. After(s, <<char>>) = ReadChar(s, char)
    <3>1. After(s, Append(<<>>, char)) = ReadChar(After(s, <<>>), char) /\ After(s, <<>>) = s
      BY <1>1, <2>2, AfterMore
    <3>2. QED BY <3>1, <2>1
  <2>4. ReadChar(s, char) = [s EXCEPT !.current = Append(@, char)]
    BY <1>1, <1>3 DEF ReadChar
  <2>5. QED BY <2>1, <2>2, <2>3, <2>4
<1>4. QED BY <1>2, <1>3

\* What stands between the quotes.
Escape(text) == FlattenSeq([i \in DOMAIN text |-> Escaped(text[i])])

LEMMA EscapeMore ==
  /\ Escape(<<>>) = <<>>
  /\ \A text \in Text : Escape(text) \in Text
  /\ \A text \in Text, char \in Chars : Escape(Append(text, char)) = Escape(text) \o Escaped(char)
<1> DEFINE Seqs(text) == [i \in DOMAIN text |-> Escaped(text[i])]
<1>1. \A char \in Chars : Escaped(char) \in Text
  BY Letters DEF Escaped, Text
<1>2. ASSUME NEW text \in Text PROVE Seqs(text) \in Seq(Text) /\ Len(Seqs(text)) = Len(text)
  <2>1. Len(text) \in Nat /\ DOMAIN text = 1 .. Len(text) /\ \A i \in 1 .. Len(text) : text[i] \in Chars
    BY DEF Text
  <2>2. \A i \in 1 .. Len(text) : Escaped(text[i]) \in Text
    BY <1>1, <2>1
  <2> HIDE DEF Text
  <2>3. QED BY <2>1, <2>2
<1>3. Escape(<<>>) = <<>>
  <2>1. Seqs(<<>>) = <<>>
    BY <1>2, Letters
  <2>2. QED BY <2>1, FlattenMore DEF Escape
<1>4. ASSUME NEW text \in Text PROVE Escape(text) \in Text
  <2>1. Seqs(text) \in Seq(Seq(Chars))
    BY <1>2 DEF Text
  <2> HIDE DEF Seqs
  <2>2. FlattenSeq(Seqs(text)) \in Seq(Chars)
    BY <2>1, FlattenMore
  <2>3. QED BY <2>2 DEF Escape, Seqs, Text
<1>5. ASSUME NEW text \in Text, NEW char \in Chars
      PROVE  Escape(Append(text, char)) = Escape(text) \o Escaped(char)
  <2>1. PICK more \in Text : more = Append(text, char)
    <3>1. Append(text, char) \in Text
      BY DEF Text
    <3>2. QED BY <3>1
  <2>2. /\ Len(text) \in Nat /\ Len(more) = Len(text) + 1 /\ more[Len(text) + 1] = char
        /\ DOMAIN text = 1 .. Len(text) /\ DOMAIN more = 1 .. Len(more)
        /\ \A k \in 1 .. Len(text) : more[k] = text[k]
    BY <2>1 DEF Text
  <2>3. Seqs(text) \in Seq(Text) /\ Seqs(more) \in Seq(Text) /\ Escaped(char) \in Text
    BY <1>1, <1>2
  <2>4. Seqs(more) = Append(Seqs(text), Escaped(char))
    <3>1. PICK A : A = Text
      OBVIOUS
    <3>2. PICK p \in Seq(A) : p = Seqs(text)
      BY <2>3, <3>1
    <3>3. PICK q \in Seq(A) : q = Seqs(more)
      BY <2>3, <3>1
    <3>4. PICK e \in A : e = Escaped(char)
      BY <2>3, <3>1
    <3>5. Len(p) = Len(text) /\ Len(q) = Len(p) + 1
      BY <1>2, <2>2, <3>2, <3>3
    <3>6. q[Len(p) + 1] = e /\ \A k \in 1 .. Len(p) : q[k] = p[k]
      BY <2>2, <3>2, <3>3, <3>4, <3>5
    <3> HIDE DEF Seqs
    <3>7. q = Append(p, e)
      BY <3>5, <3>6
    <3>8. QED BY <3>2, <3>3, <3>4, <3>7
  <2>5. Seqs(text) \in Seq(Seq(Chars)) /\ Escaped(char) \in Seq(Chars)
    BY <2>3 DEF Text
  <2> HIDE DEF Seqs
  <2>6. FlattenSeq(Append(Seqs(text), Escaped(char))) = FlattenSeq(Seqs(text)) \o Escaped(char)
    BY <2>5, FlattenMore
  <2>7. Escape(more) = FlattenSeq(Seqs(more)) /\ Escape(text) = FlattenSeq(Seqs(text))
    BY DEF Escape, Seqs
  <2>8. QED BY <2>1, <2>4, <2>6, <2>7
<1>6. QED BY <1>3, <1>4, <1>5

\* Between quotes, whatever the argument holds is read as it is.
LEMMA EscapedArrives ==
  ASSUME NEW s, InQuotes(s)
  PROVE  \A text \in Text : After(s, Escape(text)) = With(s, text)
<1> DEFINE T == {text \in Text : After(s, Escape(text)) = With(s, text)}
<1>1. s \in State
  BY DEF InQuotes
<1>2. <<>> \in T
  BY <1>1, AfterMore, EscapeMore, WithType, Letters
<1>3. ASSUME NEW text \in Text, NEW char \in Chars, text \in T PROVE Append(text, char) \in T
  <2>1. Append(text, char) \in Text
    BY DEF Text
  <2>2. InQuotes(With(s, text))
    BY WithType DEF InQuotes
  <2>3. Escape(text) \in Text /\ Escaped(char) \in Text
    BY <2>2, EscapeMore, Escapes
  <2>4. After(s, Escape(text) \o Escaped(char)) = After(With(s, text), Escaped(char))
    BY <1>1, <1>3, <2>3, AfterBoth
  <2>5. After(With(s, text), Escaped(char)) = [With(s, text) EXCEPT !.current = Append(@, char)]
    BY <2>2, Escapes
  <2>6. With(s, Append(text, char)) = [With(s, text) EXCEPT !.current = Append(@, char)]
    BY <1>1, WithType
  <2>7. Escape(Append(text, char)) = Escape(text) \o Escaped(char)
    BY EscapeMore
  <2>8. After(s, Escape(Append(text, char))) = With(s, Append(text, char))
    BY <2>4, <2>5, <2>6, <2>7
  <2>9. QED BY <2>1, <2>8
<1> HIDE DEF T
<1>4. Text \subseteq T
  BY ONLY <1>2, <1>3, Grow DEF Text
<1>5. QED BY <1>4 DEF T

\* Without quotes, letters are.
LEMMA LettersArrive ==
  ASSUME NEW s, Unquoted(s)
  PROVE  \A text \in Seq({"letter"}) : text \in Text /\ After(s, text) = With(s, text)
<1> DEFINE T == {text \in Text : After(s, text) = With(s, text)}
<1>1. s \in State
  BY DEF Unquoted
<1>2. <<>> \in T
  BY <1>1, AfterMore, WithType, Letters
<1>3. ASSUME NEW text \in Seq({"letter"}), NEW char \in {"letter"}, text \in T PROVE Append(text, char) \in T
  <2>1. char \in Chars /\ char \notin White \union {Quote, Slash}
    BY DEF Chars, White, Quote, Slash, Blank
  <2>2. text \in Text /\ Append(text, char) \in Text
    BY <1>3, <2>1 DEF Text
  <2>3. ~With(s, text).escaping /\ ~With(s, text).quoted
    BY <2>2, WithType DEF Unquoted
  <2>4. ReadChar(With(s, text), char) = [With(s, text) EXCEPT !.current = Append(@, char)]
    BY <2>1, <2>3 DEF ReadChar
  <2>5. With(s, Append(text, char)) = [With(s, text) EXCEPT !.current = Append(@, char)]
    BY <1>1, <2>1, <2>2, WithType
  <2>6. After(s, Append(text, char)) = ReadChar(With(s, text), char)
    BY <1>1, <1>3, <2>1, <2>2, AfterMore
  <2>7. After(s, Append(text, char)) = With(s, Append(text, char))
    BY <2>4, <2>5, <2>6
  <2>8. QED BY <2>2, <2>7
<1> HIDE DEF T
<1>4. Seq({"letter"}) \subseteq T
  BY ONLY <1>2, <1>3, Grow
<1>5. QED BY <1>4 DEF T

\* An argument, quoted or not.
LEMMA ArgumentArrives ==
  ASSUME NEW s, Unquoted(s), NEW text \in Text
  PROVE  QuoteArg(text) \in Text /\ After(s, QuoteArg(text)) = With(s, text)
<1>1. s \in State /\ ~s.quoted /\ ~s.escaping
  BY DEF Unquoted
<1>2. CASE Has(text, White \union {Quote, Slash})
  <2>1. PICK t : t = [s EXCEPT !.quoted = TRUE]
    OBVIOUS
  <2>2. InQuotes(t) /\ t.current = s.current
    BY <1>1, <2>1 DEF InQuotes, State
  <2>3. QuoteArg(text) = (<<Quote>> \o Escape(text)) \o <<Quote>>
    BY <1>2 DEF QuoteArg, Escape
  <2>4. <<Quote>> \in Text /\ Escape(text) \in Text /\ <<Quote>> \o Escape(text) \in Text
    BY Letters, EscapeMore DEF Text
  <2>5. QuoteArg(text) \in Text
    BY <2>3, <2>4 DEF Text
  <2>6. ASSUME NEW u \in State PROVE After(u, <<Quote>>) = ReadChar(u, Quote)
    <3>1. <<Quote>> = Append(<<>>, Quote)
      OBVIOUS
    <3>2. <<>> \in Text /\ Quote \in Chars
      BY Letters
    <3>3. After(u, Append(<<>>, Quote)) = ReadChar(After(u, <<>>), Quote) /\ After(u, <<>>) = u
      BY <3>2, AfterMore
    <3>4. QED BY <3>1, <3>3
  <2>7. After(s, <<Quote>>) = t
    <3>1. ReadChar(s, Quote) = [s EXCEPT !.quoted = ~@]
      BY <1>1, Letters DEF ReadChar
    <3>2. QED BY <1>1, <2>1, <2>6, <3>1
  <2>8. After(s, <<Quote>> \o Escape(text)) = With(t, text)
    BY <1>1, <2>2, <2>4, <2>7, AfterBoth, EscapedArrives
  <2>9. t \in State /\ With(t, text) \in State /\ With(t, text).quoted /\ ~With(t, text).escaping
    BY <2>2, WithType DEF InQuotes
  <2>10. ReadChar(With(t, text), Quote) = [With(t, text) EXCEPT !.quoted = ~@]
    BY <2>9, Letters DEF ReadChar
  <2>11. [With(t, text) EXCEPT !.quoted = ~@] = With(s, text)
    <3>1. PICK c : c = s.current \o text
      OBVIOUS
    <3>2. With(t, text) = [t EXCEPT !.current = c] /\ With(s, text) = [s EXCEPT !.current = c]
      BY <2>2, <3>1 DEF With
    <3>3. [[t EXCEPT !.current = c] EXCEPT !.quoted = FALSE] = [s EXCEPT !.current = c]
      BY <1>1, <2>1 DEF State
    <3>4. QED BY <2>9, <3>2, <3>3
  <2>12. After(s, QuoteArg(text)) = With(s, text)
    BY <1>1, <2>3, <2>4, <2>6, <2>8, <2>9, <2>10, <2>11, AfterBoth
  <2>13. QED BY <2>5, <2>12
<1>3. CASE ~Has(text, White \union {Quote, Slash})
  <2>1. text \in Seq({"letter"})
    <3>1. \A i \in 1 .. Len(text) : text[i] \in Chars /\ text[i] \notin White \union {Quote, Slash}
      BY <1>3 DEF Has, Text
    <3>2. \A i \in 1 .. Len(text) : text[i] \in {"letter"}
      BY <3>1 DEF Chars
    <3>3. QED BY <3>2 DEF Text
  <2>2. QuoteArg(text) = text
    BY <1>3 DEF QuoteArg
  <2>3. QED BY <2>1, <2>2, LettersArrive
<1>4. QED BY <1>2, <1>3

-----------------------------------------------------------------------------
(* A whole command line.                                                     *)

Inked(c) == c = <<>> \/ (c[1] \notin White /\ c[Len(c)] \notin White)

LEMMA QuotedIsInked ==
  ASSUME NEW text \in Text
  PROVE  /\ Inked(QuoteArg(text)) /\ QuoteArg(<<>>) = <<>>
         /\ text # <<>> => QuoteArg(text) # <<>>
<1>1. CASE Has(text, White \union {Quote, Slash})
  <2>1. QuoteArg(text) = (<<Quote>> \o Escape(text)) \o <<Quote>> /\ Escape(text) \in Text
    BY <1>1, EscapeMore DEF QuoteArg, Escape
  <2>2. PICK e \in Text : e = Escape(text)
    BY <2>1
  <2>3. PICK q : q = (<<Quote>> \o e) \o <<Quote>>
    OBVIOUS
  <2>4. Quote \in Chars
    BY Letters
  <2>5. Len(q) = Len(e) + 2 /\ Len(e) \in Nat /\ q[1] = Quote /\ q[Len(q)] = Quote
    BY <2>3, <2>4 DEF Text
  <2>6. q # <<>>
    BY <2>5
  <2>7. Inked(QuoteArg(text)) /\ QuoteArg(text) # <<>>
    BY <2>1, <2>2, <2>3, <2>5, <2>6, Letters DEF Inked
  <2>8. QuoteArg(<<>>) = <<>>
    BY DEF QuoteArg, Has
  <2>9. QED BY <2>7, <2>8
<1>2. CASE ~Has(text, White \union {Quote, Slash})
  <2>1. QuoteArg(text) = text /\ QuoteArg(<<>>) = <<>>
    BY <1>2 DEF QuoteArg, Has
  <2>2. ASSUME text # <<>> PROVE text[1] \notin White /\ text[Len(text)] \notin White
    <3>1. 1 \in DOMAIN text /\ Len(text) \in DOMAIN text
      BY <2>2 DEF Text
    <3>2. QED BY <3>1, <1>2 DEF Has
  <2>3. QED BY <2>1, <2>2 DEF Inked
<1>3. QED BY <1>1, <1>2

\* Joining and dropping the empty ones, an argument at a time.
LEMMA JoinMore ==
  /\ JoinArgs(<<>>) = <<>> /\ NonEmpty(<<>>) = <<>>
  /\ \A list \in Seq(Text), text \in Text :
       /\ JoinArgs(Append(list, text)) =
            JoinArgs(list) \o ((IF list = <<>> THEN <<>> ELSE <<Blank>>) \o QuoteArg(text))
       /\ NonEmpty(Append(list, text)) = NonEmpty(list) \o (IF text = <<>> THEN <<>> ELSE <<text>>)
<1> DEFINE Joint(i) == IF i = 1 THEN <<>> ELSE <<Blank>>
           Joins(list) == [i \in DOMAIN list |-> Joint(i) \o QuoteArg(list[i])]
           Keep(text) == IF text = <<>> THEN <<>> ELSE <<text>>
           Keeping(list) == [i \in DOMAIN list |-> Keep(list[i])]
<1>1. \A i \in Nat, text \in Text : Joint(i) \o QuoteArg(text) \in Text
  <2>1. Unquoted(Begin)
    BY Letters DEF Unquoted, Begin, State
  <2>2. \A text \in Text : QuoteArg(text) \in Text
    BY <2>1, ArgumentArrives
  <2>3. \A i \in Nat : Joint(i) \in Text
    BY Letters
  <2> HIDE DEF Joint
  <2>4. QED BY <2>2, <2>3 DEF Text
<1>2. \A text \in Text : Keep(text) \in Seq(Text)
  OBVIOUS
<1> HIDE DEF Joint, Keep
<1>3. ASSUME NEW list \in Seq(Text)
      PROVE  /\ Joins(list) \in Seq(Text) /\ Len(Joins(list)) = Len(list)
             /\ Keeping(list) \in Seq(Seq(Text)) /\ Len(Keeping(list)) = Len(list)
  <2>1. Len(list) \in Nat /\ DOMAIN list = 1 .. Len(list) /\ \A i \in 1 .. Len(list) : list[i] \in Text
    OBVIOUS
  <2>2. \A i \in 1 .. Len(list) : Joint(i) \o QuoteArg(list[i]) \in Text /\ Keep(list[i]) \in Seq(Text)
    BY <1>1, <1>2, <2>1
  <2>3. Joins(list) \in Seq(Text) /\ Len(Joins(list)) = Len(list)
    BY <2>1, <2>2
  <2>4. PICK A : A = Seq(Text)
    OBVIOUS
  <2>5. \A i \in 1 .. Len(list) : Keep(list[i]) \in A
    BY <2>2, <2>4
  <2>6. Keeping(list) \in Seq(A) /\ Len(Keeping(list)) = Len(list)
    BY <2>1, <2>5
  <2>7. QED BY <2>3, <2>4, <2>6
<1>4. JoinArgs(<<>>) = <<>> /\ NonEmpty(<<>>) = <<>>
  <2>1. Joins(<<>>) = <<>> /\ Keeping(<<>>) = <<>>
    OBVIOUS
  <2>2. QED BY <2>1, FlattenMore DEF JoinArgs, NonEmpty, Joint, Keep
<1>5. ASSUME NEW list \in Seq(Text), NEW text \in Text
      PROVE  /\ JoinArgs(Append(list, text)) = JoinArgs(list) \o (Joint(Len(list) + 1) \o QuoteArg(text))
             /\ NonEmpty(Append(list, text)) = NonEmpty(list) \o Keep(text)
  <2>1. PICK more \in Seq(Text) : more = Append(list, text)
    <3>1. Append(list, text) \in Seq(Text)
      OBVIOUS
    <3>2. QED BY <3>1
  <2>2. /\ Len(list) \in Nat /\ Len(more) = Len(list) + 1 /\ more[Len(list) + 1] = text
        /\ DOMAIN list = 1 .. Len(list) /\ DOMAIN more = 1 .. Len(more)
        /\ \A k \in 1 .. Len(list) : more[k] = list[k]
    BY <2>1
  <2>3. PICK n \in Nat : n = Len(list)
    BY <2>2
  <2>4. PICK e \in Text : e = Joint(n + 1) \o QuoteArg(text)
    <3>1. Joint(n + 1) \o QuoteArg(text) \in Text
      BY <1>1
    <3>2. QED BY <3>1
  <2>5. Joins(more) = Append(Joins(list), e)
    <3>1. PICK p \in Seq(Text) : p = Joins(list)
      BY <1>3
    <3>2. PICK q \in Seq(Text) : q = Joins(more)
      BY <1>3
    <3>3. Len(p) = n /\ Len(q) = n + 1
      BY <1>3, <2>2, <2>3, <3>1, <3>2
    <3>4. q[n + 1] = e /\ \A k \in 1 .. n : q[k] = p[k]
      <4>1. PICK j : j = n + 1
        OBVIOUS
      <4>2. j \in DOMAIN more /\ more[j] = text
        BY <2>2, <2>3, <4>1
      <4>3. q[j] = Joint(j) \o QuoteArg(more[j])
        BY <3>2, <4>2
      <4>4. ASSUME NEW k \in 1 .. n PROVE q[k] = p[k]
        <5>1. k \in DOMAIN more /\ k \in DOMAIN list /\ more[k] = list[k]
          BY <2>2, <2>3
        <5>2. q[k] = Joint(k) \o QuoteArg(more[k]) /\ p[k] = Joint(k) \o QuoteArg(list[k])
          BY <3>1, <3>2, <5>1
        <5>3. QED BY <5>1, <5>2
      <4>5. q[n + 1] = e
        BY <2>4, <4>1, <4>2, <4>3
      <4>6. QED BY <4>4, <4>5
    <3> HIDE DEF Joins
    <3>5. q = Append(p, e)
      BY <3>3, <3>4
    <3>6. QED BY <3>1, <3>2, <3>5
  <2>6. Keeping(more) = Append(Keeping(list), Keep(text))
    <3>1. PICK A : A = Seq(Text)
      OBVIOUS
    <3>2. PICK p \in Seq(A) : p = Keeping(list)
      BY <1>3, <3>1
    <3>3. PICK q \in Seq(A) : q = Keeping(more)
      BY <1>3, <3>1
    <3>4. PICK d \in A : d = Keep(text)
      BY <1>2, <3>1
    <3>5. Len(p) = n /\ Len(q) = n + 1
      BY <1>3, <2>2, <2>3, <3>2, <3>3
    <3>6. q[n + 1] = d /\ \A k \in 1 .. n : q[k] = p[k]
      BY <2>2, <2>3, <3>2, <3>3, <3>4
    <3> HIDE DEF Keeping
    <3>7. q = Append(p, d)
      BY <3>5, <3>6
    <3>8. QED BY <3>2, <3>3, <3>4, <3>7
  <2>7. JoinArgs(more) = FlattenSeq(Joins(more)) /\ JoinArgs(list) = FlattenSeq(Joins(list))
    BY DEF JoinArgs, Joint
  <2>8. NonEmpty(more) = FlattenSeq(Keeping(more)) /\ NonEmpty(list) = FlattenSeq(Keeping(list))
    BY DEF NonEmpty, Keep
  <2>9. Joins(list) \in Seq(Seq(Chars)) /\ e \in Seq(Chars)
    BY <1>3, <2>4 DEF Text
  <2>10. Keeping(list) \in Seq(Seq(Text)) /\ Keep(text) \in Seq(Text)
    BY <1>2, <1>3
  <2> HIDE DEF Joins, Keeping
  <2>11. FlattenSeq(Append(Joins(list), e)) = FlattenSeq(Joins(list)) \o e
    BY <2>9, FlattenMore
  <2>12. FlattenSeq(Append(Keeping(list), Keep(text))) = FlattenSeq(Keeping(list)) \o Keep(text)
    BY <2>10, FlattenMore
  <2>13. QED BY <2>1, <2>3, <2>4, <2>5, <2>6, <2>7, <2>8, <2>11, <2>12
<1>6. ASSUME NEW list \in Seq(Text) PROVE Joint(Len(list) + 1) = IF list = <<>> THEN <<>> ELSE <<Blank>>
  <2>1. Len(list) \in Nat /\ (list = <<>> <=> Len(list) + 1 = 1)
    OBVIOUS
  <2>2. QED BY <2>1 DEF Joint
<1>7. ASSUME NEW list \in Seq(Text), NEW text \in Text
      PROVE  /\ JoinArgs(Append(list, text)) =
                  JoinArgs(list) \o ((IF list = <<>> THEN <<>> ELSE <<Blank>>) \o QuoteArg(text))
             /\ NonEmpty(Append(list, text)) = NonEmpty(list) \o Keep(text)
  BY <1>5, <1>6
<1>8. QED BY <1>4, <1>7 DEF Keep

LEMMA Regroup ==
  ASSUME NEW x \in Text, NEW y \in Text, NEW z \in Text
  PROVE  (x \o y) \o z = x \o (y \o z)
BY DEF Text

LEMMA OneMore ==
  ASSUME NEW x \in Text, NEW y \in Text, NEW char \in Chars
  PROVE  x \o Append(y, char) = Append(x \o y, char)
BY DEF Text

LEMMA OneAhead ==
  ASSUME NEW x \in Text, NEW char \in Chars
  PROVE  /\ Len(<<char>> \o x) = Len(x) + 1 /\ (<<char>> \o x)[1] = char
         /\ \A i \in 1 .. Len(x) : (<<char>> \o x)[i + 1] = x[i]
<1>1. Len(x) \in Nat /\ <<char>> \in Seq(Chars)
  BY DEF Text
<1>2. PICK y \in Seq(Chars) : y = <<char>>
  BY <1>1
<1>3. Len(y) = 1 /\ y[1] = char
  BY <1>2
<1>4. PICK z : z = y \o x
  OBVIOUS
<1>5. Len(z) = Len(x) + 1 /\ z[1] = y[1] /\ \A i \in 1 .. Len(x) : z[i + 1] = x[i]
  <2>1. /\ Len(z) = Len(y) + Len(x) /\ \A i \in 1 .. Len(y) : z[i] = y[i]
        /\ \A i \in Len(y) + 1 .. Len(y) + Len(x) : z[i] = x[i - Len(y)]
    BY <1>4 DEF Text
  <2>2. 1 \in 1 .. Len(y)
    BY <1>3
  <2>3. ASSUME NEW i \in 1 .. Len(x) PROVE z[i + 1] = x[i]
    <3>1. i + 1 \in Len(y) + 1 .. Len(y) + Len(x) /\ (i + 1) - Len(y) = i
      BY <1>1, <1>3
    <3>2. QED BY <2>1, <3>1
  <2>4. Len(y) + Len(x) = Len(x) + 1
    BY <1>1, <1>3
  <2>5. QED BY <2>1, <2>2, <2>3, <2>4
<1>6. QED BY <1>2, <1>3, <1>4, <1>5

LEMMA BothAreText ==
  ASSUME NEW x \in Text, NEW y \in Text
  PROVE  x \o y \in Text
BY DEF Text

\* A command line is white before a, and behind b; what is between is read as the
\* arguments, without the empty ones.
Joined(list, a, c, b) ==
  /\ a \in Seq(White) /\ b \in Seq(White) /\ c \in Text /\ Inked(c)
  /\ JoinArgs(list) = a \o (c \o b)
  /\ Unquoted(After(Begin, c)) /\ NewWord(After(Begin, c)).out = NonEmpty(list)

LEMMA FirstWord ==
  /\ Unquoted(Begin) /\ After(Begin, <<>>) = Begin /\ NewWord(Begin).out = <<>> /\ NewWord(Begin) = Begin
<1>1. Begin \in State
  BY Letters DEF Begin, State
<1>2. QED BY <1>1, AfterMore DEF Unquoted, Begin, NewWord

\* A new word is the argument that was added.
LEMMA WordAdded ==
  ASSUME NEW s, Unquoted(s), s.current = <<>>, NEW text \in Text, text # <<>>
  PROVE  Unquoted(With(s, text)) /\ NewWord(With(s, text)).out = s.out \o <<text>>
<1>1. s \in State /\ s.out \in Seq(Text)
  BY DEF Unquoted, State
<1>2. With(s, text).current = text /\ With(s, text).out = s.out /\ With(s, text) \in State
  <2>1. <<>> \o text = text
    BY DEF Text
  <2>2. QED BY <1>1, <2>1, WithType
<1>3. Unquoted(With(s, text))
  BY <1>1, <1>2, WithType DEF Unquoted
<1>4. NewWord(With(s, text)).out = Append(s.out, text)
  <2>1. PICK o : o = Append(s.out, text)
    OBVIOUS
  <2>2. NewWord(With(s, text)) = [With(s, text) EXCEPT !.out = o, !.current = <<>>]
    BY <1>2, <2>1 DEF NewWord
  <2>3. NewWord(With(s, text)).out = o
    BY <1>2, <2>2 DEF State
  <2>4. QED BY <2>1, <2>3
<1>5. Append(s.out, text) = s.out \o <<text>>
  BY <1>1
<1>6. QED BY <1>3, <1>4, <1>5

LEMMA JoinedMore ==
  ASSUME NEW list \in Seq(Text), NEW text \in Text,
         NEW a, NEW c, NEW b, Joined(list, a, c, b)
  PROVE  \E a2, c2, b2 : Joined(Append(list, text), a2, c2, b2)
<1> DEFINE q == QuoteArg(text)
           e == After(Begin, c)
<1>1. PICK more : more = Append(list, text)
  OBVIOUS
<1>2. PICK sep \in Seq(White) : sep = IF list = <<>> THEN <<>> ELSE <<Blank>>
  BY Letters
<1>3. /\ a \in Text /\ b \in Text /\ c \in Text /\ sep \in Text /\ q \in Text /\ <<>> \in Text
      /\ a \in Seq(White) /\ b \in Seq(White)
  BY FirstWord, ArgumentArrives, Letters DEF Joined
<1>4. /\ JoinArgs(more) = (a \o (c \o b)) \o (sep \o q)
      /\ NonEmpty(more) = NonEmpty(list) \o (IF text = <<>> THEN <<>> ELSE <<text>>)
  <2>1. JoinArgs(list) = a \o (c \o b)
    BY DEF Joined
  <2>2. JoinArgs(more) = JoinArgs(list) \o (sep \o q)
    BY <1>1, <1>2, JoinMore
  <2>3. NonEmpty(more) = NonEmpty(list) \o (IF text = <<>> THEN <<>> ELSE <<text>>)
    BY <1>1, JoinMore
  <2>4. QED BY <2>1, <2>2, <2>3
<1>5. NonEmpty(list) = NewWord(e).out /\ e \in State /\ NonEmpty(list) \in Seq(Text) /\ Unquoted(e)
  <2>1. e \in State /\ Unquoted(e) /\ NonEmpty(list) = NewWord(e).out
    BY DEF Joined, Unquoted
  <2>2. NewWord(e).out \in Seq(Text)
    BY <2>1, NewWordType DEF State
  <2>3. QED BY <2>1, <2>2
<1>6. CASE text = <<>>
  <2>1. q = <<>>
    BY <1>6, QuotedIsInked
  <2>2. JoinArgs(more) = a \o (c \o (b \o sep))
    <3>1. sep \o q = sep /\ c \o b \in Text /\ b \o sep \in Text
      BY <1>3, <2>1 DEF Text
    <3>2. (a \o (c \o b)) \o sep = a \o ((c \o b) \o sep)
      <4>1. a \in Text /\ c \o b \in Text /\ sep \in Text
        BY <1>3, <3>1
      <4>2. QED BY ONLY <4>1, Regroup
    <3>3. (c \o b) \o sep = c \o (b \o sep)
      <4>1. c \in Text /\ b \in Text /\ sep \in Text
        BY <1>3
      <4>2. QED BY ONLY <4>1, Regroup
    <3>4. QED BY <1>4, <3>1, <3>2, <3>3
  <2>3. b \o sep \in Seq(White)
    BY <1>2, <1>3
  <2>4. NonEmpty(more) = NonEmpty(list)
    BY <1>4, <1>5, <1>6
  <2>5. Joined(more, a, c, b \o sep)
    BY <2>2, <2>3, <2>4 DEF Joined
  <2>6. QED BY <1>1, <2>5
<1>7. CASE text # <<>> /\ c = <<>>
  <2> DEFINE a2 == a \o (b \o sep)
  <2>1. a2 \in Seq(White) /\ a2 \in Text
    <3>1. a2 \in Seq(White)
      BY <1>2, <1>3
    <3>2. QED BY <3>1, Letters
  <2>2. JoinArgs(more) = a2 \o (q \o <<>>)
    <3>1. c \o b = b /\ q \o <<>> = q /\ b \o sep \in Text /\ sep \o q \in Text
      BY <1>3, <1>7 DEF Text
    <3> HIDE DEF q
    <3>2. (a \o b) \o (sep \o q) = a \o (b \o (sep \o q))
      <4>1. a \in Text /\ b \in Text /\ sep \o q \in Text
        BY <1>3, <3>1
      <4>2. QED BY ONLY <4>1, Regroup
    <3>3. b \o (sep \o q) = (b \o sep) \o q
      <4>1. b \in Text /\ sep \in Text /\ q \in Text
        BY <1>3
      <4>2. QED BY ONLY <4>1, Regroup
    <3>4. a \o ((b \o sep) \o q) = a2 \o q
      <4>1. a \in Text /\ b \o sep \in Text /\ q \in Text
        BY <1>3, <3>1
      <4>2. QED BY ONLY <4>1, Regroup DEF a2
    <3>5. QED BY <1>4, <3>1, <3>2, <3>3, <3>4
  <2>3. After(Begin, q) = With(Begin, text)
    BY FirstWord, ArgumentArrives
  <2>4. Unquoted(With(Begin, text)) /\ NewWord(With(Begin, text)).out = Begin.out \o <<text>>
    BY <1>7, FirstWord, WordAdded DEF Begin
  <2>5. NonEmpty(list) = <<>> /\ Begin.out = <<>>
    BY <1>5, <1>7, FirstWord DEF Begin
  <2>6. NonEmpty(more) = <<>> \o <<text>>
    BY <1>4, <1>7, <2>5
  <2>7. Inked(q)
    BY QuotedIsInked
  <2> HIDE DEF a2, q
  <2>8. Joined(more, a2, q, <<>>)
    BY <1>3, <2>1, <2>2, <2>3, <2>4, <2>5, <2>6, <2>7, Letters DEF Joined
  <2>9. QED BY <1>1, <2>8
<1>8. CASE text # <<>> /\ c # <<>>
  <2>1. list # <<>>
    <3>1. SUFFICES ASSUME list = <<>> PROVE FALSE
      OBVIOUS
    <3>2. a \o (c \o b) = <<>>
      BY <3>1, JoinMore DEF Joined
    <3>3. Len(a \o (c \o b)) = Len(a) + (Len(c) + Len(b)) /\ Len(c) > 0 /\ Len(a) >= 0 /\ Len(b) >= 0
          /\ Len(a) \in Nat /\ Len(b) \in Nat /\ Len(c) \in Nat
      BY <1>3, <1>8 DEF Text
    <3>4. QED BY <3>2, <3>3
  <2>2. sep = <<Blank>>
    BY <1>2, <2>1
  <2>3. PICK w \in Seq(White) : w = b \o sep
    <3>1. b \o sep \in Seq(White)
      BY <1>2, <1>3
    <3>2. QED BY <3>1
  <2>4. w # <<>> /\ w \in Text
    <3>1. Len(w) = Len(b) + 1 /\ Len(b) \in Nat
      BY <1>3, <2>2, <2>3 DEF Text
    <3>2. QED BY <3>1, Letters
  <2>5. PICK c2 \in Text : c2 = (c \o w) \o q
    <3>1. (c \o w) \o q \in Text
      BY <1>3, <2>4, BothAreText
    <3>2. QED BY <3>1
  <2>6. JoinArgs(more) = a \o (c2 \o <<>>)
    <3>1. c2 \o <<>> = c2 /\ c \o b \in Text /\ sep \o q \in Text
      BY <1>3, <2>5 DEF Text
    <3> HIDE DEF q
    <3>2. (a \o (c \o b)) \o (sep \o q) = a \o ((c \o b) \o (sep \o q))
      <4>1. a \in Text /\ c \o b \in Text /\ sep \o q \in Text
        BY <1>3, <3>1
      <4>2. QED BY ONLY <4>1, Regroup
    <3>3. (c \o b) \o (sep \o q) = c \o (b \o (sep \o q))
      <4>1. c \in Text /\ b \in Text /\ sep \o q \in Text
        BY <1>3, <3>1
      <4>2. QED BY ONLY <4>1, Regroup
    <3>4. b \o (sep \o q) = w \o q
      <4>1. b \in Text /\ sep \in Text /\ q \in Text /\ w = b \o sep
        BY <1>3, <2>3
      <4>2. QED BY ONLY <4>1, Regroup
    <3>5. c \o (w \o q) = c2
      <4>1. c \in Text /\ w \in Text /\ q \in Text
        BY <1>3, <2>4
      <4>2. (c \o w) \o q = c \o (w \o q)
        BY ONLY <4>1, Regroup
      <4>3. QED BY <2>5, <4>2
    <3>6. QED BY <1>4, <3>1, <3>2, <3>3, <3>4, <3>5
  <2>7. After(Begin, c2) = With(NewWord(e), text)
    <3>1. After(Begin, c \o w) = After(e, w) /\ After(e, w) = NewWord(e)
      BY <1>3, <1>5, <2>4, AfterBoth, FirstWord, Whites DEF Unquoted
    <3>2. c \o w \in Text
      BY <1>3, <2>4, BothAreText
    <3>3. After(Begin, c2) = After(NewWord(e), q)
      BY <1>3, <2>5, <3>1, <3>2, AfterBoth, FirstWord DEF Unquoted
    <3>4. Unquoted(NewWord(e))
      BY <1>5, NewWordType DEF Unquoted
    <3>5. QED BY <3>3, <3>4, ArgumentArrives
  <2>8. Unquoted(After(Begin, c2)) /\ NewWord(After(Begin, c2)).out = NonEmpty(list) \o <<text>>
    <3>1. Unquoted(NewWord(e)) /\ NewWord(e).current = <<>>
      BY <1>5, NewWordType DEF Unquoted
    <3>2. QED BY <1>5, <1>8, <2>7, <3>1, WordAdded
  <2>9. Inked(c2)
    <3>1. Inked(c) /\ Inked(q) /\ q # <<>>
      BY <1>8, QuotedIsInked DEF Joined
    <3>2. c2[1] = c[1] /\ c2[Len(c2)] = q[Len(q)]
      <4>1. Len(c) \in Nat \ {0} /\ Len(q) \in Nat \ {0} /\ Len(w) \in Nat
        BY <1>3, <1>8, <2>4, <3>1 DEF Text
      <4>2. Len(c2) = Len(c) + Len(w) + Len(q) /\ c2[1] = c[1]
        BY <1>3, <2>4, <2>5, <4>1 DEF Text
      <4>3. c2[Len(c) + Len(w) + Len(q)] = q[Len(q)]
        <5>1. PICK d \in Text : d = c \o w
          BY <1>3, <2>4, BothAreText
        <5>2. c2 = d \o q /\ Len(d) = Len(c) + Len(w)
          BY <1>3, <2>4, <2>5, <5>1 DEF Text
        <5>3. c2[Len(d) + Len(q)] = q[Len(q)]
          BY <1>3, <4>1, <5>1, <5>2 DEF Text
        <5>4. QED BY <5>2, <5>3
      <4>4. QED BY <4>2, <4>3
    <3>3. QED BY <1>8, <3>1, <3>2 DEF Inked
  <2>10. NonEmpty(more) = NonEmpty(list) \o <<text>>
    BY <1>4, <1>8
  <2>11. Joined(more, a, c2, <<>>)
    BY <1>3, <2>6, <2>8, <2>9, <2>10, Letters DEF Joined
  <2>12. QED BY <1>1, <2>11
<1>9. QED BY <1>6, <1>7, <1>8

LEMMA EveryoneJoined ==
  ASSUME NEW list \in Seq(Text)
  PROVE  \E a, c, b : Joined(list, a, c, b)
<1> DEFINE T == {l \in Seq(Text) : \E a, c, b : Joined(l, a, c, b)}
<1>1. <<>> \in T
  <2>1. <<>> \o (<<>> \o <<>>) = <<>>
    OBVIOUS
  <2>2. Joined(<<>>, <<>>, <<>>, <<>>)
    BY <2>1, JoinMore, FirstWord, Letters DEF Joined, Inked
  <2>3. QED BY <2>2
<1>2. ASSUME NEW l \in Seq(Text), NEW text \in Text, l \in T PROVE Append(l, text) \in T
  <2>1. Append(l, text) \in Seq(Text)
    OBVIOUS
  <2>2. QED BY <1>2, <2>1, JoinedMore
<1> HIDE DEF T
<1>3. Seq(Text) \subseteq T
  BY ONLY <1>1, <1>2, Grow
<1>4. QED BY <1>3 DEF T

-----------------------------------------------------------------------------
(* The request.                                                              *)

\* The library's least and greatest, where there is one.
LEMMA Extremes ==
  ASSUME NEW S \in SUBSET Int, NEW lo \in S, NEW hi \in S, \A i \in S : lo <= i /\ i <= hi
  PROVE  Min(S) = lo /\ Max(S) = hi
<1>1. ASSUME NEW m \in S, \A i \in S : m <= i PROVE m = lo
  BY <1>1
<1>2. ASSUME NEW m \in S, \A i \in S : m >= i PROVE m = hi
  BY <1>2
<1>3. Min(S) = lo
  BY <1>1 DEF Min
<1>4. Max(S) = hi
  BY <1>2 DEF Max
<1>5. QED BY <1>3, <1>4

LEMMA Trimmed ==
  ASSUME NEW a \in Seq(White), NEW b \in Seq(White), NEW c \in Text, Inked(c)
  PROVE  Trim(a \o (c \o b)) = c
<1> DEFINE t == a \o (c \o b)
           ink == {i \in DOMAIN t : t[i] \notin White}
           p == Len(a)  n == Len(c)  r == Len(b)
<1>1. a \in Text /\ b \in Text
  BY Letters
<1>2. /\ p \in Nat /\ n \in Nat /\ r \in Nat
      /\ \A i \in 1 .. p : a[i] \in White
      /\ \A i \in 1 .. r : b[i] \in White
  BY DEF Text
<1>3. /\ t \in Text /\ DOMAIN t = 1 .. p + n + r /\ Len(t) = p + n + r
      /\ \A i \in 1 .. p : t[i] = a[i]
      /\ \A i \in 1 .. n : t[p + i] = c[i]
      /\ \A i \in p + n + 1 .. p + n + r : t[i] = b[i - (p + n)]
  <2>1. PICK d \in Text : d = c \o b
    <3>1. c \o b \in Text
      BY <1>1, BothAreText
    <3>2. QED BY <3>1
  <2>2. /\ Len(d) = n + r
        /\ \A i \in 1 .. n : d[i] = c[i]
        /\ \A i \in n + 1 .. n + r : d[i] = b[i - n]
    BY <1>1, <1>2, <2>1 DEF Text
  <2>3. t = a \o d
    BY <2>1
  <2>4. /\ t \in Text /\ Len(t) = p + Len(d) /\ DOMAIN t = 1 .. Len(t)
        /\ \A i \in 1 .. p : t[i] = a[i]
        /\ \A i \in p + 1 .. p + Len(d) : t[i] = d[i - p]
    <3> HIDE DEF t
    <3>1. QED BY <1>1, <1>2, <2>3 DEF Text
  <2> HIDE DEF t
  <2>5. ASSUME NEW i \in 1 .. n PROVE t[p + i] = c[i]
    <3>1. p + i \in p + 1 .. p + Len(d) /\ (p + i) - p = i
      BY <1>2, <2>2
    <3>2. QED BY <2>2, <2>4, <3>1
  <2>6. ASSUME NEW i \in p + n + 1 .. p + n + r PROVE t[i] = b[i - (p + n)]
    <3>1. i \in p + 1 .. p + Len(d) /\ i - p \in n + 1 .. n + r /\ (i - p) - n = i - (p + n)
      BY <1>2, <2>2
    <3>2. t[i] = d[i - p] /\ d[i - p] = b[(i - p) - n]
      BY <2>2, <2>4, <3>1
    <3>3. QED BY <3>1, <3>2
  <2>7. p + Len(d) = p + n + r
    BY <1>2, <2>2
  <2>8. QED BY <2>4, <2>5, <2>6, <2>7
<1> HIDE DEF t
<1>4. \A i \in p + n + 1 .. p + n + r : t[i] \in White
  <2>1. ASSUME NEW i \in p + n + 1 .. p + n + r PROVE t[i] \in White
    <3>1. i - (p + n) \in 1 .. r
      BY <1>2
    <3>2. QED BY <1>2, <1>3, <3>1
  <2>2. QED BY <2>1
<1>5. \A i \in ink : i \in p + 1 .. p + n
  <2>1. ASSUME NEW i \in ink PROVE i \in p + 1 .. p + n
    <3>1. i \in 1 .. p + n + r /\ t[i] \notin White
      BY <1>3
    <3>2. i \notin 1 .. p
      BY <1>2, <1>3, <3>1
    <3>3. i \notin p + n + 1 .. p + n + r
      BY <1>4, <3>1
    <3>4. QED BY <1>2, <3>1, <3>2, <3>3
  <2>2. QED BY <2>1
<1>6. CASE c = <<>>
  <2>1. ink = {}
    <3>1. Len(c) = 0
      BY <1>6
    <3>2. p + 1 .. p + n = {}
      BY <1>2, <3>1
    <3>3. QED BY <1>5, <3>2
  <2>2. QED BY <2>1, <1>6 DEF Trim, t
<1>7. CASE c # <<>>
  <2>1. n >= 1 /\ c[1] \notin White /\ c[n] \notin White
    BY <1>2, <1>7 DEF Inked, Text
  <2>2. p + 1 \in ink /\ p + n \in ink
    <3>1. 1 \in 1 .. n /\ n \in 1 .. n /\ p + 1 \in DOMAIN t /\ p + n \in DOMAIN t
      BY <1>2, <1>3, <2>1
    <3>2. t[p + 1] = c[1] /\ t[p + n] = c[n]
      BY <1>3, <3>1
    <3>3. QED BY <2>1, <3>1, <3>2
  <2>3. Min(ink) = p + 1 /\ Max(ink) = p + n
    <3>1. ink \in SUBSET Int /\ \A i \in ink : p + 1 <= i /\ i <= p + n
      BY <1>2, <1>5
    <3> HIDE DEF ink
    <3>2. QED BY <2>2, <3>1, Extremes
  <2>4. ink # {}
    BY <2>2
  <2>5. Trim(t) = SubSeq(t, p + 1, p + n)
    BY <2>3, <2>4 DEF Trim
  <2>6. SubSeq(t, p + 1, p + n) = c
    <3>1. PICK u : u = SubSeq(t, p + 1, p + n)
      OBVIOUS
    <3>2. u \in Text /\ Len(u) = n /\ \A i \in 1 .. n : u[i] = t[p + i]
      BY <1>2, <1>3, <2>1, <3>1 DEF Text
    <3>3. \A i \in 1 .. n : u[i] = c[i]
      BY <1>3, <3>2
    <3>4. u = c
      BY <3>2, <3>3 DEF Text
    <3>5. QED BY <3>1, <3>4
  <2>7. QED BY <2>5, <2>6 DEF t
<1>8. QED BY <1>6, <1>7

\* Every text has white ends, if only empty ones.
LEMMA WhiteEnds ==
  ASSUME NEW text \in Text
  PROVE  \E a, b \in Seq(White), c \in Text : Inked(c) /\ text = a \o (c \o b)
<1> DEFINE Ends(t) == \E a, b \in Seq(White), c \in Text : Inked(c) /\ t = a \o (c \o b)
           T == {t \in Text : Ends(t)}
<1>1. <<>> \in T
  <2>1. Inked(<<>>) /\ <<>> = <<>> \o (<<>> \o <<>>)
    BY DEF Inked
  <2>2. QED BY <2>1, Letters
<1>2. ASSUME NEW t \in Text, NEW char \in Chars, t \in T PROVE Append(t, char) \in T
  <2>1. PICK a \in Seq(White), b \in Seq(White), c \in Text : Inked(c) /\ t = a \o (c \o b)
    BY <1>2
  <2>2. a \in Text /\ b \in Text
    BY Letters
  <2>3. PICK d \in Text : d = Append(t, char)
    <3>1. Append(t, char) \in Text
      BY DEF Text
    <3>2. QED BY <3>1
  <2>4. CASE char \in White
    <3>1. Append(b, char) \in Seq(White)
      BY <2>4
    <3>2. d = a \o (c \o Append(b, char))
      <4>1. c \o Append(b, char) = Append(c \o b, char)
        BY <2>2, OneMore
      <4>2. c \o b \in Text
        BY <2>2, BothAreText
      <4>3. a \o Append(c \o b, char) = Append(a \o (c \o b), char)
        BY <2>2, <4>2, OneMore
      <4>4. QED BY <2>1, <2>3, <4>1, <4>3
    <3>3. QED BY <2>1, <2>3, <3>1, <3>2
  <2>5. CASE char \notin White /\ c = <<>>
    <3>1. <<char>> \in Text /\ a \o b \in Seq(White) /\ Inked(<<char>>) /\ <<>> \in Seq(White)
      BY <2>5, Letters DEF Inked
    <3>2. c \o b = b
      BY <2>2, <2>5 DEF Text
    <3>3. d = (a \o b) \o (<<char>> \o <<>>)
      BY <2>1, <2>2, <2>3, <3>2 DEF Text
    <3>4. QED BY <2>3, <3>1, <3>3
  <2>6. CASE char \notin White /\ c # <<>>
    <3>1. PICK x \in Text : x = c \o b
      <4>1. c \o b \in Text
        BY <2>2, BothAreText
      <4>2. QED BY <4>1
    <3>2. PICK k \in Text : k = Append(x, char)
      <4>1. Append(x, char) \in Text
        BY DEF Text
      <4>2. QED BY <4>1
    <3>3. k[1] = c[1] /\ k[Len(k)] = char /\ k # <<>>
      <4>1. Len(c) \in Nat \ {0} /\ Len(b) \in Nat
        BY <2>2, <2>6 DEF Text
      <4>2. Len(x) = Len(c) + Len(b) /\ x[1] = c[1]
        BY <2>2, <3>1, <4>1 DEF Text
      <4>3. Len(k) = Len(x) + 1 /\ k[Len(x) + 1] = char /\ k[1] = x[1]
        <5>1. Len(x) \in Nat /\ 1 \in 1 .. Len(x)
          BY <4>1, <4>2
        <5>2. Len(k) = Len(x) + 1 /\ k[Len(x) + 1] = char /\ \A i \in 1 .. Len(x) : k[i] = x[i]
          BY <3>2 DEF Text
        <5>3. QED BY <5>1, <5>2
      <4>4. k # <<>>
        BY <4>1, <4>2, <4>3
      <4>5. QED BY <4>2, <4>3, <4>4
    <3>4. Inked(k)
      BY <2>1, <2>6, <3>3 DEF Inked
    <3>5. d = a \o (k \o <<>>)
      <4>1. k \o <<>> = k
        BY DEF Text
      <4>2. a \o Append(x, char) = Append(a \o x, char)
        BY <2>2, OneMore
      <4>3. QED BY <2>1, <2>3, <3>1, <3>2, <4>1, <4>2
    <3>6. QED BY <2>3, <3>4, <3>5, Letters
  <2>7. QED BY <2>4, <2>5, <2>6
<1> HIDE DEF T
<1>3. Text \subseteq T
  BY ONLY <1>1, <1>2, Grow DEF Text
<1>4. QED BY <1>3 DEF T

\* The command is taken off, and what is left is trimmed.
LEMMA CommandAlone ==
  ASSUME NEW w \in Seq(White)
  PROVE  SplitCommand(Command \o w) = <<Command, <<>>>>
<1>1. Inked(Command) /\ Command \in Text /\ w \in Text /\ <<>> \in Seq(White)
  BY Letters DEF Inked
<1>2. Trim(<<>> \o (Command \o w)) = Command
  BY <1>1, Trimmed
<1>3. <<>> \o (Command \o w) = Command \o w
  BY <1>1 DEF Text
<1>4. {i \in DOMAIN Command : Command[i] = Blank} = {}
  BY Letters
<1>5. QED BY <1>2, <1>3, <1>4 DEF SplitCommand

LEMMA CommandTaken ==
  ASSUME NEW a \in Seq(White), NEW b \in Seq(White), NEW c \in Text, Inked(c)
  PROVE  SplitCommand(Command \o (<<Blank>> \o (a \o (c \o b)))) = <<Command, c>>
<1>1. a \in Text /\ b \in Text /\ Command \in Text /\ <<Blank>> \in Text /\ <<Blank>> \in Seq(White)
  BY Letters
<1>2. CASE c = <<>>
  <2>1. c \o b = b
    BY <1>1, <1>2 DEF Text
  <2>2. <<Blank>> \o (a \o b) \in Seq(White)
    BY <1>1
  <2>3. QED BY <1>2, <2>1, <2>2, CommandAlone
<1>3. CASE c # <<>>
  <2>1. PICK x \in Text : x = a \o c
    BY <1>1, BothAreText
  <2>2. PICK k \in Text : k = Command \o (<<Blank>> \o x)
    <3>1. <<Blank>> \o x \in Text
      BY <1>1, BothAreText
    <3>2. Command \o (<<Blank>> \o x) \in Text
      BY <1>1, <3>1, BothAreText
    <3>3. QED BY <3>2
  <2>3. Len(c) \in Nat \ {0} /\ Len(a) \in Nat /\ Len(x) = Len(a) + Len(c) /\ x[Len(a) + Len(c)] = c[Len(c)]
    <3>1. Len(c) \in Nat \ {0} /\ Len(a) \in Nat
      BY <1>1, <1>3 DEF Text
    <3>2. QED BY <1>1, <2>1, <3>1 DEF Text
  <2>4. Len(k) = Len(x) + 2 /\ k[1] = "letter" /\ k[2] = Blank /\ \A i \in 1 .. Len(x) : k[i + 2] = x[i]
    <3>1. PICK j \in Text : j = <<Blank>> \o x
      <4>1. <<Blank>> \o x \in Text
        BY <1>1, BothAreText
      <4>2. QED BY <4>1
    <3>2. Len(j) = Len(x) + 1 /\ j[1] = Blank /\ \A i \in 1 .. Len(x) : j[i + 1] = x[i]
      BY <3>1, Letters, OneAhead
    <3>3. k = <<"letter">> \o j
      BY <2>2, <3>1, Letters
    <3>4. Len(k) = Len(j) + 1 /\ k[1] = "letter" /\ \A i \in 1 .. Len(j) : k[i + 1] = j[i]
      BY <3>3, Letters, OneAhead
    <3>5. k[2] = Blank
      <4>1. 1 \in 1 .. Len(j) /\ 1 + 1 = 2
        BY <2>3, <3>2
      <4>2. QED BY <3>2, <3>4, <4>1
    <3>6. ASSUME NEW i \in 1 .. Len(x) PROVE k[i + 2] = x[i]
      <4>1. i + 1 \in 1 .. Len(j) /\ (i + 1) + 1 = i + 2
        BY <2>3, <3>2
      <4>2. QED BY <3>2, <3>4, <4>1
    <3>7. QED BY <2>3, <3>2, <3>4, <3>5, <3>6
  <2>5. Inked(k)
    <3>1. Len(x) \in 1 .. Len(x)
      BY <2>3
    <3>2. k[Len(k)] = c[Len(c)]
      BY <2>3, <2>4, <3>1
    <3>3. c[Len(c)] \notin White
      BY <1>3 DEF Inked
    <3>4. QED BY <2>4, <3>2, <3>3, Letters DEF Inked
  <2>6. Command \o (<<Blank>> \o (a \o (c \o b))) = <<>> \o (k \o b)
    <3>1. a \o (c \o b) = x \o b
      <4>1. a \in Text /\ b \in Text /\ c \in Text
        BY <1>1
      <4>2. (a \o c) \o b = a \o (c \o b)
        BY ONLY <4>1, Regroup
      <4>3. QED BY <2>1, <4>2
    <3>2. PICK j \in Text : j = <<Blank>> \o x
      <4>1. <<Blank>> \o x \in Text
        BY <1>1, BothAreText
      <4>2. QED BY <4>1
    <3>3. <<Blank>> \o (x \o b) = j \o b
      <4>1. <<Blank>> \in Text /\ x \in Text /\ b \in Text
        BY <1>1
      <4>2. (<<Blank>> \o x) \o b = <<Blank>> \o (x \o b)
        BY ONLY <4>1, Regroup
      <4>3. QED BY <3>2, <4>2
    <3>4. Command \o (j \o b) = k \o b
      <4>1. PICK m \in Text : m = Command
        BY <1>1
      <4>2. j \in Text /\ b \in Text
        BY <1>1
      <4>3. (m \o j) \o b = m \o (j \o b)
        BY ONLY <4>2, m \in Text, Regroup
      <4>4. QED BY <2>2, <3>2, <4>1, <4>3
    <3>5. k \o b \in Text
      BY <1>1, BothAreText
    <3>6. <<>> \o (k \o b) = k \o b
      BY <3>5 DEF Text
    <3>7. QED BY <3>1, <3>3, <3>4, <3>6
  <2>7. Trim(<<>> \o (k \o b)) = k
    BY <2>5, Letters, Trimmed
  <2> DEFINE blanks == {i \in DOMAIN k : k[i] = Blank}
  <2>8. blanks # {} /\ Min(blanks) = 2
    <3>1. DOMAIN k = 1 .. Len(k) /\ Len(k) >= 2 /\ Len(k) \in Nat
      BY <2>3, <2>4 DEF Text
    <3>2. 2 \in blanks
      BY <2>4, <3>1
    <3>3. \A i \in blanks : i \in Nat /\ 2 <= i
      <4>1. "letter" # Blank
        BY Letters
      <4>2. QED BY <2>4, <3>1, <4>1
    <3> HIDE DEF blanks
    <3>4. \A m \in blanks : (\A i \in blanks : m <= i) => m = 2
      BY <3>2, <3>3
    <3>5. Min(blanks) = 2
      BY <3>2, <3>3, <3>4 DEF Min
    <3>6. QED BY <3>2, <3>5
  <2>9. SubSeq(k, 1, 2 - 1) = Command
    <3>1. PICK u : u = SubSeq(k, 1, 1)
      OBVIOUS
    <3>2. u \in Text /\ Len(u) = 1 /\ u[1] = "letter"
      BY <2>3, <2>4, <3>1 DEF Text
    <3>3. PICK v \in Text : v = <<"letter">>
      BY Letters
    <3>4. u = v
      <4>1. Len(v) = Len(u) /\ \A i \in 1 .. Len(u) : u[i] = v[i]
        BY <3>2, <3>3
      <4>2. QED BY <3>2, <4>1 DEF Text
    <3>5. Command = u
      BY <3>3, <3>4, Letters
    <3>6. 2 - 1 = 1
      OBVIOUS
    <3>7. QED BY ONLY <3>1, <3>5, <3>6
  <2>10. SubSeq(k, 2 + 1, Len(k)) = x
    <3>1. PICK u : u = SubSeq(k, 3, Len(k))
      OBVIOUS
    <3>2. u \in Text /\ Len(u) = Len(x) /\ \A i \in 1 .. Len(x) : u[i] = k[i + 2]
      BY <2>3, <2>4, <3>1 DEF Text
    <3>3. u = x
      BY <2>4, <3>2 DEF Text
    <3>4. QED BY <3>1, <3>3
  <2>11. Trim(x) = c
    <3>1. c \o <<>> = c
      BY DEF Text
    <3>2. Trim(a \o (c \o <<>>)) = c
      BY Letters, Trimmed
    <3>3. QED BY <2>1, <3>1, <3>2
  <2>12. QED BY <2>6, <2>7, <2>8, <2>9, <2>10, <2>11 DEF SplitCommand
<1>4. QED BY <1>2, <1>3

-----------------------------------------------------------------------------
(* What arrives.                                                             *)

\* Whatever the arguments hold, and however many there are, daqd splits the request
\* into exactly those daqctl was given, but for empty ones.
THEOREM EveryArgumentArrives == \A list \in Seq(Text) : Arrives(list)
<1> SUFFICES ASSUME NEW list \in Seq(Text) PROVE Arrives(list)
  OBVIOUS
<1>1. CASE list = <<>>
  <2>1. Request(list) = Command \o <<>>
    BY <1>1 DEF Request
  <2>2. SplitCommand(Request(list)) = <<Command, <<>>>>
    BY <2>1, CommandAlone, Letters
  <2>3. SplitArgs(<<>>).ok /\ SplitArgs(<<>>).args = <<>>
    BY FirstWord DEF SplitArgs, Unquoted
  <2>4. QED BY <1>1, <2>2, <2>3, JoinMore DEF Arrives
<1>2. CASE list # <<>>
  <2>1. PICK a, c, b : Joined(list, a, c, b)
    BY EveryoneJoined
  <2>2. Request(list) = Command \o (<<Blank>> \o (a \o (c \o b)))
    BY <1>2, <2>1 DEF Request, Joined
  <2>3. SplitCommand(Request(list)) = <<Command, c>>
    <3>1. a \in Seq(White) /\ b \in Seq(White) /\ c \in Text /\ Inked(c)
      BY <2>1 DEF Joined
    <3>2. SplitCommand(Command \o (<<Blank>> \o (a \o (c \o b)))) = <<Command, c>>
      BY ONLY <3>1, CommandTaken
    <3>3. QED BY <2>2, <3>2
  <2>4. SplitArgs(c).ok /\ SplitArgs(c).args = NonEmpty(list)
    BY <2>1 DEF SplitArgs, Joined, Unquoted
  <2>5. QED BY <2>3, <2>4 DEF Arrives
<1>3. QED BY <1>1, <1>2

LEMMA JoinedIsSplit ==
  ASSUME NEW list \in Seq(Text)
  PROVE  SplitArgs(JoinArgs(list)) = [ok |-> TRUE, args |-> NonEmpty(list)]
<1>1. PICK a, c, b : Joined(list, a, c, b)
  BY EveryoneJoined
<1> DEFINE e == After(Begin, c)
<1>2. a \in Text /\ b \in Text /\ c \in Text /\ c \o b \in Text /\ Begin \in State /\ e \in State
  <2>1. a \in Text /\ b \in Text /\ c \in Text /\ Begin \in State /\ e \in State
    BY <1>1, Letters, FirstWord DEF Joined, Unquoted
  <2>2. QED BY <2>1, BothAreText
<1>3. After(Begin, a) = Begin
  BY <1>1, FirstWord, Whites DEF Joined
<1>4. After(Begin, a \o (c \o b)) = After(e, b)
  <2>1. After(Begin, a \o (c \o b)) = After(Begin, c \o b)
    BY <1>2, <1>3, AfterBoth
  <2>2. QED BY <1>2, <2>1, AfterBoth
<1>5. After(e, b) \in {e, NewWord(e)}
  BY <1>1, Whites DEF Joined
<1>6. ~e.quoted /\ ~e.escaping
  BY <1>1 DEF Joined, Unquoted
<1>7. ASSUME NEW t \in {e, NewWord(e)}
      PROVE  ~t.quoted /\ ~t.escaping /\ NewWord(t) = NewWord(e)
  BY <1>2, <1>6, NewWordType
<1> HIDE DEF e
<1>8. PICK t \in {e, NewWord(e)} : After(Begin, JoinArgs(list)) = t
  BY <1>1, <1>4, <1>5 DEF Joined
<1>9. NewWord(t).out = NonEmpty(list)
  BY <1>1, <1>7 DEF Joined, e
<1>10. QED BY <1>7, <1>8, <1>9 DEF SplitArgs

\* split_args makes no empty arguments.
LEMMA WordsAreWords ==
  \A text \in Text : NewWord(After(Begin, text)).out \in Seq(Text \ {<<>>})
<1> DEFINE Word == Text \ {<<>>}
           T == {text \in Text : After(Begin, text).out \in Seq(Word)}
<1>1. ASSUME NEW s \in State, s.out \in Seq(Word) PROVE NewWord(s).out \in Seq(Word)
  <2>1. CASE s.current = <<>>
    BY <1>1, <2>1 DEF NewWord
  <2>2. CASE s.current # <<>>
    <3>1. s.current \in Word
      BY <2>2 DEF State
    <3>2. PICK o \in Seq(Word) : o = Append(s.out, s.current)
      <4>1. Append(s.out, s.current) \in Seq(Word)
        BY <1>1, <3>1
      <4>2. QED BY <4>1
    <3>3. NewWord(s) = [s EXCEPT !.out = o, !.current = <<>>]
      BY <2>2, <3>2 DEF NewWord
    <3>4. NewWord(s).out = o
      BY <3>3 DEF State
    <3>5. QED BY <3>4
  <2>3. QED BY <2>1, <2>2
<1>2. <<>> \in T
  <2>1. After(Begin, <<>>) = Begin /\ Begin.out = <<>> /\ <<>> \in Text
    BY FirstWord, Letters DEF Begin
  <2>2. <<>> \in Seq(Word)
    OBVIOUS
  <2>3. QED BY <2>1, <2>2
<1>3. ASSUME NEW text \in Text, NEW char \in Chars, text \in T PROVE Append(text, char) \in T
  <2>1. Append(text, char) \in Text
    BY DEF Text
  <2>2. PICK s \in State : s = After(Begin, text)
    BY FirstWord, AfterMore DEF Unquoted
  <2>3. After(Begin, Append(text, char)) = ReadChar(s, char)
    BY <2>2, FirstWord, AfterMore DEF Unquoted
  <2>4. s.escaping \in BOOLEAN /\ s.quoted \in BOOLEAN
    BY DEF State
  <2>5. \/ ReadChar(s, char) = NewWord(s)
        \/ ReadChar(s, char) = [s EXCEPT !.current = Append(@, char)]
        \/ ReadChar(s, char) = [s EXCEPT !.current = Append(@, char), !.escaping = FALSE]
        \/ ReadChar(s, char) = [s EXCEPT !.escaping = TRUE]
        \/ ReadChar(s, char) = [s EXCEPT !.quoted = ~@]
    BY <2>4 DEF ReadChar
  <2>6. ReadChar(s, char).out \in {s.out, NewWord(s).out}
    <3>1. \A d : [s EXCEPT !.current = d].out = s.out /\ [s EXCEPT !.current = d, !.escaping = FALSE].out = s.out
      BY DEF State
    <3>2. [s EXCEPT !.escaping = TRUE].out = s.out /\ [s EXCEPT !.quoted = ~@].out = s.out
      BY DEF State
    <3>3. QED BY <2>5, <3>1, <3>2
  <2>7. s.out \in Seq(Word) /\ NewWord(s).out \in Seq(Word)
    BY <1>1, <1>3, <2>2
  <2>8. QED BY <2>1, <2>3, <2>6, <2>7
<1> HIDE DEF T
<1>4. Text \subseteq T
  BY ONLY <1>2, <1>3, Grow DEF Text
<1>5. ASSUME NEW text \in Text PROVE NewWord(After(Begin, text)).out \in Seq(Word)
  <2>1. After(Begin, text) \in State
    BY FirstWord, AfterMore DEF Unquoted
  <2>2. QED BY <1>1, <1>4, <2>1 DEF T
<1>6. QED BY <1>5

LEMMA AllAreKept ==
  ASSUME NEW list \in Seq(Text \ {<<>>})
  PROVE  list \in Seq(Text) /\ NonEmpty(list) = list
<1> DEFINE Word == Text \ {<<>>}
           T == {l \in Seq(Text) : NonEmpty(l) = l}
<1>1. <<>> \in T
  BY JoinMore
<1>2. ASSUME NEW l \in Seq(Word), NEW w \in Word, l \in T PROVE Append(l, w) \in T
  <2>1. l \in Seq(Text) /\ w \in Text /\ w # <<>> /\ Append(l, w) \in Seq(Text) /\ NonEmpty(l) = l
    BY <1>2
  <2>2. NonEmpty(Append(l, w)) = NonEmpty(l) \o <<w>>
    BY <2>1, JoinMore
  <2>3. l \o <<w>> = Append(l, w)
    BY <2>1
  <2>4. QED BY <2>1, <2>2, <2>3
<1> HIDE DEF T, Word
<1>3. Seq(Word) \subseteq T
  BY ONLY <1>1, <1>2, Grow
<1>4. QED BY <1>3 DEF T, Word

\* What daqd accepts from any client stays the same when it is quoted and sent on.
THEOREM EverySplitStays == \A direct \in Text : StaysAsIs(direct)
<1> SUFFICES ASSUME NEW direct \in Text PROVE StaysAsIs(direct)
  OBVIOUS
<1>1. PICK a \in Seq(White), b \in Seq(White), c \in Text : Inked(c) /\ direct = a \o (c \o b)
  BY WhiteEnds
<1>2. SplitCommand(Command \o (<<Blank>> \o direct))[2] = c
  BY <1>1, CommandTaken
<1>3. Command \o <<Blank>> \o direct = Command \o (<<Blank>> \o direct)
  BY Letters, Regroup
<1> DEFINE parsed == SplitArgs(c)
<1>4. parsed.args \in Seq(Text \ {<<>>})
  BY WordsAreWords DEF SplitArgs
<1>5. parsed = [ok |-> parsed.ok, args |-> parsed.args] /\ parsed.ok \in BOOLEAN
  BY DEF SplitArgs
<1> HIDE DEF parsed
<1>6. SplitArgs(JoinArgs(parsed.args)) = [ok |-> TRUE, args |-> parsed.args]
  BY <1>4, AllAreKept, JoinedIsSplit
<1>7. parsed.ok => SplitArgs(JoinArgs(parsed.args)) = parsed
  BY <1>5, <1>6
<1>8. QED BY <1>2, <1>3, <1>7 DEF StaysAsIs, parsed

LEMMA TextsAreText ==
  ASSUME NEW n
  PROVE  UpTo(n) \subseteq Text
<1> SUFFICES ASSUME NEW k \in 0 .. n, NEW text \in [1 .. k -> Chars] PROVE text \in Text
  BY DEF UpTo, Texts
<1>1. k \in Nat
  OBVIOUS
<1>2. QED BY <1>1 DEF Text

\* So the two hold up to any bound.
THEOREM QuotingFaithful == ArgumentsArrive /\ AcceptedIsStable
<1>1. ArgumentsArrive
  <2> SUFFICES ASSUME NEW list \in Vectors PROVE Arrives(list)
    BY DEF ArgumentsArrive
  <2>1. PICK k \in 0 .. MaxArgs : list \in [1 .. k -> UpTo(MaxChars)]
    BY DEF Vectors
  <2>2. list \in [1 .. k -> Text] /\ k \in Nat
    BY <2>1, TextsAreText
  <2>3. list \in Seq(Text)
    BY <2>2
  <2>4. QED BY <2>3, EveryArgumentArrives
<1>2. AcceptedIsStable
  BY TextsAreText, EverySplitStays DEF AcceptedIsStable
<1>3. QED BY <1>1, <1>2

-----------------------------------------------------------------------------
(* The form, on its way to daqd.                                             *)

\* What getopt_long has read of a list, and of one with an argument more.
LEMMA Readings ==
  ASSUME NEW T, NEW list \in Seq(T), NEW valued, NEW flags
  PROVE  \E f : /\ f[0] = Fresh /\ ReadArgs(list, valued, flags) = f[Len(list)]
                /\ \A k \in 1 .. Len(list) : f[k] = ReadArg(f[k - 1], list[k], valued, flags)
<1> DEFINE n == Len(list)
           Turn(k, a) == ReadArg(a, list[k], valued, flags)
           Fold(f) == [k \in 0 .. n |-> IF k = 0 THEN Fresh ELSE Turn(k, f[k - 1])]
           read == CHOOSE f : f = Fold(f)
           S == {k \in 0 .. n : \E f : /\ f = [i \in 0 .. n |-> f[i]] /\ f[0] = Fresh
                                        /\ \A i \in 1 .. k : f[i] = Turn(i, f[i - 1])}
<1>1. n \in Nat
  OBVIOUS
<1>2. ReadArgs(list, valued, flags) = read[n]
  BY DEF ReadArgs
<1> HIDE DEF n, Turn
<1>3. 0 \in S
  <2>1. PICK f : f = [i \in 0 .. n |-> Fresh]
    OBVIOUS
  <2>2. f = [i \in 0 .. n |-> f[i]] /\ f[0] = Fresh /\ 1 .. 0 = {}
    BY <1>1, <2>1
  <2>3. QED BY <1>1, <2>2
<1>4. ASSUME NEW k \in 0 .. n - 1, k \in S PROVE k + 1 \in S
  <2>1. PICK f : /\ f = [i \in 0 .. n |-> f[i]] /\ f[0] = Fresh
                 /\ \A i \in 1 .. k : f[i] = Turn(i, f[i - 1])
    BY <1>4
  <2>2. PICK g : g = [i \in 0 .. n |-> IF i = k + 1 THEN Turn(i, f[i - 1]) ELSE f[i]]
    OBVIOUS
  <2>3. g = [i \in 0 .. n |-> g[i]] /\ g[0] = Fresh
    BY <1>1, <2>1, <2>2
  <2>4. ASSUME NEW i \in 1 .. k + 1 PROVE g[i] = Turn(i, g[i - 1])
    <3>1. i \in 0 .. n /\ i - 1 \in 0 .. n /\ i - 1 # k + 1
      BY <1>1
    <3>2. g[i - 1] = f[i - 1]
      BY <2>2, <3>1
    <3>3. g[i] = Turn(i, f[i - 1])
      <4>1. CASE i = k + 1
        BY <2>2, <3>1, <4>1
      <4>2. CASE i # k + 1
        <5>1. i \in 1 .. k
          BY <1>1, <4>2
        <5>2. QED BY <2>1, <2>2, <3>1, <4>2, <5>1
      <4>3. QED BY <4>1, <4>2
    <3>4. QED BY <3>2, <3>3
  <2>5. k + 1 \in 0 .. n
    BY <1>1
  <2>6. QED BY <2>3, <2>4, <2>5
<1> HIDE DEF S
<1>5. n \in S
  <2>1. 0 .. n \subseteq S
    BY ONLY <1>1, <1>3, <1>4, Climb
  <2>2. QED BY <1>1, <2>1
<1>6. PICK f : /\ f = [i \in 0 .. n |-> f[i]] /\ f[0] = Fresh
               /\ \A i \in 1 .. n : f[i] = Turn(i, f[i - 1])
  BY <1>5 DEF S
<1>7. f = Fold(f)
  <2>1. ASSUME NEW i \in 0 .. n PROVE f[i] = IF i = 0 THEN Fresh ELSE Turn(i, f[i - 1])
    <3>1. CASE i = 0
      BY <1>6, <3>1
    <3>2. CASE i # 0
      <4>1. i \in 1 .. n
        BY <1>1, <3>2
      <4>2. QED BY <1>6, <3>2, <4>1
    <3>3. QED BY <3>1, <3>2
  <2>2. QED BY <1>6, <2>1
<1>8. PICK g : g = read /\ g = Fold(g)
  BY <1>7
<1>9. g[0] = Fresh /\ \A k \in 1 .. n : g[k] = Turn(k, g[k - 1])
  <2>1. \A i \in 0 .. n : g[i] = IF i = 0 THEN Fresh ELSE Turn(i, g[i - 1])
    BY <1>8
  <2>2. QED BY <1>1, <2>1
<1>10. QED BY <1>2, <1>8, <1>9 DEF n, Turn

\* Nothing has been read of no argument.
LEMMA ReadNone ==
  ASSUME NEW valued, NEW flags
  PROVE  ReadArgs(<<>>, valued, flags) = Fresh
<1> DEFINE T == Nat
<1>1. PICK list \in Seq(T) : list = <<>>
  <2>1. <<>> \in Seq(T)
    OBVIOUS
  <2>2. QED BY <2>1
<1>2. PICK f : f[0] = Fresh /\ ReadArgs(list, valued, flags) = f[Len(list)]
  BY Readings
<1>3. Len(list) = 0
  BY <1>1
<1>4. QED BY <1>1, <1>2, <1>3

\* One argument more is read from where the others left off.
LEMMA ReadOn ==
  ASSUME NEW T, NEW valued, NEW flags, NEW list \in Seq(T), NEW text \in T
  PROVE  ReadArgs(Append(list, text), valued, flags)
           = ReadArg(ReadArgs(list, valued, flags), text, valued, flags)
<1> DEFINE n == Len(list)
           Turn(k, a) == ReadArg(a, list[k], valued, flags)
<1>1. PICK more \in Seq(T) : more = Append(list, text)
  <2>1. Append(list, text) \in Seq(T)
    OBVIOUS
  <2>2. QED BY <2>1
<1>2. /\ n \in Nat /\ Len(more) = n + 1 /\ more[n + 1] = text
      /\ \A k \in 1 .. n : more[k] = list[k]
  BY <1>1
<1>3. PICK f : /\ f[0] = Fresh /\ ReadArgs(list, valued, flags) = f[n]
               /\ \A k \in 1 .. n : f[k] = Turn(k, f[k - 1])
  BY Readings
<1>4. PICK g : /\ g[0] = Fresh /\ ReadArgs(more, valued, flags) = g[Len(more)]
               /\ \A k \in 1 .. Len(more) : g[k] = ReadArg(g[k - 1], more[k], valued, flags)
  BY Readings
<1>5. /\ ReadArgs(more, valued, flags) = g[n + 1]
      /\ \A k \in 1 .. n + 1 : g[k] = ReadArg(g[k - 1], more[k], valued, flags)
  BY <1>2, <1>4
<1>6. \A k \in 1 .. n : g[k] = Turn(k, g[k - 1])
  <2>1. \A k \in 1 .. n : k \in 1 .. n + 1
    BY <1>2
  <2>2. QED BY <1>2, <1>5, <2>1
<1>7. g[n + 1] = ReadArg(g[n], text, valued, flags)
  <2>1. PICK k : k = n + 1
    OBVIOUS
  <2>2. k \in 1 .. n + 1 /\ k - 1 = n
    BY <1>2, <2>1
  <2>3. QED BY <1>2, <1>5, <2>1, <2>2
<1> DEFINE S == {k \in 0 .. n : f[k] = g[k]}
<1> HIDE DEF Turn, n
<1>8. 0 \in S
  BY <1>2, <1>3, <1>4
<1>9. ASSUME NEW k \in 0 .. n - 1, k \in S PROVE k + 1 \in S
  <2>1. PICK j : j = k + 1
    OBVIOUS
  <2>2. j \in 1 .. n /\ j - 1 = k /\ j \in 0 .. n
    BY <1>2, <2>1
  <2>3. f[j] = Turn(j, f[k]) /\ g[j] = Turn(j, g[k])
    BY <1>3, <1>6, <2>2
  <2>4. QED BY <1>9, <2>1, <2>2, <2>3
<1> HIDE DEF S
<1>10. 0 .. n \subseteq S
  BY ONLY <1>2, <1>8, <1>9, Climb
<1>11. f[n] = g[n]
  BY <1>2, <1>10 DEF S
<1>12. QED BY <1>1, <1>3, <1>5, <1>7, <1>11
Unset == [outcome |-> "ok", cfg |-> DaqConfig]

\* What the options that were read make of the configuration, and one option more.
LEMMA Takings ==
  ASSUME NEW T, NEW settings \in Seq(T)
  PROVE  \E f : /\ f[0] = Unset /\ TakeOptions(settings) = f[Len(settings)]
                /\ \A k \in 1 .. Len(settings) : f[k] = TakeOption(f[k - 1], settings[k])
<1> DEFINE n == Len(settings)
           Turn(k, a) == TakeOption(a, settings[k])
           Fold(f) == [k \in 0 .. n |-> IF k = 0 THEN Unset ELSE Turn(k, f[k - 1])]
           read == CHOOSE f : f = Fold(f)
           S == {k \in 0 .. n : \E f : /\ f = [i \in 0 .. n |-> f[i]] /\ f[0] = Unset
                                        /\ \A i \in 1 .. k : f[i] = Turn(i, f[i - 1])}
<1>1. n \in Nat
  OBVIOUS
<1>2. TakeOptions(settings) = read[n]
  BY DEF TakeOptions, Unset
<1> HIDE DEF n, Turn
<1>3. 0 \in S
  <2>1. PICK f : f = [i \in 0 .. n |-> Unset]
    OBVIOUS
  <2>2. f = [i \in 0 .. n |-> f[i]] /\ f[0] = Unset /\ 1 .. 0 = {}
    BY <1>1, <2>1
  <2>3. QED BY <1>1, <2>2
<1>4. ASSUME NEW k \in 0 .. n - 1, k \in S PROVE k + 1 \in S
  <2>1. PICK f : /\ f = [i \in 0 .. n |-> f[i]] /\ f[0] = Unset
                 /\ \A i \in 1 .. k : f[i] = Turn(i, f[i - 1])
    BY <1>4
  <2>2. PICK g : g = [i \in 0 .. n |-> IF i = k + 1 THEN Turn(i, f[i - 1]) ELSE f[i]]
    OBVIOUS
  <2>3. g = [i \in 0 .. n |-> g[i]] /\ g[0] = Unset
    BY <1>1, <2>1, <2>2
  <2>4. ASSUME NEW i \in 1 .. k + 1 PROVE g[i] = Turn(i, g[i - 1])
    <3>1. i \in 0 .. n /\ i - 1 \in 0 .. n /\ i - 1 # k + 1
      BY <1>1
    <3>2. g[i - 1] = f[i - 1]
      BY <2>2, <3>1
    <3>3. g[i] = Turn(i, f[i - 1])
      <4>1. CASE i = k + 1
        BY <2>2, <3>1, <4>1
      <4>2. CASE i # k + 1
        <5>1. i \in 1 .. k
          BY <1>1, <4>2
        <5>2. QED BY <2>1, <2>2, <3>1, <4>2, <5>1
      <4>3. QED BY <4>1, <4>2
    <3>4. QED BY <3>2, <3>3
  <2>5. k + 1 \in 0 .. n
    BY <1>1
  <2>6. QED BY <2>3, <2>4, <2>5
<1> HIDE DEF S
<1>5. n \in S
  <2>1. 0 .. n \subseteq S
    BY ONLY <1>1, <1>3, <1>4, Climb
  <2>2. QED BY <1>1, <2>1
<1>6. PICK f : /\ f = [i \in 0 .. n |-> f[i]] /\ f[0] = Unset
               /\ \A i \in 1 .. n : f[i] = Turn(i, f[i - 1])
  BY <1>5 DEF S
<1>7. f = Fold(f)
  <2>1. ASSUME NEW i \in 0 .. n PROVE f[i] = IF i = 0 THEN Unset ELSE Turn(i, f[i - 1])
    <3>1. CASE i = 0
      BY <1>6, <3>1
    <3>2. CASE i # 0
      <4>1. i \in 1 .. n
        BY <1>1, <3>2
      <4>2. QED BY <1>6, <3>2, <4>1
    <3>3. QED BY <3>1, <3>2
  <2>2. QED BY <1>6, <2>1
<1>8. PICK g : g = read /\ g = Fold(g)
  BY <1>7
<1>9. g[0] = Unset /\ \A k \in 1 .. n : g[k] = Turn(k, g[k - 1])
  <2>1. \A i \in 0 .. n : g[i] = IF i = 0 THEN Unset ELSE Turn(i, g[i - 1])
    BY <1>8
  <2>2. QED BY <1>1, <2>1
<1>10. QED BY <1>2, <1>8, <1>9 DEF n, Turn

\* No option leaves the configuration as it begins.
LEMMA TakeNone == TakeOptions(<<>>) = Unset
<1> DEFINE T == Nat
<1>1. PICK settings \in Seq(T) : settings = <<>>
  <2>1. <<>> \in Seq(T)
    OBVIOUS
  <2>2. QED BY <2>1
<1>2. PICK f : f[0] = Unset /\ TakeOptions(settings) = f[Len(settings)]
  BY Takings
<1>3. Len(settings) = 0
  BY <1>1
<1>4. QED BY <1>1, <1>2, <1>3

\* One option more is taken from where the others left off.
LEMMA TakeOn ==
  ASSUME NEW T, NEW settings \in Seq(T), NEW setting \in T
  PROVE  TakeOptions(Append(settings, setting)) = TakeOption(TakeOptions(settings), setting)
<1> DEFINE n == Len(settings)
           Turn(k, a) == TakeOption(a, settings[k])
<1>1. PICK more \in Seq(T) : more = Append(settings, setting)
  <2>1. Append(settings, setting) \in Seq(T)
    OBVIOUS
  <2>2. QED BY <2>1
<1>2. /\ n \in Nat /\ Len(more) = n + 1 /\ more[n + 1] = setting
      /\ \A k \in 1 .. n : more[k] = settings[k]
  BY <1>1
<1>3. PICK f : /\ f[0] = Unset /\ TakeOptions(settings) = f[n]
               /\ \A k \in 1 .. n : f[k] = Turn(k, f[k - 1])
  BY Takings
<1>4. PICK g : /\ g[0] = Unset /\ TakeOptions(more) = g[Len(more)]
               /\ \A k \in 1 .. Len(more) : g[k] = TakeOption(g[k - 1], more[k])
  BY Takings
<1>5. /\ TakeOptions(more) = g[n + 1]
      /\ \A k \in 1 .. n + 1 : g[k] = TakeOption(g[k - 1], more[k])
  BY <1>2, <1>4
<1>6. \A k \in 1 .. n : g[k] = Turn(k, g[k - 1])
  <2>1. \A k \in 1 .. n : k \in 1 .. n + 1
    BY <1>2
  <2>2. QED BY <1>2, <1>5, <2>1
<1>7. g[n + 1] = TakeOption(g[n], setting)
  <2>1. PICK k : k = n + 1
    OBVIOUS
  <2>2. k \in 1 .. n + 1 /\ k - 1 = n
    BY <1>2, <2>1
  <2>3. QED BY <1>2, <1>5, <2>1, <2>2
<1> DEFINE S == {k \in 0 .. n : f[k] = g[k]}
<1> HIDE DEF Turn, n
<1>8. 0 \in S
  BY <1>2, <1>3, <1>4
<1>9. ASSUME NEW k \in 0 .. n - 1, k \in S PROVE k + 1 \in S
  <2>1. PICK j : j = k + 1
    OBVIOUS
  <2>2. j \in 1 .. n /\ j - 1 = k /\ j \in 0 .. n
    BY <1>2, <2>1
  <2>3. f[j] = Turn(j, f[k]) /\ g[j] = Turn(j, g[k])
    BY <1>3, <1>6, <2>2
  <2>4. QED BY <1>9, <2>1, <2>2, <2>3
<1> HIDE DEF S
<1>10. 0 .. n \subseteq S
  BY ONLY <1>2, <1>8, <1>9, Climb
<1>11. f[n] = g[n]
  BY <1>2, <1>10 DEF S
<1>12. QED BY <1>1, <1>3, <1>5, <1>7, <1>11
\* A set of places has a first and a last one.
LEMMA Ends ==
  ASSUME NEW n \in Nat, NEW P \in SUBSET (1 .. n), P # {}
  PROVE  /\ Min(P) \in P /\ \A i \in P : Min(P) <= i
         /\ Max(P) \in P /\ \A i \in P : i <= Max(P)
<1> DEFINE S == {k \in 0 .. n : (\E i \in P : i <= k) => \E lo \in P : \A i \in P : lo <= i}
           U == {k \in 0 .. n : (\E i \in P : i >= n - k) => \E hi \in P : \A i \in P : i <= hi}
<1>1. 0 \in S
  OBVIOUS
<1>2. ASSUME NEW k \in 0 .. n - 1, k \in S PROVE k + 1 \in S
  <2>1. CASE \E i \in P : i <= k
    BY <1>2, <2>1
  <2>2. CASE ~\E i \in P : i <= k
    <3>1. \A i \in P : k + 1 <= i
      BY <2>2
    <3>2. ASSUME NEW j \in P, j <= k + 1 PROVE \E lo \in P : \A i \in P : lo <= i
      <4>1. \A i \in P : j <= i
        BY <3>1, <3>2
      <4>2. QED BY <4>1
    <3>3. QED BY <3>2
  <2>3. QED BY <2>1, <2>2
<1>3. 0 \in U
  <2>1. ASSUME NEW j \in P, j >= n - 0 PROVE \E hi \in P : \A i \in P : i <= hi
    <3>1. \A i \in P : i <= j
      BY <2>1
    <3>2. QED BY <3>1
  <2>2. QED BY <2>1
<1>4. ASSUME NEW k \in 0 .. n - 1, k \in U PROVE k + 1 \in U
  <2>1. CASE \E i \in P : i >= n - k
    BY <1>4, <2>1
  <2>2. CASE ~\E i \in P : i >= n - k
    <3>1. \A i \in P : i <= n - (k + 1)
      BY <2>2
    <3>2. ASSUME NEW j \in P, j >= n - (k + 1) PROVE \E hi \in P : \A i \in P : i <= hi
      <4>1. \A i \in P : i <= j
        BY <3>1, <3>2
      <4>2. QED BY <4>1
    <3>3. QED BY <3>2
  <2>3. QED BY <2>1, <2>2
<1> HIDE DEF S, U
<1>5. 0 .. n \subseteq S
  BY ONLY <1>1, <1>2, Climb
<1>6. 0 .. n \subseteq U
  BY ONLY <1>3, <1>4, Climb
<1>7. PICK lo \in P : \A i \in P : lo <= i
  <2>1. n \in S /\ \A i \in P : i <= n
    BY <1>5
  <2>2. QED BY <2>1 DEF S
<1>8. PICK hi \in P : \A i \in P : i <= hi
  <2>1. n \in U /\ \A i \in P : i >= n - n
    BY <1>6
  <2>2. QED BY <2>1 DEF U
<1>9. Min(P) = lo /\ Max(P) = hi
  <2>1. P \in SUBSET Int /\ \A i \in P : lo <= i /\ i <= hi
    BY <1>7, <1>8
  <2>2. QED BY <2>1, Extremes
<1>10. QED BY <1>7, <1>8, <1>9

\* What is before and behind an "=" is made of the same words.
LEMMA Halves ==
  ASSUME NEW W, NEW text \in Seq(W)
  PROVE  BeforeEqual(text) \in Seq(W) /\ AfterEqual(text) \in Seq(W)
<1> DEFINE P == Places(text, "=")
<1>1. Len(text) \in Nat /\ P \in SUBSET (1 .. Len(text)) /\ <<>> \in Seq(W)
  BY DEF Places
<1>2. CASE P = {}
  BY <1>1, <1>2 DEF BeforeEqual, AfterEqual
<1>3. CASE P # {}
  <2>1. Min(P) \in 1 .. Len(text)
    BY <1>1, <1>3, Ends
  <2>2. PICK m \in 1 .. Len(text) : m = Min(P)
    BY <2>1
  <2>3. SubSeq(text, 1, m - 1) \in Seq(W) /\ SubSeq(text, m + 1, Len(text)) \in Seq(W)
    BY <1>1
  <2>4. QED BY <1>3, <2>2, <2>3 DEF BeforeEqual, AfterEqual
<1>4. QED BY <1>2, <1>3

-----------------------------------------------------------------------------
(* What the parsers answer.                                                  *)

\* A parser of unsigned numbers answers one that fits, or none.
LEMMA NumbersRead ==
  ASSUME NEW text
  PROVE  /\ Unsigned(text) \in Nat \union {NaN}
         /\ UInt32(text) \in 0 .. MaxU32 \union {NaN}
<1>1. CASE text \notin DOMAIN Spelled \/ Spelled[text] \notin 1 - ULongs .. ULongs - 1
  <2>1. Unsigned(text) = NaN
    BY <1>1 DEF Unsigned
  <2>2. QED BY <2>1, GetoptAssumption DEF UInt32, NaN
<1>2. CASE text \in DOMAIN Spelled /\ Spelled[text] \in 1 - ULongs .. ULongs - 1
  <2>1. Unsigned(text) = Spelled[text] % ULongs
    BY <1>2 DEF Unsigned
  <2>2. ULongs \in Nat /\ ULongs > 0 /\ MaxU32 \in Nat
    BY GetoptAssumption
  <2>3. PICK n \in Int : n = Spelled[text]
    BY <1>2, <2>2
  <2>4. n % ULongs \in Nat
    BY <2>2
  <2>5. Unsigned(text) \in Nat
    BY <2>1, <2>3, <2>4
  <2>6. QED BY <2>2, <2>5 DEF UInt32, NaN
<1>3. QED BY <1>1, <1>2

GoodDevice(W) == [board : 0 .. 7, host : Seq(W) \ {<<>>}, port : 1 .. MaxPort]

\* A device, from its parts.
LEMMA DeviceParts ==
  ASSUME NEW text, NEW at, NEW colon, NEW board, NEW port,
         at = Min(Places(text, "@")), colon = Max(Places(text, ":")),
         board = UInt32(SubSeq(text, 1, at - 1)), port = UInt32(SubSeq(text, colon + 1, Len(text)))
  PROVE  ParseDeviceSpec(text) =
           IF /\ Places(text, "@") # {} /\ Places(text, ":") # {}
              /\ colon > at + 1 /\ board \in 0 .. 7 /\ port \in 1 .. MaxPort
           THEN [board |-> board, host |-> SubSeq(text, at + 1, colon - 1), port |-> port]
           ELSE NoDevice
BY SMT DEF ParseDeviceSpec

\* A device that was read has a board, a host and a port.
LEMMA DeviceRead ==
  ASSUME NEW W, NEW text \in Seq(W), ParseDeviceSpec(text) # NoDevice
  PROVE  ParseDeviceSpec(text) \in GoodDevice(W)
<1>1. PICK at, colon, board, port :
        /\ at = Min(Places(text, "@")) /\ colon = Max(Places(text, ":"))
        /\ board = UInt32(SubSeq(text, 1, at - 1)) /\ port = UInt32(SubSeq(text, colon + 1, Len(text)))
  OBVIOUS
<1>2. PICK host : host = SubSeq(text, at + 1, colon - 1)
  OBVIOUS
<1>3. /\ Places(text, "@") # {} /\ Places(text, ":") # {}
      /\ colon > at + 1 /\ board \in 0 .. 7 /\ port \in 1 .. MaxPort
      /\ ParseDeviceSpec(text) = [board |-> board, host |-> host, port |-> port]
  BY <1>1, <1>2, DeviceParts
<1>4. at \in 1 .. Len(text) /\ colon \in 1 .. Len(text)
  <2>1. /\ Len(text) \in Nat /\ Places(text, "@") \in SUBSET (1 .. Len(text))
        /\ Places(text, ":") \in SUBSET (1 .. Len(text))
    BY DEF Places
  <2>2. QED BY <1>1, <1>3, <2>1, Ends
<1>5. host \in Seq(W) \ {<<>>}
  <2>1. host \in Seq(W) /\ Len(host) = (colon - 1) - at
    BY <1>2, <1>3, <1>4
  <2>2. host # <<>>
    BY <1>3, <1>4, <2>1
  <2>3. QED BY <2>1, <2>2
<1>6. QED BY <1>3, <1>5 DEF GoodDevice

-----------------------------------------------------------------------------
(* What getopt_long makes of an argument.                                    *)

Apart(valued, flags) ==
  /\ valued \intersect flags = {}
  /\ NoOption \notin valued \union flags /\ "--" \notin valued \union flags

\* The cases of ReadArg, one by one.
LEMMA ReadStuck ==
  ASSUME NEW s, NEW text, NEW valued, NEW flags, ~s.whole
  PROVE  ReadArg(s, text, valued, flags) = s
BY DEF ReadArg

\* The value of an option.
LEMMA ReadValue ==
  ASSUME NEW s, NEW text, NEW valued, NEW flags, s.whole, s.option # NoOption
  PROVE  ReadArg(s, text, valued, flags)
           = [s EXCEPT !.settings = Append(@, <<s.option, text>>), !.option = NoOption]
BY DEF ReadArg

\* Another argument than an option.
LEMMA ReadRest ==
  ASSUME NEW s, NEW text, NEW valued, NEW flags, s.whole, s.option = NoOption,
         s.ended \/ ~Dashed(text, valued \union flags)
  PROVE  ReadArg(s, text, valued, flags) = [s EXCEPT !.rest = Append(@, text)]
BY DEF ReadArg

\* An option, or what looks like one.
LEMMA ReadDashed ==
  ASSUME NEW s, NEW text, NEW valued, NEW flags, s.whole, s.option = NoOption,
         ~s.ended, Dashed(text, valued \union flags), Apart(valued, flags)
  PROVE  ReadArg(s, text, valued, flags) =
           IF text = <<"--">> THEN [s EXCEPT !.ended = TRUE]
           ELSE IF text[1] \in valued THEN [s EXCEPT !.option = text[1]]
           ELSE IF text[1] \in flags THEN [s EXCEPT !.settings = Append(@, <<text[1], <<>>>>)]
           ELSE [s EXCEPT !.whole = FALSE]
<1> DEFINE next == ReadArg(s, text, valued, flags)
<1>1. next = CASE text = <<"--">>     -> [s EXCEPT !.ended = TRUE]
               [] text[1] \in valued  -> [s EXCEPT !.option = text[1]]
               [] text[1] \in flags   -> [s EXCEPT !.settings = Append(@, <<text[1], <<>>>>)]
               [] OTHER -> [s EXCEPT !.whole = FALSE]
  BY DEF ReadArg
<1>2. text = <<"--">> => text[1] = "--"
  OBVIOUS
<1> HIDE DEF next
<1>3. \A x : x \in valued => x \notin flags /\ x # "--"
  BY DEF Apart
<1>4. \A x : x \in flags => x # "--"
  BY DEF Apart
<1>5. QED BY <1>1, <1>2, <1>3, <1>4 DEF next

Reading(T, valued, flags) ==
  [settings : Seq((valued \union flags) \X (T \union {<<>>})), whole : BOOLEAN,
   option : valued \union {NoOption}, ended : BOOLEAN, rest : Seq(T)]

\* What is read of texts are options that exist, with texts as values.
LEMMA ReadType ==
  ASSUME NEW T, NEW valued, NEW flags, Apart(valued, flags), NEW list \in Seq(T)
  PROVE  ReadArgs(list, valued, flags) \in Reading(T, valued, flags)
<1> DEFINE R == Reading(T, valued, flags)
           P == {seq \in Seq(T) : ReadArgs(seq, valued, flags) \in R}
<1>0. Apart(valued, flags)
  OBVIOUS
<1>1. Fresh \in R
  BY DEF Fresh, Reading
<1>2. ASSUME NEW s \in R, NEW text \in T PROVE ReadArg(s, text, valued, flags) \in R
  <2> DEFINE next == ReadArg(s, text, valued, flags)
  <2>1. /\ s.settings \in Seq((valued \union flags) \X (T \union {<<>>})) /\ s.whole \in BOOLEAN
        /\ s.option \in valued \union {NoOption} /\ s.ended \in BOOLEAN /\ s.rest \in Seq(T)
    BY DEF Reading
  <2>2. CASE s.whole /\ s.option # NoOption
    <3>1. <<s.option, text>> \in (valued \union flags) \X (T \union {<<>>})
      BY <2>1, <2>2
    <3>2. Append(s.settings, <<s.option, text>>) \in Seq((valued \union flags) \X (T \union {<<>>}))
      BY <2>1, <3>1
    <3>3. next = [s EXCEPT !.settings = Append(@, <<s.option, text>>), !.option = NoOption]
      BY <2>2 DEF ReadArg
    <3>4. QED BY <3>2, <3>3 DEF Reading
  <2>3. CASE s.whole /\ s.option = NoOption /\ (s.ended \/ ~Dashed(text, valued \union flags))
    <3>1. next = [s EXCEPT !.rest = Append(@, text)]
      BY <2>3, ReadRest
    <3>2. Append(s.rest, text) \in Seq(T)
      BY <2>1
    <3>3. QED BY <3>1, <3>2 DEF Reading
  <2>4. CASE s.whole /\ s.option = NoOption /\ ~(s.ended \/ ~Dashed(text, valued \union flags))
    <3>1. CASE text = <<"--">>
      <4>1. next = [s EXCEPT !.ended = TRUE]
        BY <2>4, <3>1, ReadDashed
      <4>2. QED BY <4>1 DEF Reading
    <3>2. CASE text # <<"--">> /\ text[1] \in valued
      <4>1. next = [s EXCEPT !.option = text[1]]
        BY <2>4, <3>2, ReadDashed
      <4>2. QED BY <3>2, <4>1 DEF Reading
    <3>3. CASE text # <<"--">> /\ text[1] \in flags
      <4>2. PICK o : o = text[1]
        OBVIOUS
      <4>1. next = [s EXCEPT !.settings = Append(@, <<o, <<>>>>)]
        <5>1. o \notin valued
          BY <3>3, <4>2 DEF Apart
        <5>2. QED BY <2>4, <3>3, <4>2, <5>1, ReadDashed
      <4>3. <<o, <<>>>> \in (valued \union flags) \X (T \union {<<>>})
        BY <3>3, <4>2
      <4>4. Append(s.settings, <<o, <<>>>>) \in Seq((valued \union flags) \X (T \union {<<>>}))
        BY <2>1, <4>3
      <4>5. QED BY <4>1, <4>2, <4>4 DEF Reading
    <3>4. CASE text # <<"--">> /\ text[1] \notin valued \union flags
      <4>1. next = [s EXCEPT !.whole = FALSE]
        BY <2>4, <3>4, ReadDashed
      <4>2. QED BY <4>1 DEF Reading
    <3>5. QED BY <3>1, <3>2, <3>3, <3>4
  <2>5. CASE ~s.whole
    BY <2>5, ReadStuck
  <2>6. QED BY <2>2, <2>3, <2>4, <2>5
<1>3. <<>> \in P
  <2>1. ReadArgs(<<>>, valued, flags) = Fresh
    BY ReadNone
  <2>2. QED BY <1>1, <2>1
<1>4. ASSUME NEW seq \in Seq(T), NEW e \in T, seq \in P PROVE Append(seq, e) \in P
  <2>1. ReadArgs(Append(seq, e), valued, flags) = ReadArg(ReadArgs(seq, valued, flags), e, valued, flags)
    BY ReadOn
  <2>2. ReadArgs(Append(seq, e), valued, flags) \in R
    BY <1>2, <1>4, <2>1
  <2>3. QED BY <2>2
<1> HIDE DEF P
<1>5. Seq(T) \subseteq P
  BY ONLY <1>3, <1>4, Grow
<1>6. QED BY <1>5 DEF P

-----------------------------------------------------------------------------
(* What daqd makes of an option.                                             *)

\* Which the numeric options are.
LEMMA Six ==
  Options = {"--events-per-file", "--reconnect-ms", "--read-timeout-ms", "--duration-sec",
             "--startup-connect-timeout-sec", "--reconnect-failure-timeout-sec"}
<1>1. DOMAIN Numeric = {1, 2, 3, 4, 5, 6}
  BY DEF Numeric
<1>2. QED BY <1>1 DEF Options, Range, Numeric

\* No option is another one, or no option at all.
LEMMA OptionsApart == Apart(Valued, Flags)
BY Six DEF Apart, Valued, Flags, Partial, NoOption

\* The cases of TakeOption, one by one.  Once refused, always refused.
LEMMA TakeDone ==
  ASSUME NEW s, NEW setting, s.outcome # "ok"
  PROVE  TakeOption(s, setting) = s
BY DEF TakeOption

\* The texts.
LEMMA TakeTexts ==
  ASSUME NEW s, NEW text, s.outcome = "ok"
  PROVE  /\ TakeOption(s, <<"--output-dir", text>>) = [s EXCEPT !.cfg.output_dir = text]
         /\ TakeOption(s, <<"--comment", text>>) = [s EXCEPT !.cfg.comment = text]
<1>1. TakeOption(s, <<"--output-dir", text>>) = [s EXCEPT !.cfg.output_dir = text]
  BY Six DEF TakeOption, Partial
<1>2. TakeOption(s, <<"--comment", text>>) = [s EXCEPT !.cfg.comment = text]
  BY Six DEF TakeOption, Partial
<1>3. QED BY <1>1, <1>2

\* The switches.
LEMMA TakeFlags ==
  ASSUME NEW s, NEW text, s.outcome = "ok"
  PROVE  /\ TakeOption(s, <<Partial, text>>) = [s EXCEPT !.cfg.partial = TRUE]
         /\ TakeOption(s, <<"--help", text>>) = [s EXCEPT !.outcome = "exit"]
         /\ TakeOption(s, <<"-h", text>>) = [s EXCEPT !.outcome = "exit"]
<1>1. TakeOption(s, <<Partial, text>>) = [s EXCEPT !.cfg.partial = TRUE]
  BY Six DEF TakeOption, Partial
<1>2. TakeOption(s, <<"--help", text>>) = [s EXCEPT !.outcome = "exit"]
  BY Six DEF TakeOption, Partial
<1>3. TakeOption(s, <<"-h", text>>) = [s EXCEPT !.outcome = "exit"]
  BY Six DEF TakeOption, Partial
<1>4. QED BY <1>1, <1>2, <1>3

\* The number of the first run.
LEMMA TakeStart ==
  ASSUME NEW s, NEW text, s.outcome = "ok"
  PROVE  TakeOption(s, <<"--Run-start", text>>)
           = IF UInt32(text) = NaN THEN Refused(s) ELSE [s EXCEPT !.cfg.run_start = UInt32(text)]
BY Six DEF TakeOption, Partial

\* The other numbers.
LEMMA TakeNumber ==
  ASSUME NEW s, NEW text, NEW o \in Options, s.outcome = "ok"
  PROVE  TakeOption(s, <<o, text>>)
           = IF UInt32(text) < 1 THEN Refused(s) ELSE [s EXCEPT !.cfg.number[o] = UInt32(text)]
BY Six DEF TakeOption, Partial

\* A device.
LEMMA TakeDevice ==
  ASSUME NEW s, NEW text, s.outcome = "ok"
  PROVE  TakeOption(s, <<"--device", text>>)
           = IF BeforeEqual(text) \in Frontends /\ ParseDeviceSpec(AfterEqual(text)) # NoDevice
             THEN [s EXCEPT !.cfg.devices = Append(@, ParseDeviceSpec(AfterEqual(text)))]
             ELSE Refused(s)
BY Six DEF TakeOption, Partial

\* A port is a uint32_t.
LEMMA PortsFit == MaxPort \in Nat /\ 7 <= MaxPort /\ MaxPort <= MaxU32
BY RequestAssumption DEF MaxPort

\* Numbers that daqd takes for its options.
GoodNumbers == {number \in [Options -> 0 .. MaxU32] : \A o \in Options : number[o] >= Default(o)}

Settling(W) ==
  [outcome : {"ok", "refused", "exit"},
   cfg : [output_dir : Seq(W), devices : Seq(GoodDevice(W)), comment : Seq(W), partial : BOOLEAN,
          run_start : 0 .. MaxU32 \union {NaN}, number : GoodNumbers]]

\* One option keeps the configuration one of good devices and numbers.
LEMMA TakeType ==
  ASSUME NEW W, NEW s \in Settling(W), NEW o \in Valued \union Flags, NEW text \in Seq(W)
  PROVE  TakeOption(s, <<o, text>>) \in Settling(W)
<1> DEFINE next == TakeOption(s, <<o, text>>)
<1>1. CASE s.outcome # "ok"
  BY <1>1, TakeDone
<1>2. /\ s.cfg.output_dir \in Seq(W) /\ s.cfg.devices \in Seq(GoodDevice(W)) /\ s.cfg.comment \in Seq(W)
      /\ s.cfg.partial \in BOOLEAN /\ s.cfg.run_start \in 0 .. MaxU32 \union {NaN} /\ s.cfg.number \in GoodNumbers
  BY DEF Settling
<1>3. Refused(s) \in Settling(W)
  BY DEF Refused, Settling
<1>4. CASE s.outcome = "ok" /\ o = "--output-dir"
  <2>1. next = [s EXCEPT !.cfg.output_dir = text]
    BY <1>4, TakeTexts
  <2>2. QED BY <2>1 DEF Settling
<1>5. CASE s.outcome = "ok" /\ o = "--comment"
  <2>1. next = [s EXCEPT !.cfg.comment = text]
    BY <1>5, TakeTexts
  <2>2. QED BY <2>1 DEF Settling
<1>6. CASE s.outcome = "ok" /\ o \in Flags
  <2>1. next = [s EXCEPT !.cfg.partial = TRUE] \/ next = [s EXCEPT !.outcome = "exit"]
    BY <1>6, TakeFlags DEF Flags
  <2>2. [s EXCEPT !.cfg.partial = TRUE] \in Settling(W)
    BY <1>2 DEF Settling
  <2>3. [s EXCEPT !.outcome = "exit"] \in Settling(W)
    BY <1>2 DEF Settling
  <2>4. QED BY <2>1, <2>2, <2>3
<1>7. CASE s.outcome = "ok" /\ o = "--Run-start"
  <2>1. next = Refused(s) \/ next = [s EXCEPT !.cfg.run_start = UInt32(text)]
    BY <1>7, TakeStart
  <2>2. UInt32(text) \in 0 .. MaxU32 \union {NaN}
    BY NumbersRead
  <2>3. [s EXCEPT !.cfg.run_start = UInt32(text)] \in Settling(W)
    BY <2>2 DEF Settling
  <2>4. QED BY <1>3, <2>1, <2>3
<1>8. CASE s.outcome = "ok" /\ o \in Options
  <2>1. CASE UInt32(text) < 1
    BY <1>3, <1>8, <2>1, TakeNumber
  <2>2. CASE ~(UInt32(text) < 1)
    <3>1. PICK n : n = UInt32(text)
      OBVIOUS
    <3>2. n \in 1 .. MaxU32
      BY <2>2, <3>1, NumbersRead, GetoptAssumption DEF NaN
    <3>3. next = [s EXCEPT !.cfg.number[o] = n]
      BY <1>8, <2>2, <3>1, TakeNumber
    <3>4. [s.cfg.number EXCEPT ![o] = n] \in GoodNumbers
      <4>1. s.cfg.number \in [Options -> 0 .. MaxU32] /\ \A p \in Options : s.cfg.number[p] >= Default(p)
        BY <1>2 DEF GoodNumbers
      <4>2. n \in 0 .. MaxU32 /\ n >= Default(o)
        BY <3>2, GetoptAssumption DEF Default
      <4>3. QED BY <1>8, <4>1, <4>2 DEF GoodNumbers
    <3>5. QED BY <3>3, <3>4 DEF Settling
  <2>3. QED BY <2>1, <2>2
<1>9. CASE s.outcome = "ok" /\ o = "--device"
  <2>1. PICK device : device = ParseDeviceSpec(AfterEqual(text))
    OBVIOUS
  <2>2. CASE BeforeEqual(text) \in Frontends /\ device # NoDevice
    <3>1. device \in GoodDevice(W)
      BY <2>1, <2>2, DeviceRead, Halves
    <3>2. next = [s EXCEPT !.cfg.devices = Append(@, device)]
      BY <1>9, <2>1, <2>2, TakeDevice
    <3>3. Append(s.cfg.devices, device) \in Seq(GoodDevice(W))
      BY <1>2, <3>1
    <3>4. QED BY <3>2, <3>3 DEF Settling
  <2>3. CASE ~(BeforeEqual(text) \in Frontends /\ device # NoDevice)
    BY <1>3, <1>9, <2>1, <2>3, TakeDevice
  <2>4. QED BY <2>2, <2>3
<1>10. s.outcome \in {"ok", "refused", "exit"}
  BY DEF Settling
<1>11. QED BY <1>1, <1>4, <1>5, <1>6, <1>7, <1>8, <1>9 DEF Valued

\* So do all of them.
LEMMA TakesType ==
  ASSUME NEW W, NEW settings \in Seq((Valued \union Flags) \X Seq(W))
  PROVE  TakeOptions(settings) \in Settling(W)
<1> DEFINE X == (Valued \union Flags) \X Seq(W)
           P == {seq \in Seq(X) : TakeOptions(seq) \in Settling(W)}
<1>1. Unset \in Settling(W)
  <2>1. [o \in Options |-> Default(o)] \in GoodNumbers
    <3>1. \A o \in Options : Default(o) \in 0 .. MaxU32 /\ Default(o) >= Default(o)
      BY GetoptAssumption, PortsFit DEF Default
    <3>2. QED BY <3>1 DEF GoodNumbers
  <2>2. QED BY <2>1 DEF Unset, DaqConfig, Settling, NaN
<1>2. <<>> \in P
  <2>1. TakeOptions(<<>>) \in Settling(W)
    BY <1>1, TakeNone
  <2>2. <<>> \in Seq(X)
    OBVIOUS
  <2>3. QED BY <2>1, <2>2
<1>3. ASSUME NEW seq \in Seq(X), NEW e \in X, seq \in P PROVE Append(seq, e) \in P
  <2>1. PICK o \in Valued \union Flags, text \in Seq(W) : e = <<o, text>>
    OBVIOUS
  <2>2. TakeOptions(Append(seq, e)) = TakeOption(TakeOptions(seq), e)
    BY TakeOn
  <2>3. TakeOption(TakeOptions(seq), e) \in Settling(W)
    BY <1>3, <2>1, TakeType
  <2>4. Append(seq, e) \in Seq(X)
    OBVIOUS
  <2>5. QED BY <2>2, <2>3, <2>4
<1> HIDE DEF P, X
<1>4. Seq(X) \subseteq P
  BY ONLY <1>2, <1>3, Grow
<1>5. QED BY <1>4 DEF P, X

\* Whatever the words of the command line.
LEMMA LineSane ==
  ASSUME NEW W, NEW list \in Seq(Seq(W))
  PROVE  Sane(ParseDaqArgs(list))
<1> DEFINE scan == Scan(list, Valued, Flags)
           s == TakeOptions(scan.settings)
<1>1. scan.settings \in Seq((Valued \union Flags) \X Seq(W))
  <2>1. ReadArgs(list, Valued, Flags) \in Reading(Seq(W), Valued, Flags)
    BY OptionsApart, ReadType
  <2>2. Seq(W) \union {<<>>} = Seq(W)
    <3>1. <<>> \in Seq(W)
      OBVIOUS
    <3>2. QED BY <3>1
  <2>3. QED BY <2>1, <2>2 DEF Reading, Scan
<1>2. s \in Settling(W)
  BY <1>1, TakesType
<1> HIDE DEF s, scan
<1>3. ParseDaqArgs(list) = IF /\ s.outcome = "ok"
                              /\ ~scan.whole \/ scan.rest # <<>> \/ <<>> \in {s.cfg.output_dir, s.cfg.devices}
                           THEN Refused(s) ELSE s
  BY DEF ParseDaqArgs, s, scan
<1>4. PICK end : end = ParseDaqArgs(list)
  OBVIOUS
<1>5. CASE end.outcome # "ok"
  BY <1>4, <1>5 DEF Sane
<1>6. CASE end.outcome = "ok"
  <2>1. Refused(s).outcome # "ok"
    BY <1>2 DEF Refused, Settling
  <2>2. end = s /\ <<>> \notin {s.cfg.output_dir, s.cfg.devices}
    BY <1>3, <1>4, <1>6, <2>1
  <2>3. s.cfg.devices \in Seq(GoodDevice(W)) /\ s.cfg.number \in GoodNumbers
    BY <1>2 DEF Settling
  <2>4. ASSUME NEW i \in DOMAIN s.cfg.devices
        PROVE  /\ s.cfg.devices[i].board \in 0 .. 7 /\ s.cfg.devices[i].host # <<>>
               /\ s.cfg.devices[i].port \in 1 .. MaxPort
    <3>1. s.cfg.devices[i] \in GoodDevice(W)
      BY <2>3
    <3>2. QED BY <3>1 DEF GoodDevice
  <2>5. ASSUME NEW o \in Options PROVE s.cfg.number[o] \in Default(o) .. MaxU32
    BY <2>3, GetoptAssumption DEF GoodNumbers, Default
  <2>6. QED BY <1>4, <2>2, <2>4, <2>5 DEF Sane
<1>7. QED BY <1>5, <1>6

\* What arrives are texts of those that were sent.
LEMMA ArrivingType ==
  ASSUME NEW T, NEW list \in Seq(T)
  PROVE  Arriving(list) \in Seq(T)
<1> DEFINE parts == [i \in DOMAIN list |-> IF list[i] = <<>> THEN <<>> ELSE <<list[i]>>]
<1>1. parts \in Seq(Seq(T))
  <2>1. ASSUME NEW i \in DOMAIN list PROVE (IF list[i] = <<>> THEN <<>> ELSE <<list[i]>>) \in Seq(T)
    <3>1. list[i] \in T
      OBVIOUS
    <3>2. <<>> \in Seq(T) /\ \A t \in T : <<t>> \in Seq(T)
      OBVIOUS
    <3>3. QED BY ONLY <3>1, <3>2
  <2>2. DOMAIN list = 1 .. Len(list) /\ Len(list) \in Nat
    OBVIOUS
  <2>3. QED BY <2>1, <2>2
<1> HIDE DEF parts
<1>2. FlattenSeq(parts) \in Seq(T)
  BY ONLY <1>1, FlattenMore
<1>3. QED BY <1>2 DEF Arriving, NonEmpty, parts

\* What daqd accepts is a configuration that the service and the run can have,
\* whatever list of texts, of whatever words, daqctl is called with
\* (daq_cli.cpp:86, 206).
THEOREM EveryLineSane ==
  ASSUME NEW W, NEW list \in Seq(Seq(W))
  PROVE  Sane(ParseDaqArgs(Arriving(list)))
<1>1. Arriving(list) \in Seq(Seq(W))
  BY ArrivingType
<1>2. QED BY <1>1, LineSane

\* All words of the command lines that TLC tries.
Literals ==
         {"--output-dir", "--comment", "--events-per-file", "--Run-start", "--device", "kc705_tof", "=",
          "1", "@", "a", ":", "b", "0", "host", Partial, "--help", "--", "text"}
LineWords ==
  (UNION {Range(text) : text \in Words}) \union {ToString(n) : n \in Numbers} \union Literals

\* The settings of the run's command lines are made of those words.
LEMMA SettingWords == Settings \subseteq Seq(Seq(LineWords))
<1>0. \A x : x \in Literals => x \in LineWords
  BY Zenon DEF LineWords
<1>1. ASSUME NEW text \in Entries PROVE text \in Seq(LineWords)
  <2>1. CASE text = <<>>
    BY <2>1
  <2>2. CASE text \in Words
    <3>1. text \in Seq(Range(text)) /\ Range(text) \subseteq LineWords
      BY <2>2, RequestAssumption DEF LineWords
    <3>2. PICK R : R = Range(text)
      OBVIOUS
    <3>3. QED BY <3>1, <3>2
  <2>3. QED BY <2>1, <2>2 DEF Entries
<1>2. ASSUME NEW n \in Numbers PROVE Numeral(n) \in Seq(LineWords)
  <2>1. ToString(n) \in {ToString(m) : m \in Numbers}
    BY Zenon
  <2>3. ToString(n) \in LineWords
    BY <2>1, Zenon DEF LineWords
  <2>2. QED BY <2>3 DEF Numeral
<1>3. ASSUME NEW o \in {"--output-dir", "--comment", "--events-per-file", "--Run-start", "--device"}
      PROVE  <<o>> \in Seq(LineWords)
  <2>1. o \in LineWords
    BY <1>0 DEF Literals
  <2>2. QED BY <2>1
<1>4. \A o, text \in Seq(LineWords) : <<o, text>> \in Seq(Seq(LineWords))
  OBVIOUS
<1>5. ASSUME NEW spec \in {<<"1", "@", "a", ":", "b", ":", "1">>, <<"0", "@", "host", ":", "0">>}
      PROVE  <<"kc705_tof", "=">> \o spec \in Seq(LineWords)
  <2>1. /\ <<"1", "@", "a", ":", "b", ":", "1">> \in Seq(LineWords)
        /\ <<"0", "@", "host", ":", "0">> \in Seq(LineWords)
        /\ <<"kc705_tof", "=">> \in Seq(LineWords)
    <3>1. {"1", "@", "a", ":", "b", "0", "host", "kc705_tof", "="} \subseteq LineWords
      BY <1>0 DEF Literals
    <3>2. PICK W : W = LineWords
      OBVIOUS
    <3>3. QED BY <3>1, <3>2
  <2>2. spec \in Seq(LineWords)
    BY <2>1
  <2>3. PICK first, last : first = <<"kc705_tof", "=">> /\ last = spec
    OBVIOUS
  <2>4. first \o last \in Seq(LineWords)
    BY <2>1, <2>2, <2>3
  <2>5. QED BY <2>3, <2>4
<1>6. ASSUME NEW flag \in {Partial, "--help", "--", "text"} PROVE <<<<flag>>>> \in Seq(Seq(LineWords))
  <2>1. flag \in LineWords
    BY <1>0 DEF Literals
  <2>2. QED BY <2>1
<1>7. QED
  <2>1. \A o \in {"--output-dir", "--comment"}, text \in Entries : <<<<o>>, text>> \in Seq(Seq(LineWords))
    BY <1>1, <1>3, <1>4
  <2>2. \A o \in {"--events-per-file", "--Run-start"}, n \in Numbers :
          <<<<o>>, Numeral(n)>> \in Seq(Seq(LineWords))
    BY <1>2, <1>3, <1>4
  <2>3. \A spec \in {<<"1", "@", "a", ":", "b", ":", "1">>, <<"0", "@", "host", ":", "0">>} :
          <<<<"--device">>, <<"kc705_tof", "=">> \o spec>> \in Seq(Seq(LineWords))
    BY <1>3, <1>4, <1>5
  <2>4. ASSUME NEW x \in Settings PROVE x \in Seq(Seq(LineWords))
    <3>1. CASE x \in {<<<<o>>, text>> : o \in {"--output-dir", "--comment"}, text \in Entries}
      <4>1. PICK o \in {"--output-dir", "--comment"}, text \in Entries : x = <<<<o>>, text>>
        BY <3>1
      <4>2. QED BY <2>1, <4>1
    <3>2. CASE x \in {<<<<o>>, Numeral(n)>> : o \in {"--events-per-file", "--Run-start"}, n \in Numbers}
      <4>1. PICK o \in {"--events-per-file", "--Run-start"}, n \in Numbers : x = <<<<o>>, Numeral(n)>>
        BY <3>2
      <4>2. QED BY <2>2, <4>1
    <3>3. CASE x \in {<<<<"--device">>, <<"kc705_tof", "=">> \o spec>> :
                        spec \in {<<"1", "@", "a", ":", "b", ":", "1">>, <<"0", "@", "host", ":", "0">>}}
      <4>1. PICK spec \in {<<"1", "@", "a", ":", "b", ":", "1">>, <<"0", "@", "host", ":", "0">>} :
              x = <<<<"--device">>, <<"kc705_tof", "=">> \o spec>>
        BY <3>3
      <4>2. QED BY <2>3, <4>1
    <3>4. CASE x \in {<<<<flag>>>> : flag \in {Partial, "--help", "--", "text"}}
      <4>1. PICK flag \in {Partial, "--help", "--", "text"} : x = <<<<flag>>>>
        BY <3>4
      <4>2. QED BY <1>6, <4>1
    <3>5. QED BY <3>1, <3>2, <3>3, <3>4 DEF Settings
  <2>5. QED BY <2>4

\* So daqd's configurations are sane on the command lines of the runs.
LEMMA LinesSane == AcceptedIsSane
<1>1. SUFFICES ASSUME NEW list \in CommandLines PROVE list \in Seq(Seq(LineWords))
  BY EveryLineSane DEF AcceptedIsSane
<1>2. PICK parts \in UNION {[1 .. k -> Settings] : k \in 0 .. MaxSettings} : list = FlattenSeq(parts)
  BY Zenon DEF CommandLines
<1>0. PICK k \in 0 .. MaxSettings : parts \in [1 .. k -> Settings]
  BY Zenon
<1>3. k \in Nat /\ parts \in [1 .. k -> Seq(Seq(LineWords))]
  BY <1>0, SettingWords, RequestAssumption
<1>4. parts \in Seq(Seq(Seq(LineWords)))
  BY <1>3
<1>5. FlattenSeq(parts) \in Seq(Seq(LineWords))
  BY ONLY <1>4, FlattenMore
<1>6. QED BY <1>2, <1>5

-----------------------------------------------------------------------------
(* How far a request has been read.                                          *)

\* Only empty arguments get lost on the way.
LEMMA ArrivingNone == Arriving(<<>>) = <<>>
<1>1. [i \in DOMAIN <<>> |-> IF <<>>[i] = <<>> THEN <<>> ELSE <<<<>>[i]>>] = <<>>
  OBVIOUS
<1>2. QED BY <1>1, FlattenMore DEF Arriving, NonEmpty

\* One argument more arrives behind the others, unless it is empty.
LEMMA ArrivingOn ==
  ASSUME NEW T, NEW list \in Seq(T), NEW text \in T
  PROVE  Arriving(Append(list, text))
           = IF text = <<>> THEN Arriving(list) ELSE Append(Arriving(list), text)
<1> DEFINE Piece(t)   == IF t = <<>> THEN <<>> ELSE <<t>>
           Parts(seq) == [i \in DOMAIN seq |-> Piece(seq[i])]
           n == Len(list)
<1>1. n \in Nat /\ DOMAIN list = 1 .. n
  OBVIOUS
<1>2. \A t \in T : Piece(t) \in Seq(T)
  OBVIOUS
<1>3. PICK more \in Seq(T) : more = Append(list, text)
  <2>1. Append(list, text) \in Seq(T)
    OBVIOUS
  <2>2. QED BY <2>1
<1>4. DOMAIN more = 1 .. n + 1 /\ more[n + 1] = text /\ \A i \in 1 .. n : more[i] = list[i]
  BY <1>3
<1> HIDE DEF Piece
<1>5. Parts(list) \in Seq(Seq(T)) /\ Len(Parts(list)) = n
  <2>1. Parts(list) = [i \in 1 .. n |-> Piece(list[i])] /\ \A i \in 1 .. n : list[i] \in T
    BY <1>1
  <2> HIDE DEF n
  <2>2. QED BY <1>1, <1>2, <2>1
<1>6. Parts(more) = Append(Parts(list), Piece(text))
  <2>1. Parts(more) = [i \in 1 .. n + 1 |-> Piece(more[i])]
    BY <1>4
  <2>2. PICK seq \in Seq(Seq(T)) : seq = Parts(list) /\ Len(seq) = n /\ \A i \in 1 .. n : seq[i] = Piece(list[i])
    BY <1>1, <1>5
  <2>3. PICK last \in Seq(T) : last = Piece(text)
    BY <1>2
  <2>4. /\ Append(seq, last) = [i \in 1 .. n + 1 |-> Append(seq, last)[i]]
        /\ \A i \in 1 .. n : Append(seq, last)[i] = seq[i]
        /\ Append(seq, last)[n + 1] = last
    BY <2>2
  <2>5. ASSUME NEW i \in 1 .. n + 1 PROVE Append(seq, last)[i] = Piece(more[i])
    <3>1. CASE i = n + 1
      BY <1>4, <2>3, <2>4, <3>1
    <3>2. CASE i \in 1 .. n
      BY <1>4, <2>2, <2>4, <3>2
    <3>3. i = n + 1 \/ i \in 1 .. n
      <4>1. \A m \in Nat : \A j \in 1 .. m + 1 : j = m + 1 \/ j \in 1 .. m
        OBVIOUS
      <4>2. QED BY <1>1, <4>1
    <3>4. QED BY <3>1, <3>2, <3>3
  <2> HIDE DEF Parts
  <2>6. QED BY <2>1, <2>2, <2>3, <2>4, <2>5
<1>7. FlattenSeq(Append(Parts(list), Piece(text))) = FlattenSeq(Parts(list)) \o Piece(text)
  <2>1. PICK seq \in Seq(Seq(T)), last \in Seq(T) : seq = Parts(list) /\ last = Piece(text)
    BY <1>2, <1>5
  <2>2. FlattenSeq(Append(seq, last)) = FlattenSeq(seq) \o last
    BY ONLY <2>1, FlattenMore
  <2>3. QED BY <2>1, <2>2
<1>8. Arriving(more) = Arriving(list) \o Piece(text)
  <2>1. Arriving(more) = FlattenSeq(Parts(more)) /\ Arriving(list) = FlattenSeq(Parts(list))
    BY DEF Arriving, NonEmpty, Piece
  <2> HIDE DEF Parts
  <2>2. QED BY <1>6, <1>7, <2>1
<1>9. Arriving(list) \in Seq(T)
  BY ArrivingType
<1>10. QED
  <2>1. CASE text = <<>>
    BY <1>3, <1>8, <1>9, <2>1 DEF Piece
  <2>2. CASE text # <<>>
    BY <1>3, <1>8, <1>9, <2>2 DEF Piece
  <2>3. QED BY <2>1, <2>2

\* All that a list begins with has been read, with the other arguments rest, and
\* makes s of the configuration.
Reaches(T, list, s, rest) ==
  LET end == ReadArgs(Arriving(list), Valued, Flags)
  IN /\ list \in Seq(T)
     /\ end.whole /\ end.option = NoOption /\ ~end.ended /\ end.rest = rest
     /\ TakeOptions(end.settings) = s

\* Before anything is read.
LEMMA ReachNone == ASSUME NEW T PROVE Reaches(T, <<>>, Unset, <<>>)
<1>1. ReadArgs(Arriving(<<>>), Valued, Flags) = Fresh
  BY ArrivingNone, ReadNone
<1>2. TakeOptions(Fresh.settings) = Unset
  BY TakeNone DEF Fresh
<1>3. QED BY <1>1, <1>2 DEF Reaches, Fresh

\* An option with its value.
LEMMA ReachPair ==
  ASSUME NEW T, NEW list, NEW s, NEW rest, Reaches(T, list, s, rest),
         NEW o \in Valued, <<o>> \in T, NEW text \in T, text # <<>>
  PROVE  Reaches(T, list \o <<<<o>>, text>>, TakeOption(s, <<o, text>>), rest)
<1> DEFINE Read(seq) == ReadArgs(seq, Valued, Flags)
<1>1. PICK opt \in T : opt = <<o>> /\ opt # <<>> /\ opt[1] = o
  OBVIOUS
<1>2. list \in Seq(T)
  BY DEF Reaches
<1>3. PICK first \in Seq(T) : first = Append(list, opt)
  <2>1. Append(list, opt) \in Seq(T)
    BY <1>2
  <2>2. QED BY <2>1
<1>4. PICK both \in Seq(T) : both = Append(first, text)
  <2>1. Append(first, text) \in Seq(T)
    OBVIOUS
  <2>2. QED BY <2>1
<1>5. both = list \o <<<<o>>, text>>
  BY <1>1, <1>2, <1>3, <1>4
<1>6. PICK gone \in Seq(T) : gone = Arriving(list)
  BY <1>2, ArrivingType
<1>7. PICK going \in Seq(T) : going = Append(gone, opt)
  <2>1. Append(gone, opt) \in Seq(T)
    OBVIOUS
  <2>2. QED BY <2>1
<1>8. Arriving(both) = Append(going, text)
  <2>1. Arriving(first) = Append(Arriving(list), opt)
    BY <1>1, <1>2, <1>3, ArrivingOn
  <2>2. Arriving(both) = Append(Arriving(first), text)
    BY <1>4, ArrivingOn
  <2>3. QED BY <1>6, <1>7, <2>1, <2>2
<1>9. PICK end : end = Read(gone)
  OBVIOUS
<1>10. /\ end \in Reading(T, Valued, Flags)
       /\ end.whole /\ end.option = NoOption /\ ~end.ended /\ end.rest = rest
       /\ TakeOptions(end.settings) = s
  <2>1. end \in Reading(T, Valued, Flags)
    BY <1>9, ReadType, OptionsApart
  <2>2. QED BY <1>6, <1>9, <2>1 DEF Reaches
<1>11. Read(going) = [end EXCEPT !.option = o]
  <2>1. Read(going) = ReadArg(end, opt, Valued, Flags)
    BY <1>7, <1>9, ReadOn
  <2>2. Dashed(opt, Valued \union Flags)
    BY <1>1 DEF Dashed
  <2>3. opt # <<"--">> /\ opt[1] \in Valued
    BY <1>1, OptionsApart DEF Apart
  <2>4. QED BY <1>1, <1>10, <2>1, <2>2, <2>3, ReadDashed, OptionsApart
<1>12. PICK mid : mid = [end EXCEPT !.option = o]
  OBVIOUS
<1>13. mid.whole /\ mid.option = o /\ mid.option # NoOption /\ mid.settings = end.settings
       /\ mid.rest = rest /\ ~mid.ended /\ mid = [settings |-> end.settings, whole |-> end.whole, option |-> o, ended |-> end.ended, rest |-> end.rest]
  BY <1>10, <1>12, OptionsApart DEF Reading, Apart
<1>14. Read(Append(going, text)) = ReadArg(mid, text, Valued, Flags)
  <2>1. Read(Append(going, text)) = ReadArg(Read(going), text, Valued, Flags)
    BY ReadOn
  <2>2. QED BY <1>11, <1>12, <2>1
<1>15. ReadArg(mid, text, Valued, Flags)
         = [mid EXCEPT !.settings = Append(@, <<mid.option, text>>), !.option = NoOption]
  BY <1>13 DEF ReadArg
<1>16. PICK done : done = Read(Arriving(both))
  OBVIOUS
<1>17. /\ done.whole /\ done.option = NoOption /\ ~done.ended /\ done.rest = rest
       /\ done.settings = Append(end.settings, <<o, text>>)
  BY <1>8, <1>13, <1>14, <1>15, <1>16
<1>18. TakeOptions(done.settings) = TakeOption(s, <<o, text>>)
  <2>1. end.settings \in Seq((Valued \union Flags) \X (T \union {<<>>}))
    BY <1>10 DEF Reading
  <2>2. <<o, text>> \in (Valued \union Flags) \X (T \union {<<>>})
    OBVIOUS
  <2>3. QED BY <1>10, <1>17, <2>1, <2>2, TakeOn
<1>19. Reaches(T, both, TakeOption(s, <<o, text>>), rest)
  BY <1>16, <1>17, <1>18 DEF Reaches
<1>20. QED BY <1>5, <1>19

\* A switch.
LEMMA ReachFlag ==
  ASSUME NEW T, NEW list, NEW s, NEW rest, Reaches(T, list, s, rest), NEW o \in Flags, <<o>> \in T
  PROVE  Reaches(T, list \o <<<<o>>>>, TakeOption(s, <<o, <<>>>>), rest)
<1> DEFINE Read(seq) == ReadArgs(seq, Valued, Flags)
<1>1. PICK opt \in T : opt = <<o>> /\ opt # <<>> /\ opt[1] = o
  OBVIOUS
<1>2. list \in Seq(T)
  BY DEF Reaches
<1>3. PICK all \in Seq(T) : all = Append(list, opt)
  <2>1. Append(list, opt) \in Seq(T)
    BY <1>2
  <2>2. QED BY <2>1
<1>4. all = list \o <<<<o>>>>
  BY <1>1, <1>2, <1>3
<1>5. PICK gone \in Seq(T) : gone = Arriving(list)
  BY <1>2, ArrivingType
<1>6. Arriving(all) = Append(gone, opt)
  BY <1>1, <1>2, <1>3, <1>5, ArrivingOn
<1>7. PICK end : end = Read(gone)
  OBVIOUS
<1>8. /\ end \in Reading(T, Valued, Flags)
      /\ end.whole /\ end.option = NoOption /\ ~end.ended /\ end.rest = rest
      /\ TakeOptions(end.settings) = s
  <2>1. end \in Reading(T, Valued, Flags)
    BY <1>7, ReadType, OptionsApart
  <2>2. QED BY <1>5, <1>7, <2>1 DEF Reaches
<1>9. Read(Append(gone, opt)) = [end EXCEPT !.settings = Append(@, <<o, <<>>>>)]
  <2>1. Read(Append(gone, opt)) = ReadArg(end, opt, Valued, Flags)
    <3>1. Read(Append(gone, opt)) = ReadArg(Read(gone), opt, Valued, Flags)
      BY ReadOn
    <3>2. QED BY <1>7, <3>1
  <2>2. Dashed(opt, Valued \union Flags)
    BY <1>1 DEF Dashed
  <2>3. opt # <<"--">> /\ opt[1] \in Flags /\ o \notin Valued
    BY <1>1, OptionsApart DEF Apart
  <2>4. QED BY <1>1, <1>8, <2>1, <2>2, <2>3, ReadDashed, OptionsApart
<1>10. PICK done : done = Read(Arriving(all))
  OBVIOUS
<1>11. /\ done.whole /\ done.option = NoOption /\ ~done.ended /\ done.rest = rest
       /\ done.settings = Append(end.settings, <<o, <<>>>>)
  BY <1>6, <1>8, <1>9, <1>10 DEF Reading
<1>12. TakeOptions(done.settings) = TakeOption(s, <<o, <<>>>>)
  <2>1. end.settings \in Seq((Valued \union Flags) \X (T \union {<<>>}))
    BY <1>8 DEF Reading
  <2>2. <<o, <<>>>> \in (Valued \union Flags) \X (T \union {<<>>})
    OBVIOUS
  <2>3. QED BY <1>8, <1>11, <2>1, <2>2, TakeOn
<1>13. Reaches(T, all, TakeOption(s, <<o, <<>>>>), rest)
  BY <1>10, <1>11, <1>12 DEF Reaches
<1>14. QED BY <1>4, <1>13

\* Another argument.
LEMMA ReachRest ==
  ASSUME NEW T, NEW list, NEW s, NEW rest, Reaches(T, list, s, rest), NEW text \in T, text # <<>>,
         ~Dashed(text, Valued \union Flags)
  PROVE  Reaches(T, Append(list, text), s, Append(rest, text))
<1> DEFINE Read(seq) == ReadArgs(seq, Valued, Flags)
<1>1. list \in Seq(T)
  BY DEF Reaches
<1>2. PICK all \in Seq(T) : all = Append(list, text)
  <2>1. Append(list, text) \in Seq(T)
    BY <1>1
  <2>2. QED BY <2>1
<1>3. PICK gone \in Seq(T) : gone = Arriving(list)
  BY <1>1, ArrivingType
<1>4. Arriving(all) = Append(gone, text)
  BY <1>1, <1>2, <1>3, ArrivingOn
<1>5. PICK end : end = Read(gone)
  OBVIOUS
<1>6. /\ end \in Reading(T, Valued, Flags)
      /\ end.whole /\ end.option = NoOption /\ ~end.ended /\ end.rest = rest
      /\ TakeOptions(end.settings) = s
  <2>1. end \in Reading(T, Valued, Flags)
    BY <1>5, ReadType, OptionsApart
  <2>2. QED BY <1>3, <1>5, <2>1 DEF Reaches
<1>7. Read(Append(gone, text)) = [end EXCEPT !.rest = Append(@, text)]
  <2>1. Read(Append(gone, text)) = ReadArg(end, text, Valued, Flags)
    <3>1. Read(Append(gone, text)) = ReadArg(Read(gone), text, Valued, Flags)
      BY ReadOn
    <3>2. QED BY <1>5, <3>1
  <2>2. QED BY <1>6, <2>1, ReadRest
<1>8. PICK done : done = Read(Arriving(all))
  OBVIOUS
<1>9. /\ done.whole /\ done.option = NoOption /\ ~done.ended /\ done.rest = Append(rest, text)
      /\ done.settings = end.settings
  BY <1>4, <1>6, <1>7, <1>8 DEF Reading
<1>10. Reaches(T, all, s, Append(rest, text))
  BY <1>6, <1>8, <1>9 DEF Reaches
<1>11. QED BY <1>2, <1>10

-----------------------------------------------------------------------------
(* The configuration that a request is to give.                              *)

\* The configuration is right, if no number wraps; it is not refused, if all is
\* fine.
Shape(s, want, above, fine) ==
  /\ s.outcome \in {"ok", "refused"} /\ (fine => s.outcome = "ok")
  /\ s = [outcome |-> s.outcome, cfg |-> s.cfg]
  /\ above /\ s.outcome = "ok" => s.cfg = want

Gets(T, list, rest, want, above, fine) ==
  \E s : Reaches(T, list, s, rest) /\ Shape(s, want, above, fine)

\* A configuration's fields.
Config(dir, devices, comment, partial, number) ==
  [output_dir |-> dir, devices |-> devices, comment |-> comment, partial |-> partial,
   run_start |-> NaN, number |-> number]

\* Nothing is asked for at first.
LEMMA GetsNone ==
  ASSUME NEW T, NEW above, NEW fine
  PROVE  Gets(T, <<>>, <<>>, Config(<<>>, <<>>, <<>>, FALSE, [o \in Options |-> Default(o)]), above, fine)
<1>1. Shape(Unset, Config(<<>>, <<>>, <<>>, FALSE, [o \in Options |-> Default(o)]), above, fine)
  BY DEF Shape, Unset, DaqConfig, Config
<1>2. QED BY <1>1, ReachNone DEF Gets

\* A text that is written is the text daqd gets.
LEMMA GetsTexts ==
  ASSUME NEW T, NEW list, NEW rest, NEW above, NEW fine, NEW text \in T, text # <<>>,
         <<"--output-dir">> \in T, <<"--comment">> \in T,
         NEW dir, NEW devices, NEW comment, NEW partial, NEW number,
         Gets(T, list, rest, Config(dir, devices, comment, partial, number), above, fine)
  PROVE  /\ Gets(T, list \o <<<<"--output-dir">>, text>>, rest,
                 Config(text, devices, comment, partial, number), above, fine)
         /\ Gets(T, list \o <<<<"--comment">>, text>>, rest,
                 Config(dir, devices, text, partial, number), above, fine)
<1>1. PICK s : Reaches(T, list, s, rest) /\ Shape(s, Config(dir, devices, comment, partial, number), above, fine)
  BY DEF Gets
<1>2. Reaches(T, list \o <<<<"--output-dir">>, text>>, TakeOption(s, <<"--output-dir", text>>), rest)
  BY <1>1, ReachPair DEF Valued
<1>3. Reaches(T, list \o <<<<"--comment">>, text>>, TakeOption(s, <<"--comment", text>>), rest)
  BY <1>1, ReachPair DEF Valued
<1>4. /\ Shape(TakeOption(s, <<"--output-dir", text>>), Config(text, devices, comment, partial, number), above, fine)
      /\ Shape(TakeOption(s, <<"--comment", text>>), Config(dir, devices, text, partial, number), above, fine)
  <2>1. CASE s.outcome = "ok"
    <3>1. TakeOption(s, <<"--output-dir", text>>) = [s EXCEPT !.cfg.output_dir = text]
      BY <2>1, TakeTexts
    <3>2. TakeOption(s, <<"--comment", text>>) = [s EXCEPT !.cfg.comment = text]
      BY <2>1, TakeTexts
    <3>3. Shape([s EXCEPT !.cfg.output_dir = text], Config(text, devices, comment, partial, number), above, fine)
      BY <1>1, <2>1 DEF Shape, Config
    <3>4. Shape([s EXCEPT !.cfg.comment = text], Config(dir, devices, text, partial, number), above, fine)
      BY <1>1, <2>1 DEF Shape, Config
    <3>5. QED BY <3>1, <3>2, <3>3, <3>4
  <2>2. CASE s.outcome # "ok"
    BY <1>1, <2>2, TakeDone DEF Shape
  <2>3. QED BY <2>1, <2>2
<1>5. QED BY <1>2, <1>3, <1>4 DEF Gets

\* The switch.
LEMMA GetsPartial ==
  ASSUME NEW T, NEW list, NEW rest, NEW above, NEW fine, <<Partial>> \in T,
         NEW dir, NEW devices, NEW comment, NEW partial, NEW number,
         Gets(T, list, rest, Config(dir, devices, comment, partial, number), above, fine)
  PROVE  Gets(T, list \o <<<<Partial>>>>, rest, Config(dir, devices, comment, TRUE, number), above, fine)
<1>1. PICK s : Reaches(T, list, s, rest) /\ Shape(s, Config(dir, devices, comment, partial, number), above, fine)
  BY DEF Gets
<1>2. Reaches(T, list \o <<<<Partial>>>>, TakeOption(s, <<Partial, <<>>>>), rest)
  BY <1>1, ReachFlag DEF Flags
<1>3. Shape(TakeOption(s, <<Partial, <<>>>>), Config(dir, devices, comment, TRUE, number), above, fine)
  <2>1. CASE s.outcome = "ok"
    <3>1. TakeOption(s, <<Partial, <<>>>>) = [s EXCEPT !.cfg.partial = TRUE]
      BY <2>1, TakeFlags
    <3>2. PICK yes : yes = TRUE
      OBVIOUS
    <3>3. Shape([s EXCEPT !.cfg.partial = yes], Config(dir, devices, comment, yes, number), above, fine)
      BY <1>1, <2>1 DEF Shape, Config
    <3>4. QED BY <3>1, <3>2, <3>3
  <2>2. CASE s.outcome # "ok"
    BY <1>1, <2>2, TakeDone DEF Shape
  <2>3. QED BY <2>1, <2>2
<1>4. QED BY <1>2, <1>3 DEF Gets

\* A number that is written is read as itself, or as none if daqd has none such.
LEMMA NumeralReads ==
  ASSUME NEW n \in Ints, n > MaxU32 - ULongs
  PROVE  UInt32(Numeral(n)) = IF n \in 0 .. MaxU32 THEN n ELSE NaN
<1>1. n \in Int /\ MaxU32 \in Nat /\ ULongs \in Nat /\ ULongs > MaxU32
  BY GetoptAssumption
<1>2. PICK text : text = Numeral(n)
  OBVIOUS
<1>3. text \in DOMAIN Spelled /\ Spelled[text] = n
  <2>1. text \in {Numeral(m) : m \in Ints}
    BY <1>2
  <2>2. \A m \in Ints : Numeral(m) = text => m = n
    BY <1>2, NumeralAssumption DEF Numeral
  <2>3. (CHOOSE m \in Ints : Numeral(m) = text) = n
    BY <1>2, <2>2
  <2>4. QED BY <2>1, <2>3 DEF Spelled
<1>4. PICK m : m = Unsigned(text)
  OBVIOUS
<1>5. UInt32(text) = IF m > MaxU32 THEN NaN ELSE m
  BY <1>4 DEF UInt32
<1>6. CASE n \notin 1 - ULongs .. ULongs - 1
  <2>1. m = NaN
    BY <1>3, <1>4, <1>6 DEF Unsigned
  <2>2. n \notin 0 .. MaxU32
    BY <1>1, <1>6
  <2>3. QED BY <1>1, <1>2, <1>5, <2>1, <2>2 DEF NaN
<1>7. CASE n \in 0 .. ULongs - 1
  <2>1. n \in 1 - ULongs .. ULongs - 1
    BY <1>1, <1>7
  <2>2. m = n % ULongs
    BY <1>3, <1>4, <2>1 DEF Unsigned
  <2>3. n % ULongs = n
    BY <1>1, <1>7
  <2>4. QED BY <1>1, <1>2, <1>5, <1>7, <2>2, <2>3 DEF NaN
<1>8. CASE n \in 1 - ULongs .. -1
  <2>1. n \in 1 - ULongs .. ULongs - 1
    BY <1>1, <1>8
  <2>2. m = n % ULongs
    BY <1>3, <1>4, <2>1 DEF Unsigned
  <2>3. n % ULongs = n + ULongs
    <3>1. n + ULongs \in 0 .. ULongs - 1 /\ ULongs > 0
      BY <1>1, <1>8
    <3>2. \A a \in 0 .. ULongs - 1 : (a - ULongs) % ULongs = a
      BY <1>1
    <3>3. (n + ULongs) - ULongs = n
      BY <1>1
    <3>4. QED BY <3>1, <3>2, <3>3
  <2>4. m > MaxU32 /\ n \notin 0 .. MaxU32
    BY <1>1, <1>8, <2>2, <2>3
  <2>5. QED BY <1>2, <1>5, <2>4
<1>9. QED BY <1>1, <1>6, <1>7, <1>8

\* A part of one word.
LEMMA OneWord ==
  ASSUME NEW X, NEW seq \in Seq(X), NEW i \in 1 .. Len(seq), NEW j, j = i
  PROVE  SubSeq(seq, i, j) = <<seq[i]>>
<1>1. PICK part : part = SubSeq(seq, i, i)
  OBVIOUS
<1>2. part \in Seq(X) /\ Len(part) = i - i + 1
  BY <1>1
<1>3. Len(part) = 1 /\ part = [k \in 1 .. Len(part) |-> part[k]]
  BY <1>2
<1>4. part[1] = seq[i]
  BY <1>1
<1>5. PICK x : x = seq[i]
  OBVIOUS
<1>6. part = <<x>>
  BY <1>3, <1>4, <1>5
<1>7. QED BY <1>1, <1>5, <1>6

\* The text of a device that the backend has validated.
DeviceText(b, p) == <<"kc705_tof", "=", b, "@", "host", ":", p>>

\* The text of a device is read as that device.
LEMMA SpecReads ==
  ASSUME NEW board \in Ints, board \in 0 .. 7, NEW port \in Ints, port \in 1 .. MaxPort
  PROVE  LET text == DeviceText(ToString(board), ToString(port))
         IN /\ BeforeEqual(text) \in Frontends
            /\ ParseDeviceSpec(AfterEqual(text)) = [board |-> board, host |-> <<"host">>, port |-> port]
            /\ [board |-> board, host |-> <<"host">>, port |-> port] # NoDevice
<1>1. PICK b, p : b = ToString(board) /\ p = ToString(port)
  OBVIOUS
<1>2. b \notin {"=", "@", ":"} /\ p \notin {"=", "@", ":"}
  BY <1>1, NumeralAssumption
<1>3. PICK text : text = DeviceText(b, p)
  OBVIOUS
<1>4. /\ DOMAIN text = 1 .. 7 /\ Len(text) = 7
      /\ text[1] = "kc705_tof" /\ text[2] = "=" /\ text[3] = b /\ text[4] = "@" /\ text[5] = "host"
      /\ text[6] = ":" /\ text[7] = p
  BY <1>3 DEF DeviceText
<1>5. Places(text, "=") = {2}
  <2>1. ASSUME NEW i \in 1 .. 7, text[i] = "=" PROVE i = 2
    BY <1>2, <1>4, <2>1
  <2>2. QED BY <1>4, <2>1 DEF Places
<1>6. ASSUME NEW i \in Nat PROVE Min({i}) = i /\ Max({i}) = i
  <2>1. i \in {i} /\ {i} \in SUBSET Int /\ \A j \in {i} : i <= j /\ j <= i
    OBVIOUS
  <2>2. QED BY <2>1, Extremes
<1>20. PICK X : text \in Seq(X) /\ <<b, "@", "host", ":", p>> \in Seq(X)
  <2>1. PICK X : X = {"kc705_tof", "=", b, "@", "host", ":", p}
    OBVIOUS
  <2>2. DeviceText(b, p) \in Seq(X) /\ <<b, "@", "host", ":", p>> \in Seq(X)
    BY <2>1 DEF DeviceText
  <2>3. QED BY <1>3, <2>2
<1>7. BeforeEqual(text) = <<"kc705_tof">>
  <2>1. BeforeEqual(text) = SubSeq(text, 1, Min({2}) - 1)
    BY <1>5 DEF BeforeEqual
  <2>2. SubSeq(text, 1, 1) = <<"kc705_tof">>
    BY <1>4, <1>20, OneWord
  <2>3. QED BY <1>6, <2>1, <2>2
<1>8. PICK spec : spec = <<b, "@", "host", ":", p>>
  OBVIOUS
<1>9. AfterEqual(text) = spec
  <2>1. AfterEqual(text) = SubSeq(text, Min({2}) + 1, 7)
    BY <1>4, <1>5 DEF AfterEqual
  <2>2. SubSeq(text, 3, 7) = spec
    <3>1. PICK part : part = SubSeq(text, 3, 7)
      OBVIOUS
    <3>2. /\ part = [k \in 1 .. 5 |-> part[k]]
          /\ part[1] = b /\ part[2] = "@" /\ part[3] = "host" /\ part[4] = ":" /\ part[5] = p
      BY <1>4, <1>20, <3>1
    <3>3. part = <<b, "@", "host", ":", p>>
      BY <3>2
    <3>4. QED BY <1>8, <3>1, <3>3
  <2>3. QED BY <1>6, <2>1, <2>2
<1>10. /\ DOMAIN spec = 1 .. 5 /\ Len(spec) = 5
       /\ spec[1] = b /\ spec[2] = "@" /\ spec[3] = "host" /\ spec[4] = ":" /\ spec[5] = p
  BY <1>8
<1>11. Places(spec, "@") = {2}
  <2>1. ASSUME NEW i \in 1 .. 5, spec[i] = "@" PROVE i = 2
    BY <1>2, <1>10, <2>1
  <2>2. QED BY <1>10, <2>1 DEF Places
<1>12. Places(spec, ":") = {4}
  <2>1. ASSUME NEW i \in 1 .. 5, spec[i] = ":" PROVE i = 4
    BY <1>2, <1>10, <2>1
  <2>2. QED BY <1>10, <2>1 DEF Places
<1>13. /\ SubSeq(spec, 1, 1) = <<b>> /\ SubSeq(spec, 5, 5) = <<p>> /\ SubSeq(spec, 3, 3) = <<"host">>
  <2>1. spec \in Seq(X)
    BY <1>8, <1>20
  <2>2. SubSeq(spec, 1, 1) = <<spec[1]>>
    BY <1>10, <2>1, OneWord
  <2>3. SubSeq(spec, 5, 5) = <<spec[5]>>
    BY <1>10, <2>1, OneWord
  <2>4. SubSeq(spec, 3, 3) = <<spec[3]>>
    <3>1. PICK i : i = 3 /\ i \in 1 .. Len(spec)
      BY <1>10
    <3>2. SubSeq(spec, i, i) = <<spec[i]>>
      BY <2>1, <3>1, OneWord
    <3>3. QED BY <3>1, <3>2
  <2>5. QED BY <1>10, <2>2, <2>3, <2>4
<1>14. UInt32(<<b>>) = board /\ UInt32(<<p>>) = port
  <2>1. board > MaxU32 - ULongs /\ board \in 0 .. MaxU32 /\ port > MaxU32 - ULongs /\ port \in 0 .. MaxU32
    BY GetoptAssumption, PortsFit
  <2>2. UInt32(Numeral(board)) = board /\ UInt32(Numeral(port)) = port
    BY <2>1, NumeralReads
  <2>3. QED BY <1>1, <2>2 DEF Numeral
<1>15. ParseDeviceSpec(spec) = [board |-> board, host |-> <<"host">>, port |-> port]
  <2>1. PICK at, colon : at = Min(Places(spec, "@")) /\ colon = Max(Places(spec, ":"))
    OBVIOUS
  <2>2. at = 2 /\ colon = 4
    BY <1>6, <1>11, <1>12, <2>1
  <2>3. board = UInt32(SubSeq(spec, 1, at - 1)) /\ port = UInt32(SubSeq(spec, colon + 1, Len(spec)))
    <3>1. at - 1 = 1 /\ colon + 1 = 5
      BY <2>2
    <3>2. QED BY <1>10, <1>13, <1>14, <3>1
  <2>4. SubSeq(spec, at + 1, colon - 1) = <<"host">> /\ colon > at + 1
    <3>1. at + 1 = 3 /\ colon - 1 = 3
      BY <2>2
    <3>2. QED BY <1>13, <2>2, <3>1
  <2>5. Places(spec, "@") # {} /\ Places(spec, ":") # {}
    BY <1>11, <1>12
  <2>6. QED BY <2>1, <2>3, <2>4, <2>5, DeviceParts
<1>16. [board |-> board, host |-> <<"host">>, port |-> port] # NoDevice
  BY DEF NoDevice, NaN
<1>17. QED BY <1>1, <1>3, <1>7, <1>9, <1>15, <1>16 DEF Frontends

\* A number that is written is the number daqd gets.
LEMMA GetsNumber ==
  ASSUME NEW T, NEW list, NEW rest, NEW above, NEW fine, NEW o \in Options, NEW n \in Ints,
         <<o>> \in T, Numeral(n) \in T,
         above => n > MaxU32 - ULongs, fine => n \in 1 .. MaxU32,
         NEW dir, NEW devices, NEW comment, NEW partial, NEW number,
         Gets(T, list, rest, Config(dir, devices, comment, partial, number), above, fine)
  PROVE  Gets(T, list \o <<<<o>>, Numeral(n)>>, rest,
              Config(dir, devices, comment, partial, [number EXCEPT ![o] = n]), above, fine)
<1> DEFINE text == Numeral(n)
           want == Config(dir, devices, comment, partial, [number EXCEPT ![o] = n])
<1>1. PICK s : Reaches(T, list, s, rest) /\ Shape(s, Config(dir, devices, comment, partial, number), above, fine)
  BY DEF Gets
<1>2. Reaches(T, list \o <<<<o>>, text>>, TakeOption(s, <<o, text>>), rest)
  <2>1. text # <<>> /\ o \in Valued
    BY DEF Numeral, Valued
  <2>2. QED BY <1>1, <2>1, ReachPair
<1>3. Shape(TakeOption(s, <<o, text>>), want, above, fine)
  <2>1. CASE s.outcome = "ok"
    <3>1. PICK m : m = UInt32(text)
      OBVIOUS
    <3>2. above => m = IF n \in 0 .. MaxU32 THEN n ELSE NaN
      BY <3>1, NumeralReads
    <3>3. fine => m = n /\ m >= 1
      <4>1. fine => n > MaxU32 - ULongs /\ n \in 0 .. MaxU32 /\ n >= 1
        BY GetoptAssumption
      <4>2. QED BY <3>1, <4>1, NumeralReads
    <3>4. TakeOption(s, <<o, text>>) = IF m < 1 THEN Refused(s) ELSE [s EXCEPT !.cfg.number[o] = m]
      BY <2>1, <3>1, TakeNumber
    <3>5. m \in 0 .. MaxU32 \union {NaN}
      BY <3>1, NumbersRead
    <3>6. CASE m < 1
      <4>1. ~fine
        BY <3>3, <3>6
      <4>2. Shape(Refused(s), want, above, fine)
        BY <1>1, <4>1 DEF Shape, Refused
      <4>3. QED BY <3>4, <3>6, <4>2
    <3>7. CASE ~(m < 1)
      <4>1. above => m = n
        BY <3>2, <3>7 DEF NaN
      <4>2. above => s.cfg = Config(dir, devices, comment, partial, number)
        BY <1>1, <2>1 DEF Shape
      <4>3. PICK t : t = [s EXCEPT !.cfg.number[o] = m]
        OBVIOUS
      <4>4. t.outcome = "ok" /\ t = [outcome |-> t.outcome, cfg |-> t.cfg]
        BY <1>1, <2>1, <4>3 DEF Shape
      <4>5. above => t.cfg = want
        <5>1. t.cfg = [s.cfg EXCEPT !.number[o] = m]
          BY <1>1, <4>3 DEF Shape
        <5>2. QED BY <4>1, <4>2, <5>1 DEF Config
      <4>6. Shape(t, want, above, fine)
        BY <4>4, <4>5 DEF Shape
      <4>7. QED BY <3>4, <3>7, <4>3, <4>6
    <3>8. QED BY <3>6, <3>7
  <2>2. CASE s.outcome # "ok"
    BY <1>1, <2>2, TakeDone DEF Shape
  <2>3. QED BY <2>1, <2>2
<1>4. QED BY <1>2, <1>3 DEF Gets

\* Regrouping.
LEMMA Joins ==
  ASSUME NEW X, NEW a \in Seq(X), NEW b \in Seq(X), NEW c \in Seq(X)
  PROVE  a \o (b \o c) = (a \o b) \o c
OBVIOUS

\* One element more.
LEMMA Longer ==
  ASSUME NEW X, NEW a \in Seq(X), NEW n \in Nat, n = Len(a), NEW e \in X
  PROVE  /\ a \o <<e>> \in Seq(X) /\ Len(a \o <<e>>) = n + 1 /\ (a \o <<e>>)[n + 1] = e
         /\ \A i \in 1 .. n : (a \o <<e>>)[i] = a[i]
OBVIOUS

\* The pieces the backend joins are the text of a device.
LEMMA DeviceWords ==
  ASSUME NEW b, NEW p
  PROVE  <<"kc705_tof">> \o <<"=">> \o (<<b>> \o <<"@">> \o <<"host">> \o <<":">> \o <<p>>) = DeviceText(b, p)
<1>1. PICK X, z1, n : /\ X = {"kc705_tof", "=", b, "@", "host", ":", p}
                      /\ z1 = <<"kc705_tof">> /\ z1 \in Seq(X) /\ n = Len(z1) /\ n = 1
  <2>1. PICK X, z1 : X = {"kc705_tof", "=", b, "@", "host", ":", p} /\ z1 = <<"kc705_tof">>
    OBVIOUS
  <2>2. z1 \in Seq(X) /\ Len(z1) = 1
    BY <2>1
  <2>3. QED BY <2>1, <2>2
<1>2. /\ "=" \in X /\ b \in X /\ "@" \in X /\ "host" \in X /\ ":" \in X /\ p \in X
  BY <1>1
<1>3. n = Len(z1) /\ n \in Nat /\ z1 \in Seq(X)
  BY <1>1
<1>4. PICK z2 : z2 = z1 \o <<"=">>
  OBVIOUS
<1>5. z2 \in Seq(X) /\ Len(z2) = n + 1 /\ z2[n + 1] = "=" /\ \A i \in 1 .. n : z2[i] = z1[i]
  BY <1>2, <1>3, <1>4, Longer
<1>6. PICK z3 : z3 = z2 \o <<b>>
  OBVIOUS
<1>7. z3 \in Seq(X) /\ Len(z3) = n + 2 /\ z3[n + 2] = b /\ \A i \in 1 .. n + 1 : z3[i] = z2[i]
  <2>1. PICK m \in Nat : m = n + 1
    BY <1>3
  <2>2. z2 \in Seq(X) /\ m = Len(z2)
    BY <1>5, <2>1
  <2>3. /\ z3 \in Seq(X) /\ Len(z3) = m + 1 /\ z3[m + 1] = b /\ \A i \in 1 .. m : z3[i] = z2[i]
    BY <1>2, <1>6, <2>2, Longer
  <2>4. m + 1 = n + 2
    BY <1>3, <2>1
  <2>5. QED BY <2>1, <2>3, <2>4
<1>8. PICK z4 : z4 = z3 \o <<"@">>
  OBVIOUS
<1>9. z4 \in Seq(X) /\ Len(z4) = n + 3 /\ z4[n + 3] = "@" /\ \A i \in 1 .. n + 2 : z4[i] = z3[i]
  <2>1. PICK m \in Nat : m = n + 2
    BY <1>3
  <2>2. z3 \in Seq(X) /\ m = Len(z3)
    BY <1>7, <2>1
  <2>3. /\ z4 \in Seq(X) /\ Len(z4) = m + 1 /\ z4[m + 1] = "@" /\ \A i \in 1 .. m : z4[i] = z3[i]
    BY <1>2, <1>8, <2>2, Longer
  <2>4. m + 1 = n + 3
    BY <1>3, <2>1
  <2>5. QED BY <2>1, <2>3, <2>4
<1>10. PICK z5 : z5 = z4 \o <<"host">>
  OBVIOUS
<1>11. z5 \in Seq(X) /\ Len(z5) = n + 4 /\ z5[n + 4] = "host" /\ \A i \in 1 .. n + 3 : z5[i] = z4[i]
  <2>1. PICK m \in Nat : m = n + 3
    BY <1>3
  <2>2. z4 \in Seq(X) /\ m = Len(z4)
    BY <1>9, <2>1
  <2>3. /\ z5 \in Seq(X) /\ Len(z5) = m + 1 /\ z5[m + 1] = "host" /\ \A i \in 1 .. m : z5[i] = z4[i]
    BY <1>2, <1>10, <2>2, Longer
  <2>4. m + 1 = n + 4
    BY <1>3, <2>1
  <2>5. QED BY <2>1, <2>3, <2>4
<1>12. PICK z6 : z6 = z5 \o <<":">>
  OBVIOUS
<1>13. z6 \in Seq(X) /\ Len(z6) = n + 5 /\ z6[n + 5] = ":" /\ \A i \in 1 .. n + 4 : z6[i] = z5[i]
  <2>1. PICK m \in Nat : m = n + 4
    BY <1>3
  <2>2. z5 \in Seq(X) /\ m = Len(z5)
    BY <1>11, <2>1
  <2>3. /\ z6 \in Seq(X) /\ Len(z6) = m + 1 /\ z6[m + 1] = ":" /\ \A i \in 1 .. m : z6[i] = z5[i]
    BY <1>2, <1>12, <2>2, Longer
  <2>4. m + 1 = n + 5
    BY <1>3, <2>1
  <2>5. QED BY <2>1, <2>3, <2>4
<1>14. PICK z7 : z7 = z6 \o <<p>>
  OBVIOUS
<1>15. z7 \in Seq(X) /\ Len(z7) = n + 6 /\ z7[n + 6] = p /\ \A i \in 1 .. n + 5 : z7[i] = z6[i]
  <2>1. PICK m \in Nat : m = n + 5
    BY <1>3
  <2>2. z6 \in Seq(X) /\ m = Len(z6)
    BY <1>13, <2>1
  <2>3. /\ z7 \in Seq(X) /\ Len(z7) = m + 1 /\ z7[m + 1] = p /\ \A i \in 1 .. m : z7[i] = z6[i]
    BY <1>2, <1>14, <2>2, Longer
  <2>4. m + 1 = n + 6
    BY <1>3, <2>1
  <2>5. QED BY <2>1, <2>3, <2>4
<1>16. z7 = [i \in 1 .. n + 6 |-> z7[i]]
  BY <1>3, <1>15
<1>17. /\ z7 = [i \in 1 .. 7 |-> z7[i]]
       /\ z7[1] = "kc705_tof" /\ z7[2] = "=" /\ z7[3] = b /\ z7[4] = "@" /\ z7[5] = "host"
       /\ z7[6] = ":" /\ z7[7] = p
  <2>1. n = 1 /\ z1[1] = "kc705_tof"
    BY <1>1
  <2>2. z7[7] = p /\ \A i \in 1 .. 6 : z7[i] = z6[i]
    BY <1>15, <2>1
  <2>3. z6[6] = ":" /\ \A i \in 1 .. 5 : z6[i] = z5[i]
    BY <1>13, <2>1
  <2>4. z5[5] = "host" /\ \A i \in 1 .. 4 : z5[i] = z4[i]
    BY <1>11, <2>1
  <2>5. z4[4] = "@" /\ \A i \in 1 .. 3 : z4[i] = z3[i]
    BY <1>9, <2>1
  <2>6. z3[3] = b /\ \A i \in 1 .. 2 : z3[i] = z2[i]
    BY <1>7, <2>1
  <2>7. z2[2] = "=" /\ z2[1] = z1[1]
    BY <1>5, <2>1
  <2>8. QED BY <1>16, <2>1, <2>2, <2>3, <2>4, <2>5, <2>6, <2>7
<1>18. z7 = <<"kc705_tof", "=", b, "@", "host", ":", p>>
  BY <1>17
<1>19. z7 = z2 \o (<<b>> \o <<"@">> \o <<"host">> \o <<":">> \o <<p>>)
  <2>1. /\ <<b>> \in Seq(X) /\ <<"@">> \in Seq(X) /\ <<"host">> \in Seq(X) /\ <<":">> \in Seq(X)
        /\ <<p>> \in Seq(X) /\ z2 \in Seq(X)
    BY <1>2, <1>5
  <2>2. PICK y2 : y2 = <<b>> \o <<"@">>
    OBVIOUS
  <2>20. y2 \in Seq(X)
    BY <2>1, <2>2
  <2>21. z2 \o y2 = z4
    BY <1>6, <1>8, <2>1, Joins, <2>2
  <2>3. PICK y3 : y3 = y2 \o <<"host">>
    OBVIOUS
  <2>30. y3 \in Seq(X)
    BY <2>1, <2>3, <2>20
  <2>31. z2 \o y3 = z5
    BY <1>10, <2>1, <2>2, Joins, <2>20, <2>21, <2>3
  <2>4. PICK y4 : y4 = y3 \o <<":">>
    OBVIOUS
  <2>40. y4 \in Seq(X)
    BY <2>1, <2>4, <2>30
  <2>41. z2 \o y4 = z6
    BY <1>12, <2>1, <2>30, <2>31, <2>4, Joins
  <2>5. z2 \o (y4 \o <<p>>) = z7
    BY <1>14, <2>1, <2>40, <2>41, Joins
  <2>6. QED BY <2>2, <2>3, <2>4, <2>5
<1>20. QED BY <1>1, <1>4, <1>18, <1>19 DEF DeviceText

\* A device as daqd has it.
Parsed(d) == [board |-> d.board, host |-> d.host, port |-> d.port]
SpecText(d) == d.frontend \o <<"=">> \o BuildDeviceSpec(d)

\* What the backend has validated, it writes as a text that daqd reads as the same device.
LEMMA ValidIsGood ==
  ASSUME NEW d, ValidDevice(d), d.board \in Ints, d.port \in Ints
  PROVE  /\ SpecText(d) = DeviceText(ToString(d.board), ToString(d.port))
         /\ BeforeEqual(SpecText(d)) \in Frontends
         /\ ParseDeviceSpec(AfterEqual(SpecText(d))) = Parsed(d)
         /\ Parsed(d) # NoDevice
<1>1. d.frontend \in Frontends /\ d.board \in 0 .. 7 /\ d.host \in IPv4 /\ d.port \in 1 .. MaxPort
  <2>1. DOMAIN Schema = {"board", "host", "port"}
    BY DEF Schema
  <2>2. ValidValue(Schema.board, d.board) /\ ValidValue(Schema.host, d.host) /\ ValidValue(Schema.port, d.port)
    BY <2>1 DEF ValidDevice
  <2>3. QED BY <2>2 DEF ValidDevice, ValidValue, Schema
<1>2. PICK b, p, board, port : /\ b = ToString(board) /\ p = ToString(port)
                                /\ board = d.board /\ port = d.port
  OBVIOUS
<1>3. SpecText(d) = DeviceText(b, p)
  <2>1. d.frontend = <<"kc705_tof">> /\ d.host = <<"host">>
    BY <1>1 DEF Frontends, IPv4
  <2>2. SpecText(d) = <<"kc705_tof">> \o <<"=">> \o (<<b>> \o <<"@">> \o <<"host">> \o <<":">> \o <<p>>)
    BY <1>2, <2>1 DEF SpecText, BuildDeviceSpec, Numeral
  <2>3. <<"kc705_tof">> \o <<"=">> \o (<<b>> \o <<"@">> \o <<"host">> \o <<":">> \o <<p>>)
          = DeviceText(b, p)
    BY DeviceWords
  <2>4. QED BY <2>2, <2>3
<1>4. Parsed(d) = [board |-> board, host |-> <<"host">>, port |-> port]
  BY <1>1, <1>2 DEF Parsed, IPv4
<1>5. board \in Ints /\ board \in 0 .. 7 /\ port \in Ints /\ port \in 1 .. MaxPort
  BY <1>1, <1>2
<1>6. /\ BeforeEqual(DeviceText(b, p)) \in Frontends
      /\ ParseDeviceSpec(AfterEqual(DeviceText(b, p))) = [board |-> board, host |-> <<"host">>, port |-> port]
      /\ [board |-> board, host |-> <<"host">>, port |-> port] # NoDevice
  BY <1>2, <1>5, SpecReads
<1>7. QED BY <1>2, <1>3, <1>4, <1>6

\* A device that is written is the device daqd gets.
LEMMA GetsDevice ==
  ASSUME NEW T, NEW list, NEW rest, NEW above, NEW fine,
         NEW d, ValidDevice(d), d.board \in Ints, d.port \in Ints, <<"--device">> \in T, SpecText(d) \in T,
         NEW dir, NEW devices, NEW comment, NEW partial, NEW number,
         Gets(T, list, rest, Config(dir, devices, comment, partial, number), above, fine)
  PROVE  Gets(T, list \o <<<<"--device">>, SpecText(d)>>, rest,
              Config(dir, Append(devices, Parsed(d)), comment, partial, number), above, fine)
<1> DEFINE want == Config(dir, Append(devices, Parsed(d)), comment, partial, number)
<1>1. PICK s : Reaches(T, list, s, rest) /\ Shape(s, Config(dir, devices, comment, partial, number), above, fine)
  BY DEF Gets
<1>2. PICK text : text = SpecText(d)
  OBVIOUS
<1>3. Reaches(T, list \o <<<<"--device">>, text>>, TakeOption(s, <<"--device", text>>), rest)
  <2>1. text # <<>>
    BY <1>2, ValidIsGood DEF DeviceText
  <2>2. QED BY <1>1, <1>2, <2>1, ReachPair DEF Valued
<1>4. Shape(TakeOption(s, <<"--device", text>>), want, above, fine)
  <2>1. CASE s.outcome = "ok"
    <3>1. PICK device : device = Parsed(d)
      OBVIOUS
    <3>2. TakeOption(s, <<"--device", text>>) = [s EXCEPT !.cfg.devices = Append(@, device)]
      <4>1. BeforeEqual(text) \in Frontends /\ ParseDeviceSpec(AfterEqual(text)) = device /\ device # NoDevice
        BY <1>2, <3>1, ValidIsGood
      <4>2. QED BY <2>1, <4>1, TakeDevice
    <3>3. Shape([s EXCEPT !.cfg.devices = Append(@, device)],
                Config(dir, Append(devices, device), comment, partial, number), above, fine)
      <4>1. PICK t : t = [s EXCEPT !.cfg.devices = Append(@, device)]
        OBVIOUS
      <4>2. t.outcome = "ok" /\ t = [outcome |-> t.outcome, cfg |-> t.cfg]
        BY <1>1, <2>1, <4>1 DEF Shape
      <4>3. above => s.cfg = Config(dir, devices, comment, partial, number)
        BY <1>1, <2>1 DEF Shape
      <4>4. t.cfg = [s.cfg EXCEPT !.devices = Append(s.cfg.devices, device)]
        BY <1>1, <4>1 DEF Shape
      <4>5. PICK more : more = Append(s.cfg.devices, device)
        OBVIOUS
      <4>6. above => more = Append(devices, device)
        BY <4>3, <4>5 DEF Config
      <4>7. above => t.cfg = Config(dir, more, comment, partial, number)
        <5>1. ASSUME above PROVE t.cfg = Config(dir, more, comment, partial, number)
          <6>1. s.cfg = Config(dir, devices, comment, partial, number)
            BY <4>3, <5>1
          <6>2. t.cfg = [s.cfg EXCEPT !.devices = more]
            BY <4>4, <4>5
          <6>3. QED BY <6>1, <6>2 DEF Config
        <5>2. QED BY <5>1
      <4>8. QED BY <4>1, <4>2, <4>6, <4>7 DEF Shape
    <3>4. QED BY <3>1, <3>2, <3>3
  <2>2. CASE s.outcome # "ok"
    BY <1>1, <2>2, TakeDone DEF Shape
  <2>3. QED BY <2>1, <2>2
<1>5. QED BY <1>2, <1>3, <1>4 DEF Gets

-----------------------------------------------------------------------------
(* The devices of a form.                                                    *)

DevicePairs(devs) == FlattenSeq([i \in DOMAIN devs |-> <<<<"--device">>, SpecText(devs[i])>>])
AllParsed(devs)   == [i \in DOMAIN devs |-> Parsed(devs[i])]

\* Devices that the backend has validated, which arguments of T name.
Valid(D, T) ==
  \A d \in D : ValidDevice(d) /\ d.board \in Ints /\ d.port \in Ints /\ SpecText(d) \in T

\* No device.
LEMMA PairsNone == DevicePairs(<<>>) = <<>> /\ AllParsed(<<>>) = <<>>
<1>1. [i \in DOMAIN <<>> |-> <<<<"--device">>, SpecText(<<>>[i])>>] = <<>>
  OBVIOUS
<1>2. [i \in DOMAIN <<>> |-> Parsed(<<>>[i])] = <<>>
  OBVIOUS
<1>3. QED BY <1>1, <1>2, FlattenMore DEF DevicePairs, AllParsed

\* One device more.
LEMMA PairsOn ==
  ASSUME NEW T, NEW D, Valid(D, T), <<"--device">> \in T, NEW devs \in Seq(D), NEW d \in D
  PROVE  /\ DevicePairs(devs) \in Seq(T)
         /\ DevicePairs(Append(devs, d)) = DevicePairs(devs) \o <<<<"--device">>, SpecText(d)>>
         /\ AllParsed(Append(devs, d)) = Append(AllParsed(devs), Parsed(d))
<1> DEFINE Pair(e) == <<<<"--device">>, SpecText(e)>>
           Pairs(seq) == [i \in DOMAIN seq |-> Pair(seq[i])]
           n == Len(devs)
<1>1. n \in Nat /\ DOMAIN devs = 1 .. n /\ \A i \in 1 .. n : devs[i] \in D
  OBVIOUS
<1>2. \A e \in D : Pair(e) \in Seq(T)
  BY DEF Valid
<1>3. PICK more \in Seq(D) : more = Append(devs, d)
  <2>1. Append(devs, d) \in Seq(D)
    OBVIOUS
  <2>2. QED BY <2>1
<1>4. DOMAIN more = 1 .. n + 1 /\ more[n + 1] = d /\ \A i \in 1 .. n : more[i] = devs[i]
  BY <1>3
<1>5. \A m \in Nat : \A j \in 1 .. m + 1 : j = m + 1 \/ j \in 1 .. m
  OBVIOUS
<1> HIDE DEF Pair, n
<1>6. Pairs(devs) \in Seq(Seq(T)) /\ Len(Pairs(devs)) = n
  <2>1. Pairs(devs) = [i \in 1 .. n |-> Pair(devs[i])]
    BY <1>1
  <2>2. QED BY <1>1, <1>2, <2>1
<1>7. PICK seq \in Seq(Seq(T)), last \in Seq(T) :
        /\ seq = Pairs(devs) /\ last = Pair(d) /\ Len(seq) = n /\ \A i \in 1 .. n : seq[i] = Pair(devs[i])
  <2>1. \A i \in 1 .. n : Pairs(devs)[i] = Pair(devs[i])
    BY <1>1
  <2> HIDE DEF Pairs
  <2>2. QED BY <1>2, <1>6, <2>1
<1>8. Pairs(more) = Append(seq, last)
  <2>1. Pairs(more) = [i \in 1 .. n + 1 |-> Pair(more[i])]
    BY <1>4
  <2>2. /\ Append(seq, last) = [i \in 1 .. n + 1 |-> Append(seq, last)[i]]
        /\ \A i \in 1 .. n : Append(seq, last)[i] = seq[i]
        /\ Append(seq, last)[n + 1] = last
    BY <1>1, <1>7
  <2>3. ASSUME NEW i \in 1 .. n + 1 PROVE Append(seq, last)[i] = Pair(more[i])
    <3>1. CASE i = n + 1
      BY <1>4, <1>7, <2>2, <3>1
    <3>2. CASE i \in 1 .. n
      BY <1>4, <1>7, <2>2, <3>2
    <3>3. QED BY <1>1, <1>5, <3>1, <3>2
  <2> HIDE DEF Pairs
  <2>4. QED BY <2>1, <2>2, <2>3
<1>9. FlattenSeq(Append(seq, last)) = FlattenSeq(seq) \o last /\ FlattenSeq(seq) \in Seq(T)
  BY ONLY <1>7, FlattenMore
<1>10. /\ DevicePairs(devs) \in Seq(T) /\ DevicePairs(more) = DevicePairs(devs) \o Pair(d)
  <2>1. DevicePairs(devs) = FlattenSeq(Pairs(devs)) /\ DevicePairs(more) = FlattenSeq(Pairs(more))
    BY DEF DevicePairs, Pair
  <2> HIDE DEF Pairs
  <2>2. QED BY <1>7, <1>8, <1>9, <2>1
<1>11. AllParsed(more) = Append(AllParsed(devs), Parsed(d))
  <2>1. PICK R : Parsed(d) \in R /\ \A i \in 1 .. n : Parsed(devs[i]) \in R
    <3>1. PICK x : x = Parsed(d)
      OBVIOUS
    <3>2. PICK Q : Q = {Parsed(devs[j]) : j \in 1 .. n}
      OBVIOUS
    <3>3. \A i \in 1 .. n : Parsed(devs[i]) \in Q
      BY <3>2
    <3>4. PICK R : R = {x} \union Q
      OBVIOUS
    <3>5. x \in R /\ \A i \in 1 .. n : Parsed(devs[i]) \in R
      BY <3>3, <3>4
    <3>6. QED BY <3>1, <3>5
  <2>2. AllParsed(devs) = [i \in 1 .. n |-> Parsed(devs[i])]
    BY <1>1 DEF AllParsed
  <2>3. PICK all \in Seq(R) : all = AllParsed(devs) /\ Len(all) = n /\ \A i \in 1 .. n : all[i] = Parsed(devs[i])
    <3>1. PICK all : all = [i \in 1 .. n |-> Parsed(devs[i])]
      OBVIOUS
    <3>2. n \in Nat /\ all \in [1 .. n -> R] /\ \A i \in 1 .. n : all[i] = Parsed(devs[i])
      BY <1>1, <2>1, <3>1
    <3>3. all \in Seq(R) /\ Len(all) = n
      BY ONLY <3>2
    <3>4. QED BY <2>2, <3>1, <3>2, <3>3
  <2>4. PICK x : x = Parsed(d)
    OBVIOUS
  <2>5. /\ Append(all, x) = [i \in 1 .. n + 1 |-> Append(all, x)[i]]
        /\ \A i \in 1 .. n : Append(all, x)[i] = all[i]
        /\ Append(all, x)[n + 1] = x
    <3>1. x \in R
      BY <2>1, <2>4
    <3>2. Append(all, x) \in Seq(R) /\ Len(Append(all, x)) = n + 1
      BY <1>1, <2>3, <3>1
    <3>3. Append(all, x) = [i \in 1 .. n + 1 |-> Append(all, x)[i]]
      <4>1. PICK y, m : y = Append(all, x) /\ m = n + 1
        OBVIOUS
      <4>2. y \in Seq(R) /\ Len(y) = m
        BY <3>2, <4>1
      <4>3. y = [i \in 1 .. m |-> y[i]]
        BY <4>2
      <4>4. QED BY <4>1, <4>3
    <3>4. QED BY <1>1, <2>3, <3>1, <3>3
  <2>6. AllParsed(more) = [i \in 1 .. n + 1 |-> Parsed(more[i])]
    BY <1>4 DEF AllParsed
  <2>7. ASSUME NEW i \in 1 .. n + 1 PROVE Append(all, x)[i] = Parsed(more[i])
    <3>1. CASE i = n + 1
      BY <1>4, <2>4, <2>5, <3>1
    <3>2. CASE i \in 1 .. n
      BY <1>4, <2>3, <2>5, <3>2
    <3>3. QED BY <1>1, <1>5, <3>1, <3>2
  <2>8. QED BY <2>3, <2>4, <2>5, <2>6, <2>7
<1>12. QED BY <1>3, <1>10, <1>11 DEF Pair

\* All devices, in their order.
LEMMA GetsDevices ==
  ASSUME NEW T, NEW D, Valid(D, T), <<"--device">> \in T, NEW all \in Seq(D),
         NEW list, NEW rest, NEW above, NEW fine, NEW dir, NEW comment, NEW partial, NEW number,
         Gets(T, list, rest, Config(dir, <<>>, comment, partial, number), above, fine)
  PROVE  Gets(T, list \o DevicePairs(all), rest,
              Config(dir, AllParsed(all), comment, partial, number), above, fine)
<1> DEFINE Right(devs) == Gets(T, list \o DevicePairs(devs), rest,
                               Config(dir, AllParsed(devs), comment, partial, number), above, fine)
           P == {devs \in Seq(D) : Right(devs)}
<1>1. list \in Seq(T)
  BY DEF Gets, Reaches
<1>2. <<>> \in P
  <2>1. list \o <<>> = list
    BY <1>1
  <2>2. Right(<<>>)
    BY <2>1, PairsNone
  <2>3. <<>> \in Seq(D)
    OBVIOUS
  <2>4. QED BY <2>2, <2>3
<1>3. ASSUME NEW devs \in Seq(D), NEW d \in D, devs \in P PROVE Append(devs, d) \in P
  <2>1. PICK pairs, parsed : pairs \in Seq(T) /\ pairs = DevicePairs(devs) /\ parsed = AllParsed(devs)
    BY PairsOn
  <2>2. PICK text \in T : text = SpecText(d)
    BY DEF Valid
  <2>3. Gets(T, (list \o pairs) \o <<<<"--device">>, text>>, rest,
             Config(dir, Append(parsed, Parsed(d)), comment, partial, number), above, fine)
    <3>1. Gets(T, list \o pairs, rest, Config(dir, parsed, comment, partial, number), above, fine)
      BY <1>3, <2>1
    <3>2. ValidDevice(d) /\ d.board \in Ints /\ d.port \in Ints /\ SpecText(d) \in T
      BY DEF Valid
    <3>3. QED BY <2>2, <3>1, <3>2, GetsDevice
  <2>4. (list \o pairs) \o <<<<"--device">>, text>> = list \o (pairs \o <<<<"--device">>, text>>)
    <3>1. PICK last \in Seq(T) : last = <<<<"--device">>, text>>
      <4>1. PICK opt \in T : opt = <<"--device">>
        OBVIOUS
      <4>2. <<opt, text>> \in Seq(T)
        OBVIOUS
      <4>3. QED BY <4>1, <4>2
    <3>2. (list \o pairs) \o last = list \o (pairs \o last)
      BY <1>1, Joins
    <3>3. QED BY <3>1, <3>2
  <2>5. /\ DevicePairs(Append(devs, d)) = pairs \o <<<<"--device">>, text>>
        /\ AllParsed(Append(devs, d)) = Append(parsed, Parsed(d))
    <3>1. /\ DevicePairs(Append(devs, d)) = DevicePairs(devs) \o <<<<"--device">>, SpecText(d)>>
          /\ AllParsed(Append(devs, d)) = Append(AllParsed(devs), Parsed(d))
      BY ONLY devs \in Seq(D), d \in D, Valid(D, T), <<"--device">> \in T, PairsOn
    <3>2. QED BY <2>1, <2>2, <3>1
  <2>6. Right(Append(devs, d))
    BY <2>3, <2>4, <2>5
  <2>7. Append(devs, d) \in Seq(D)
    OBVIOUS
  <2>8. QED BY <2>6, <2>7
<1> HIDE DEF P
<1>4. Seq(D) \subseteq P
  BY ONLY <1>2, <1>3, Grow
<1>5. QED BY <1>4 DEF P

\* Without an output directory its option takes "--device" for it.
LEMMA GetsLost ==
  ASSUME NEW T, NEW D, Valid(D, T), <<"--device">> \in T, <<"--output-dir">> \in T, <<>> \in T,
         NEW all \in Seq(D), all # <<>>
  PROVE  \E dir, devices, rest :
           /\ rest # <<>>
           /\ Gets(T, <<<<"--output-dir">>, <<>>>> \o DevicePairs(all), rest,
                   Config(dir, devices, <<>>, FALSE, [o \in Options |-> Default(o)]), FALSE, FALSE)
<1> DEFINE numbers == [o \in Options |-> Default(o)]
           Right(list) == \E dir, devices, rest :
                            /\ rest # <<>>
                            /\ Gets(T, list, rest, Config(dir, devices, <<>>, FALSE, numbers), FALSE, FALSE)
           P == {devs \in Seq(D) : devs = <<>> \/ Right(<<<<"--output-dir">>, <<>>>> \o DevicePairs(devs))}
<1>1. PICK opt \in T, dev \in T, none \in T : opt = <<"--output-dir">> /\ dev = <<"--device">> /\ none = <<>>
  OBVIOUS
<1>2. PICK base \in Seq(T) : base = <<opt, none>>
  <2>1. <<opt, none>> \in Seq(T)
    OBVIOUS
  <2>2. QED BY <2>1
<1>3. <<>> \in P
  OBVIOUS
<1> HIDE DEF numbers
<1>4. ASSUME NEW devs \in Seq(D), NEW d \in D, devs \in P PROVE Append(devs, d) \in P
  <2>1. PICK text \in T : text = SpecText(d)
    BY DEF Valid
  <2>2. PICK pairs \in Seq(T), last \in Seq(T) : pairs = DevicePairs(devs) /\ last = <<dev, text>>
    <3>1. <<dev, text>> \in Seq(T)
      OBVIOUS
    <3>2. QED BY <3>1, PairsOn
  <2>3. DevicePairs(Append(devs, d)) = pairs \o last
    BY <1>1, <2>1, <2>2, PairsOn
  <2>4. base \o (pairs \o last) = (base \o pairs) \o last
    BY Joins
  <2>5. ValidDevice(d) /\ d.board \in Ints /\ d.port \in Ints /\ SpecText(d) \in T
    BY DEF Valid
  <2>6. CASE devs = <<>>
    <3>1. PICK two \in Seq(T) : two = <<opt, dev>>
      <4>1. <<opt, dev>> \in Seq(T)
        OBVIOUS
      <4>2. QED BY <4>1
    <3>2. Gets(T, two, <<>>, Config(dev, <<>>, <<>>, FALSE, numbers), FALSE, FALSE)
      <4>1. <<>> \o two = two
        OBVIOUS
      <4>2. Gets(T, <<>>, <<>>, Config(<<>>, <<>>, <<>>, FALSE, numbers), FALSE, FALSE)
        BY GetsNone DEF numbers
      <4>3. PICK s : Reaches(T, <<>>, s, <<>>) /\ Shape(s, Config(<<>>, <<>>, <<>>, FALSE, numbers), FALSE, FALSE)
        BY <4>2 DEF Gets
      <4>4. Reaches(T, <<>> \o <<opt, dev>>, TakeOption(s, <<"--output-dir", dev>>), <<>>)
        BY <1>1, <4>3, ReachPair DEF Valued
      <4>5. Shape(TakeOption(s, <<"--output-dir", dev>>), Config(dev, <<>>, <<>>, FALSE, numbers), FALSE, FALSE)
        <5>1. CASE s.outcome = "ok"
          <6>1. TakeOption(s, <<"--output-dir", dev>>) = [s EXCEPT !.cfg.output_dir = dev]
            BY <5>1, TakeTexts
          <6>2. PICK t : t = [s EXCEPT !.cfg.output_dir = dev]
            OBVIOUS
          <6>3. t.outcome = "ok" /\ t = [outcome |-> t.outcome, cfg |-> t.cfg]
            BY <4>3, <5>1, <6>2 DEF Shape
          <6>4. QED BY <6>1, <6>2, <6>3 DEF Shape
        <5>2. CASE s.outcome # "ok"
          BY <4>3, <5>2, TakeDone DEF Shape
        <5>3. QED BY <5>1, <5>2
      <4>6. QED BY <3>1, <4>1, <4>4, <4>5 DEF Gets
    <3>3. PICK three \in Seq(T) : three = Append(base, dev)
      <4>1. Append(base, dev) \in Seq(T)
        OBVIOUS
      <4>2. QED BY <4>1
    <3>4. Arriving(three) = Arriving(two)
      <4>1. PICK one \in Seq(T) : one = <<opt>>
        <5>1. <<opt>> \in Seq(T)
          OBVIOUS
        <5>2. QED BY <5>1
      <4>2. base = Append(one, none) /\ two = Append(one, dev)
        BY <1>2, <3>1, <4>1
      <4>3. Arriving(base) = Arriving(one)
        BY <1>1, <4>2, ArrivingOn
      <4>4. dev # <<>>
        BY <1>1
      <4>5. Arriving(three) = Append(Arriving(base), dev)
        BY <3>3, <4>4, ArrivingOn
      <4>6. Arriving(two) = Append(Arriving(one), dev)
        BY <4>2, <4>4, ArrivingOn
      <4>7. QED BY <4>3, <4>5, <4>6
    <3>5. PICK s : Reaches(T, two, s, <<>>) /\ Shape(s, Config(dev, <<>>, <<>>, FALSE, numbers), FALSE, FALSE)
      BY <3>2 DEF Gets
    <3>6. Reaches(T, three, s, <<>>)
      BY <3>4, <3>5 DEF Reaches
    <3>7. text # <<>> /\ ~Dashed(text, Valued \union Flags)
      <4>1. PICK b, p : text = DeviceText(b, p)
        BY <2>1, <2>5, ValidIsGood
      <4>2. text # <<>> /\ text[1] = "kc705_tof" /\ 2 \in DOMAIN text
        BY <4>1 DEF DeviceText
      <4>3. "kc705_tof" \notin {"--", "-?"} \union (Valued \union Flags)
        BY Six DEF Valued, Flags, Partial
      <4>4. text \notin {Numeral(n) : n \in Ints \ Nat}
        BY <4>2 DEF Numeral
      <4>5. QED BY <4>2, <4>3, <4>4 DEF Dashed
    <3>8. Reaches(T, Append(three, text), s, Append(<<>>, text))
      BY <3>6, <3>7, ReachRest
    <3>9. PICK rest : rest = Append(<<>>, text) /\ rest # <<>>
      <4>1. Append(<<>>, text) = <<text>> /\ <<text>> # <<>>
        OBVIOUS
      <4>2. QED BY <4>1
    <3>10. Gets(T, Append(three, text), rest, Config(dev, <<>>, <<>>, FALSE, numbers), FALSE, FALSE)
      BY <3>5, <3>8, <3>9 DEF Gets
    <3>11. Append(three, text) = base \o (pairs \o last)
      <4>1. pairs = <<>>
        BY <2>2, <2>6, PairsNone
      <4>2. base \o pairs = base
        BY <4>1
      <4>3. base \o last = Append(Append(base, dev), text)
        BY <2>2
      <4>4. QED BY <2>4, <3>3, <4>2, <4>3
    <3>12. Right(base \o DevicePairs(Append(devs, d)))
      BY <2>3, <3>9, <3>10, <3>11
    <3>13. Append(devs, d) \in Seq(D)
      OBVIOUS
    <3>14. QED BY <1>1, <1>2, <3>12, <3>13
  <2>7. CASE devs # <<>>
    <3>1. PICK dir, devices, rest :
            /\ rest # <<>>
            /\ Gets(T, base \o pairs, rest, Config(dir, devices, <<>>, FALSE, numbers), FALSE, FALSE)
      <4>1. Right(base \o pairs)
        BY <1>1, <1>2, <1>4, <2>2, <2>7
      <4>2. QED BY <4>1
    <3>2. Gets(T, (base \o pairs) \o last, rest, Config(dir, Append(devices, Parsed(d)), <<>>, FALSE, numbers), FALSE, FALSE)
      BY <1>1, <2>1, <2>2, <2>5, <3>1, GetsDevice
    <3>3. Right(base \o DevicePairs(Append(devs, d)))
      BY <2>3, <2>4, <3>1, <3>2
    <3>4. Append(devs, d) \in Seq(D)
      OBVIOUS
    <3>5. QED BY <1>1, <1>2, <3>3, <3>4
  <2>8. QED BY <2>6, <2>7
<1> HIDE DEF P
<1>5. Seq(D) \subseteq P
  BY ONLY <1>3, <1>4, Grow
<1>6. QED BY <1>5 DEF P, numbers

-----------------------------------------------------------------------------
(* The numbers of a form; asked has those that are sent.                     *)

NumberPair(asked, o) == IF asked[o] = <<>> THEN <<>> ELSE <<<<o>>, Numeral(asked[o][1])>>
NumberPairs(asked)   == FlattenSeq([i \in DOMAIN Numeric |-> NumberPair(asked, Numeric[i])])
WantedNumber(asked)  == [o \in Options |-> IF asked[o] = <<>> THEN Default(o) ELSE asked[o][1]]

\* All numbers, in the order in which the backend writes them.
LEMMA GetsNumbers ==
  ASSUME NEW T, \A o \in Options : <<o>> \in T, \A n \in Ints : Numeral(n) \in T,
         NEW asked \in [Options -> Maybe(Ints)],
         NEW list, NEW rest, NEW above, NEW fine, NEW dir, NEW devices, NEW comment, NEW partial,
         above => \A o \in Options : WantedNumber(asked)[o] > MaxU32 - ULongs,
         fine => \A o \in Options : asked[o] # <<>> => asked[o][1] \in 1 .. MaxU32,
         Gets(T, list, rest, Config(dir, devices, comment, partial, [o \in Options |-> Default(o)]), above, fine)
  PROVE  /\ NumberPairs(asked) \in Seq(T)
         /\ Gets(T, list \o NumberPairs(asked), rest,
                 Config(dir, devices, comment, partial, WantedNumber(asked)), above, fine)
<1> DEFINE want == WantedNumber(asked)
           First(k) == FlattenSeq([i \in 1 .. k |-> NumberPair(asked, Numeric[i])])
           So(k) == [o \in Options |-> IF \E i \in 1 .. k : Numeric[i] = o THEN want[o] ELSE Default(o)]
           Right(k) == /\ First(k) \in Seq(T)
                       /\ Gets(T, list \o First(k), rest, Config(dir, devices, comment, partial, So(k)), above, fine)
           S == {k \in 0 .. 6 : Right(k)}
<1>0. \A m \in 0 .. 5 : m + 1 \in 0 .. 6 /\ \A j \in 1 .. m + 1 : j = m + 1 \/ j \in 1 .. m
  OBVIOUS
<1>1. DOMAIN Numeric = 1 .. 6 /\ \A i \in 1 .. 6 : Numeric[i] \in Options
  BY DEF Options, Range, Numeric
<1>2. list \in Seq(T)
  BY DEF Gets, Reaches
<1>3. \A o \in Options : asked[o] # <<>> => asked[o][1] \in Ints /\ asked[o] = <<asked[o][1]>>
  BY DEF Maybe
<1>4. \A o \in Options : NumberPair(asked, o) \in Seq(T)
  <2>1. ASSUME NEW o \in Options, asked[o] # <<>> PROVE <<<<o>>, Numeral(asked[o][1])>> \in Seq(T)
    <3>1. PICK opt \in T, text \in T : opt = <<o>> /\ text = Numeral(asked[o][1])
      BY <1>3, <2>1
    <3>2. <<opt, text>> \in Seq(T)
      OBVIOUS
    <3>3. QED BY <3>1, <3>2
  <2>2. <<>> \in Seq(T)
    OBVIOUS
  <2>3. QED BY <2>1, <2>2 DEF NumberPair
<1>5. 0 \in S
  <2>1. [i \in 1 .. 0 |-> NumberPair(asked, Numeric[i])] = <<>>
    OBVIOUS
  <2>2. First(0) = <<>>
    BY <2>1, FlattenMore
  <2>3. So(0) = [o \in Options |-> Default(o)]
    OBVIOUS
  <2>4. list \o <<>> = list /\ <<>> \in Seq(T)
    BY <1>2
  <2> HIDE DEF First, So
  <2>5. Right(0)
    BY <2>2, <2>3, <2>4
  <2>6. QED BY <2>5
<1>6. ASSUME NEW k \in 0 .. 5, k \in S PROVE k + 1 \in S
  <2>1. PICK o \in Options : o = Numeric[k + 1]
    BY <1>1
  <2>2. PICK last \in Seq(T) : last = NumberPair(asked, o)
    BY <1>4
  <2>3. PICK first, so : first \in Seq(T) /\ first = First(k) /\ so = So(k)
    BY <1>6
  <2>4. First(k + 1) = first \o last
    <3>1. PICK seq \in Seq(Seq(T)) : seq = [i \in 1 .. k |-> NumberPair(asked, Numeric[i])] /\ Len(seq) = k
      <4>1. \A i \in 1 .. k : NumberPair(asked, Numeric[i]) \in Seq(T)
        BY <1>1, <1>4
      <4>2. PICK seq : seq = [i \in 1 .. k |-> NumberPair(asked, Numeric[i])]
        OBVIOUS
      <4>3. k \in Nat /\ seq \in [1 .. k -> Seq(T)]
        BY <4>1, <4>2
      <4>4. seq \in Seq(Seq(T)) /\ Len(seq) = k
        BY <4>3
      <4>5. QED BY <4>2, <4>4
    <3>2. [i \in 1 .. k + 1 |-> NumberPair(asked, Numeric[i])] = Append(seq, last)
      <4>1. /\ Append(seq, last) = [i \in 1 .. k + 1 |-> Append(seq, last)[i]]
            /\ \A i \in 1 .. k : Append(seq, last)[i] = seq[i]
            /\ Append(seq, last)[k + 1] = last
        BY <3>1
      <4>2. ASSUME NEW i \in 1 .. k + 1 PROVE Append(seq, last)[i] = NumberPair(asked, Numeric[i])
        <5>1. CASE i = k + 1
          BY <2>1, <2>2, <4>1, <5>1
        <5>2. CASE i \in 1 .. k
          BY <3>1, <4>1, <5>2
        <5>3. QED BY <1>0, <5>1, <5>2
      <4>3. QED BY <4>1, <4>2
    <3>3. FlattenSeq(Append(seq, last)) = FlattenSeq(seq) \o last
      BY ONLY seq \in Seq(Seq(T)), last \in Seq(T), FlattenMore
    <3>4. QED BY <2>3, <3>1, <3>2, <3>3
  <2>5. list \o (first \o last) = (list \o first) \o last
    BY <1>2, Joins
  <2>6. Gets(T, list \o first, rest, Config(dir, devices, comment, partial, so), above, fine)
    BY <1>6, <2>3
  <2>7. \A p \in Options : (\E i \in 1 .. k + 1 : Numeric[i] = p) <=> (p = o \/ \E i \in 1 .. k : Numeric[i] = p)
    BY <2>1
  <2>8. CASE asked[o] = <<>>
    <3>1. last = <<>> /\ want[o] = Default(o)
      BY <2>2, <2>8 DEF NumberPair, WantedNumber
    <3>2. So(k + 1) = so
      BY <2>3, <2>7, <3>1
    <3>3. first \o last = first
      BY <3>1
    <3> HIDE DEF First, So
    <3>4. Right(k + 1)
      BY <2>3, <2>4, <2>6, <3>2, <3>3
    <3>5. QED BY <1>0, <3>4
  <2>9. CASE asked[o] # <<>>
    <3>1. PICK n \in Ints : n = asked[o][1] /\ want[o] = n
      BY <1>3, <2>9 DEF WantedNumber
    <3>2. last = <<<<o>>, Numeral(n)>>
      BY <2>2, <2>9, <3>1 DEF NumberPair
    <3>3. (above => n > MaxU32 - ULongs) /\ (fine => n \in 1 .. MaxU32)
      BY <2>9, <3>1
    <3>4. Gets(T, (list \o first) \o <<<<o>>, Numeral(n)>>, rest,
               Config(dir, devices, comment, partial, [so EXCEPT ![o] = n]), above, fine)
      BY <2>6, <3>3, GetsNumber
    <3>5. So(k + 1) = [so EXCEPT ![o] = n]
      BY <2>3, <2>7, <3>1
    <3>6. first \o last \in Seq(T)
      BY <2>3
    <3> HIDE DEF First, So
    <3>7. Right(k + 1)
      BY <2>4, <2>5, <3>2, <3>4, <3>5, <3>6
    <3>8. QED BY <1>0, <3>7
  <2>10. QED BY <2>8, <2>9
<1> HIDE DEF S
<1>7. 6 \in S
  <2>1. 0 .. 6 \subseteq S
    <3>1. \A k \in 0 .. 6 - 1 : k \in S => k + 1 \in S
      BY <1>6
    <3>2. QED BY ONLY <1>5, <3>1, Climb
  <2>2. QED BY <2>1
<1>8. Right(6)
  BY <1>7 DEF S
<1>9. First(6) = NumberPairs(asked)
  BY <1>1 DEF NumberPairs
<1>10. So(6) = want
  <2>1. \A o \in Options : \E i \in 1 .. 6 : Numeric[i] = o
    BY <1>1 DEF Options, Range
  <2>2. want = [o \in Options |-> want[o]]
    BY DEF WantedNumber
  <2>3. QED BY <2>1, <2>2
<1>11. QED BY <1>8, <1>9, <1>10

-----------------------------------------------------------------------------
(* The form.                                                                 *)

\* Forms and configurations of a set of texts.
AnyDevice(texts) == [frontend : texts, board : Ints, host : texts, port : Ints]
AnyForm(texts) ==
  [output_dir : texts, devices : Seq(AnyDevice(texts)), partial : Maybe(BOOLEAN),
   number : [Options -> Maybe(Ints)], comment : Maybe(texts)]
AnyConfig(texts) ==
  [output_dir : texts, number : Maybe(Ints), comment : Maybe(texts), partial : BOOLEAN]

Holds(T) ==
  <<>> \in T /\ (\A o \in Valued \union Flags : <<o>> \in T) /\ (\A n \in Ints : Numeral(n) \in T)

\* What follows the devices.
LEMMA GetsTail ==
  ASSUME NEW T, Holds(T), NEW form, NEW config,
         NEW asked \in [Options -> Maybe(Ints)], \A o \in Options : asked[o] = Number(form, config, o),
         IsPartial(form, config) \in BOOLEAN, Comment(form, config) \in T,
         NEW list, NEW rest, NEW above, NEW fine, NEW dir, NEW devices,
         above => \A o \in Options : WantedNumber(asked)[o] > MaxU32 - ULongs,
         fine => \A o \in Options : asked[o] # <<>> => asked[o][1] \in 1 .. MaxU32,
         Gets(T, list, rest, Config(dir, devices, <<>>, FALSE, [o \in Options |-> Default(o)]), above, fine)
  PROVE  /\ NumberArgs(form, config) \in Seq(T) /\ PartialArgs(form, config) \in Seq(T)
         /\ CommentArgs(form, config) \in Seq(T)
         /\ Gets(T, list \o NumberArgs(form, config) \o PartialArgs(form, config) \o CommentArgs(form, config),
                 rest,
                 Config(dir, devices, Comment(form, config), IsPartial(form, config), WantedNumber(asked)),
                 above, fine)
<1>1. NumberArgs(form, config) = NumberPairs(asked)
  <2>1. \A i \in DOMAIN Numeric : Numeric[i] \in Options
    BY DEF Options, Range
  <2>2. [i \in DOMAIN Numeric |-> NumberPair(asked, Numeric[i])]
          = [i \in DOMAIN Numeric |-> LET n == Number(form, config, Numeric[i])
                                      IN IF n = <<>> THEN <<>> ELSE <<<<Numeric[i]>>, Numeral(n[1])>>]
    BY <2>1 DEF NumberPair
  <2>3. QED BY <2>2 DEF NumberArgs, NumberPairs
<1>2. PICK numbers, comment : numbers = WantedNumber(asked) /\ comment = Comment(form, config) /\ comment \in T
  OBVIOUS
<1>3. PICK l1 : NumberPairs(asked) \in Seq(T) /\ l1 = list \o NumberPairs(asked) /\ Gets(T, l1, rest, Config(dir, devices, <<>>, FALSE, numbers), above, fine)
  <2>1. (\A o \in Options : <<o>> \in T) /\ (\A n \in Ints : Numeral(n) \in T)
    BY DEF Holds, Valued
  <2>2. QED BY <1>2, <2>1, GetsNumbers
<1>4. \A l, r, x : Gets(T, l, r, x, above, fine) => l \in Seq(T)
  BY DEF Gets, Reaches
<1>5. PICK partial \in BOOLEAN : partial = IsPartial(form, config)
  OBVIOUS
<1>6. PICK l2 : /\ l2 = l1 \o PartialArgs(form, config)
                /\ Gets(T, l2, rest, Config(dir, devices, <<>>, partial, numbers), above, fine)
  <2>1. CASE partial = FALSE
    <3>1. PartialArgs(form, config) = <<>>
      BY <1>5, <2>1 DEF PartialArgs
    <3>2. l1 \o <<>> = l1
      BY <1>3, <1>4
    <3>3. QED BY <1>3, <2>1, <3>1, <3>2
  <2>2. CASE partial = TRUE
    <3>1. PartialArgs(form, config) = <<<<Partial>>>>
      BY <1>5, <2>2 DEF PartialArgs
    <3>2. <<Partial>> \in T
      BY DEF Holds, Flags
    <3>3. Gets(T, l1 \o <<<<Partial>>>>, rest, Config(dir, devices, <<>>, TRUE, numbers), above, fine)
      BY <1>3, <3>2, GetsPartial
    <3>4. QED BY <2>2, <3>1, <3>3
  <2>3. QED BY <2>1, <2>2
<1>7. PICK l3 : /\ l3 = l2 \o CommentArgs(form, config)
                /\ Gets(T, l3, rest, Config(dir, devices, comment, partial, numbers), above, fine)
  <2>1. CASE comment = <<>>
    <3>1. CommentArgs(form, config) = <<>>
      BY <1>2, <2>1 DEF CommentArgs
    <3>2. l2 \o <<>> = l2
      BY <1>4, <1>6
    <3>3. QED BY <1>6, <2>1, <3>1, <3>2
  <2>2. CASE comment # <<>>
    <3>1. CommentArgs(form, config) = <<<<"--comment">>, comment>>
      BY <1>2, <2>2 DEF CommentArgs
    <3>2. <<"--output-dir">> \in T /\ <<"--comment">> \in T
      BY DEF Holds, Valued
    <3>3. Gets(T, l2 \o <<<<"--comment">>, comment>>, rest, Config(dir, devices, comment, partial, numbers), above, fine)
      BY <1>2, <1>6, <2>2, <3>2, GetsTexts
    <3>4. QED BY <3>1, <3>3
  <2>3. QED BY <2>1, <2>2
<1>8. PartialArgs(form, config) \in Seq(T)
  <2>1. <<Partial>> \in T
    BY DEF Holds, Flags
  <2>2. <<<<Partial>>>> \in Seq(T) /\ <<>> \in Seq(T)
    BY <2>1
  <2>3. QED BY <2>2 DEF PartialArgs
<1>9. CommentArgs(form, config) \in Seq(T)
  <2>1. PICK opt \in T : opt = <<"--comment">>
    BY DEF Holds, Valued
  <2>2. <<opt, comment>> \in Seq(T) /\ <<>> \in Seq(T)
    BY <1>2
  <2>3. QED BY <1>2, <2>1, <2>2 DEF CommentArgs
<1>10. QED BY <1>1, <1>2, <1>3, <1>5, <1>6, <1>7, <1>8, <1>9

\* What daqd answers in the end.
LEMMA Replied ==
  ASSUME NEW T, NEW list, NEW rest, NEW want, NEW above, NEW fine, Gets(T, list, rest, want, above, fine),
         fine => above, above => want.output_dir # <<>> /\ want.devices # <<>>
  PROVE  LET s == ParseDaqArgs(Arriving(list))
         IN /\ s.outcome # "exit"
            /\ rest = <<>> => /\ (s.outcome = "ok" /\ above => s.cfg = want)
                              /\ (fine => s.outcome = "ok")
            /\ rest # <<>> => s.outcome = "refused"
<1>1. PICK s : Reaches(T, list, s, rest) /\ Shape(s, want, above, fine)
  BY DEF Gets
<1>2. PICK scan : scan = Scan(Arriving(list), Valued, Flags)
  OBVIOUS
<1>3. scan.whole /\ scan.rest = rest /\ TakeOptions(scan.settings) = s
  BY <1>1, <1>2 DEF Reaches, Scan
<1>4. PICK end : end = ParseDaqArgs(Arriving(list))
  OBVIOUS
<1>5. end = IF s.outcome = "ok" /\ (~scan.whole \/ scan.rest # <<>> \/ <<>> \in {s.cfg.output_dir, s.cfg.devices})
            THEN Refused(s) ELSE s
  BY <1>2, <1>3, <1>4 DEF ParseDaqArgs
<1>6. Refused(s).outcome = "refused"
  BY <1>1 DEF Refused, Shape
<1>7. s.outcome \in {"ok", "refused"} /\ (fine => s.outcome = "ok") /\ (above /\ s.outcome = "ok" => s.cfg = want)
  BY <1>1 DEF Shape
<1>8. end.outcome # "exit"
  BY <1>5, <1>6, <1>7
<1>9. ASSUME rest = <<>> PROVE (end.outcome = "ok" /\ above => end.cfg = want) /\ (fine => end.outcome = "ok")
  <2>1. end.outcome = "ok" => end = s
    BY <1>5, <1>6
  <2>2. fine => s.cfg.output_dir # <<>> /\ s.cfg.devices # <<>>
    BY <1>7
  <2>3. fine => end = s
    BY <1>3, <1>5, <1>9, <2>2
  <2>4. QED BY <1>7, <2>1, <2>3
<1>10. rest # <<>> => end.outcome = "refused"
  BY <1>3, <1>5, <1>6, <1>7
<1>11. QED BY <1>4, <1>8, <1>9, <1>10

\* What is appended leaves the first one first.
LEMMA FirstStays ==
  ASSUME NEW T, NEW u \in Seq(T), NEW v \in Seq(T), Len(u) >= 1
  PROVE  u \o v \in Seq(T) /\ (u \o v)[1] = u[1] /\ Len(u \o v) >= 1
OBVIOUS

\* A request the backend accepts gives daqd exactly the configuration that the
\* form and the web configuration ask for or is refused, and is only refused for
\* an output directory or a number, whatever texts, numbers and however many
\* devices they hold (app.py:1149, daq_cli.cpp:66).
THEOREM EveryFormArrives ==
  ASSUME NEW texts, <<>> \in texts, NEW form \in AnyForm(texts), NEW config \in AnyConfig(texts),
         Accepted(form)
  PROVE  TakenAsWanted(form, config)
<1> DEFINE D == {d \in AnyDevice(texts) : ValidDevice(d)}
           T == texts \union {<<o>> : o \in Valued \union Flags} \union {Numeral(n) : n \in Ints}
                \union {SpecText(d) : d \in D}
           dir == OutputDir(form, config)
           comment == Comment(form, config)
           devs == form.devices
           default == [o \in Options |-> Default(o)]
           args == StartArgs(form, config)
           want == Wanted(form, config)
<1>1. /\ form.output_dir \in texts /\ devs \in Seq(AnyDevice(texts)) /\ form.partial \in Maybe(BOOLEAN)
      /\ form.number \in [Options -> Maybe(Ints)] /\ form.comment \in Maybe(texts)
      /\ config.output_dir \in texts /\ config.number \in Maybe(Ints) /\ config.comment \in Maybe(texts)
      /\ config.partial \in BOOLEAN
  BY DEF AnyForm, AnyConfig
<1>2. devs \in Seq(D) /\ devs # <<>>
  <2>1. devs # <<>> /\ \A i \in DOMAIN devs : ValidDevice(devs[i])
    BY DEF Accepted
  <2>2. \A i \in DOMAIN devs : devs[i] \in D
    BY <1>1, <2>1
  <2>3. QED BY <1>1, <2>1, <2>2
<1>3. Valid(D, T)
  BY DEF Valid, AnyDevice
<1>4. Holds(T) /\ texts \subseteq T
  BY DEF Holds
<1> HIDE DEF T, D
<1>5. dir \in T /\ comment \in T
  <2>1. dir \in texts
    BY <1>1 DEF OutputDir, Given
  <2>2. comment \in texts
    <3>1. PICK c \in Maybe(texts) : c = Given(form.comment, config.comment)
      BY <1>1 DEF Given
    <3>2. c # <<>> => c[1] \in texts
      BY DEF Maybe
    <3>3. comment = IF c = <<>> THEN <<>> ELSE c[1]
      BY <3>1 DEF Comment
    <3>4. QED BY <3>2, <3>3
  <2>3. QED BY <1>4, <2>1, <2>2
<1>6. IsPartial(form, config) \in BOOLEAN
  <2>1. form.partial # <<>> => form.partial[1] \in BOOLEAN
    BY <1>1 DEF Maybe
  <2>2. QED BY <1>1, <2>1 DEF IsPartial, Given
<1>7. PICK asked : asked = [o \in Options |-> Number(form, config, o)]
  OBVIOUS
<1>8. asked \in [Options -> Maybe(Ints)]
  <2>1. <<>> \in Maybe(Ints)
    BY DEF Maybe
  <2>2. \A o \in Options : Number(form, config, o) \in Maybe(Ints)
    BY <1>1, <2>1 DEF Number, Given
  <2>3. QED BY <1>7, <2>2
<1>9. want = Config(dir, AllParsed(devs), comment, IsPartial(form, config), WantedNumber(asked))
  <2>1. WantedNumber(asked)
          = [o \in Options |-> LET n == Number(form, config, o) IN IF n = <<>> THEN Default(o) ELSE n[1]]
    BY <1>7 DEF WantedNumber
  <2>2. AllParsed(devs) = [i \in DOMAIN form.devices |->
                             [board |-> form.devices[i].board, host |-> form.devices[i].host,
                              port |-> form.devices[i].port]]
    BY DEF AllParsed, Parsed
  <2>3. QED BY <2>1, <2>2 DEF Wanted, Config
<1>10. DeviceArgs(form) = DevicePairs(devs)
  BY DEF DeviceArgs, DevicePairs, SpecText
<1>11. PICK above \in BOOLEAN : above <=> \A o \in Options : WantedNumber(asked)[o] > MaxU32 - ULongs
  OBVIOUS
<1>12. PICK fine \in BOOLEAN : fine <=> \A o \in Options : WantedNumber(asked)[o] \in Default(o) .. MaxU32
  OBVIOUS
<1>13. fine => above
  BY <1>11, <1>12, GetoptAssumption DEF Default
<1>14. fine => \A o \in Options : asked[o] # <<>> => asked[o][1] \in 1 .. MaxU32
  <2>1. ASSUME NEW o \in Options, fine, asked[o] # <<>> PROVE asked[o][1] \in 1 .. MaxU32
    <3>1. PICK n \in Ints : n = asked[o][1]
      BY <1>8, <2>1 DEF Maybe
    <3>2. n \in Default(o) .. MaxU32
      BY <1>12, <2>1, <3>1 DEF WantedNumber
    <3>3. n >= 1
      <4>1. CASE Default(o) = 1
        BY <3>2, <4>1
      <4>2. CASE Default(o) # 1
        <5>1. o = "--duration-sec"
          BY <4>2 DEF Default
        <5>2. Number(form, config, o) = form.number[o]
          BY <1>1, <5>1 DEF Number, Given, Configured
        <5>3. form.number[o] = <<>> \/ form.number[o][1] >= 1
          BY DEF Accepted
        <5>4. QED BY <1>7, <2>1, <3>1, <5>2, <5>3
      <4>3. QED BY <4>1, <4>2
    <3>4. n \in Int /\ MaxU32 \in Nat /\ Default(o) \in Nat
      BY GetoptAssumption DEF Default
    <3>5. QED BY <3>1, <3>2, <3>3, <3>4
  <2>2. QED BY <2>1
<1>15. PICK opt \in T : opt = <<"--output-dir">> /\ <<"--device">> \in T /\ <<"--comment">> \in T
  BY <1>4 DEF Holds, Valued
<1>16. PICK pairs \in Seq(T), base \in Seq(T), list \in Seq(T) :
         /\ pairs = DevicePairs(devs) /\ base = <<opt, dir>> /\ list = base \o pairs
  <2>1. DevicePairs(devs) \in Seq(T)
    <3>1. PICK d \in D : d = devs[1]
      BY <1>2
    <3>2. QED BY <1>2, <1>3, <1>15, <3>1, PairsOn
  <2>2. <<opt, dir>> \in Seq(T)
    BY <1>5
  <2>3. \A u, v \in Seq(T) : u \o v \in Seq(T)
    OBVIOUS
  <2>4. QED BY <2>1, <2>2, <2>3
<1> DEFINE more == NumberArgs(form, config)
           flag == PartialArgs(form, config)
           last == CommentArgs(form, config)
           s == ParseDaqArgs(Arriving(args))
<1>17. args = list \o more \o flag \o last
  BY <1>10, <1>15, <1>16 DEF StartArgs
<1>18. ASSUME NEW dir2, NEW devices, NEW rest, NEW above2 \in BOOLEAN, NEW fine2 \in BOOLEAN,
              above2 => above, fine2 => fine,
              Gets(T, list, rest, Config(dir2, devices, <<>>, FALSE, default), above2, fine2)
       PROVE  /\ more \in Seq(T) /\ flag \in Seq(T) /\ last \in Seq(T)
              /\ Gets(T, args, rest, Config(dir2, devices, comment, IsPartial(form, config), WantedNumber(asked)),
                      above2, fine2)
  <2>1. above2 => \A o \in Options : WantedNumber(asked)[o] > MaxU32 - ULongs
    BY <1>11, <1>18
  <2>2. fine2 => \A o \in Options : asked[o] # <<>> => asked[o][1] \in 1 .. MaxU32
    BY <1>14, <1>18
  <2>3. \A o \in Options : asked[o] = Number(form, config, o)
    BY <1>7
  <2>4. /\ more \in Seq(T) /\ flag \in Seq(T) /\ last \in Seq(T)
        /\ Gets(T, list \o more \o flag \o last, rest,
                Config(dir2, devices, comment, IsPartial(form, config), WantedNumber(asked)), above2, fine2)
    <3>1. Gets(T, list, rest, Config(dir2, devices, <<>>, FALSE, [o \in Options |-> Default(o)]), above2, fine2)
      BY <1>18
    <3>2. IsPartial(form, config) \in BOOLEAN /\ Comment(form, config) \in T /\ Holds(T)
      BY <1>4, <1>5, <1>6
    <3>3. /\ NumberArgs(form, config) \in Seq(T) /\ PartialArgs(form, config) \in Seq(T)
          /\ CommentArgs(form, config) \in Seq(T)
          /\ Gets(T, list \o NumberArgs(form, config) \o PartialArgs(form, config) \o CommentArgs(form, config),
                  rest,
                  Config(dir2, devices, Comment(form, config), IsPartial(form, config), WantedNumber(asked)),
                  above2, fine2)
      BY ONLY <1>8, <3>1, <3>2, <2>1, <2>2, <2>3, GetsTail
    <3>4. QED BY <3>3
  <2> HIDE DEF args, more, flag, last
  <2>5. QED BY <1>17, <2>4
<1>19. ASSUME more \in Seq(T), flag \in Seq(T), last \in Seq(T) PROVE ~HelpsItself(args)
  <2>1. list[1] = opt /\ Len(list) >= 1
    BY <1>16
  <2> HIDE DEF args, more, flag, last
  <2>2. list \o more \in Seq(T) /\ (list \o more)[1] = opt /\ Len(list \o more) >= 1
    BY <1>19, <2>1, FirstStays
  <2>3. /\ list \o more \o flag \in Seq(T) /\ (list \o more \o flag)[1] = opt
        /\ Len(list \o more \o flag) >= 1
    BY <1>19, <2>2, FirstStays
  <2>4. (list \o more \o flag \o last)[1] = opt
    BY <1>19, <2>3, FirstStays
  <2>5. args[1] = opt
    BY <1>17, <2>4
  <2>6. opt \notin {<<"--help">>, <<"-h">>}
    BY <1>15
  <2>7. QED BY <2>5, <2>6 DEF HelpsItself
<1>20. SUFFICES /\ more \in Seq(T) /\ flag \in Seq(T) /\ last \in Seq(T) /\ s.outcome # "exit"
                /\ s.outcome = "ok" /\ above => s.cfg = want
                /\ dir # <<>> /\ fine => s.outcome = "ok"
  <2>1. want.output_dir = dir /\ want.number = WantedNumber(asked)
    BY <1>9 DEF Config
  <2> HIDE DEF args, more, flag, last, want
  <2>2. QED BY <1>11, <1>12, <1>19, <1>20, <2>1 DEF TakenAsWanted, args, want
<1> HIDE DEF args, more, flag, last
<1>21. CASE dir # <<>>
  <2>1. Gets(T, base, <<>>, Config(dir, <<>>, <<>>, FALSE, default), above, fine)
    <3>1. Gets(T, <<>>, <<>>, Config(<<>>, <<>>, <<>>, FALSE, default), above, fine)
      BY GetsNone
    <3>2. Gets(T, <<>> \o <<<<"--output-dir">>, dir>>, <<>>, Config(dir, <<>>, <<>>, FALSE, default), above, fine)
      BY <1>5, <1>15, <1>21, <3>1, GetsTexts
    <3>3. <<>> \o base = base
      OBVIOUS
    <3>4. QED BY <1>15, <1>16, <3>2, <3>3
  <2>2. Gets(T, list, <<>>, Config(dir, AllParsed(devs), <<>>, FALSE, default), above, fine)
    BY <1>2, <1>3, <1>15, <1>16, <2>1, GetsDevices
  <2>3. /\ more \in Seq(T) /\ flag \in Seq(T) /\ last \in Seq(T)
        /\ Gets(T, args, <<>>, want, above, fine)
    BY <1>9, <1>18, <2>2
  <2>4. want.output_dir # <<>> /\ want.devices # <<>>
    <3>1. want.output_dir = dir /\ want.devices = AllParsed(devs)
      BY <1>9 DEF Config
    <3>2. AllParsed(devs) # <<>>
      <4>1. DOMAIN AllParsed(devs) # {}
        <5>1. 1 \in DOMAIN devs
          BY <1>2
        <5>2. DOMAIN AllParsed(devs) = DOMAIN devs
          BY DEF AllParsed
        <5>3. QED BY <5>1, <5>2
      <4>2. DOMAIN <<>> = {}
        OBVIOUS
      <4>3. QED BY <4>1, <4>2
    <3>3. QED BY <1>21, <3>1, <3>2
  <2> HIDE DEF want, s
  <2>5. /\ s.outcome # "exit" /\ (s.outcome = "ok" /\ above => s.cfg = want)
        /\ (fine => s.outcome = "ok")
    BY <1>13, <2>3, <2>4, Replied DEF s
  <2>6. QED BY <2>3, <2>5
<1>22. CASE dir = <<>>
  <2>1. PICK dir2, devices, rest :
          /\ rest # <<>> /\ Gets(T, list, rest, Config(dir2, devices, <<>>, FALSE, default), FALSE, FALSE)
    <3>1. <<>> \in T
      BY <1>4 DEF Holds
    <3>2. list = <<<<"--output-dir">>, <<>>>> \o DevicePairs(devs)
      BY <1>15, <1>16, <1>22
    <3>3. QED BY <1>2, <1>3, <1>15, <3>1, <3>2, GetsLost
  <2>2. PICK x : x = Config(dir2, devices, comment, IsPartial(form, config), WantedNumber(asked))
    OBVIOUS
  <2>3. /\ more \in Seq(T) /\ flag \in Seq(T) /\ last \in Seq(T)
        /\ Gets(T, args, rest, x, FALSE, FALSE)
    BY <1>18, <2>1, <2>2
  <2> HIDE DEF s
  <2>4. s.outcome = "refused"
    <3>1. PICK no \in BOOLEAN : no = FALSE
      OBVIOUS
    <3>2. Gets(T, args, rest, x, no, no)
      BY <2>3, <3>1
    <3>3. (no => no) /\ (no => x.output_dir # <<>> /\ x.devices # <<>>)
      BY <3>1
    <3>4. ParseDaqArgs(Arriving(args)).outcome = "refused"
      BY ONLY <2>1, <3>2, <3>3, Replied
    <3>5. QED BY <3>4 DEF s
  <2>5. QED BY <1>22, <2>3, <2>4
<1>23. QED BY <1>21, <1>22

\* The forms and configurations of the runs are such.
FormTexts == Entries \union Hosts \union {<<"kc705_tof">>, <<"other">>, <<"text">>}

\* A device that is valid, of those the runs try.
LEMMA SomeDevices ==
  ASSUME NEW d \in Device \union {OneDevice}, ValidDevice(d)
  PROVE  d \in AnyDevice(FormTexts)
<1>1. d \in [frontend : {<<"kc705_tof">>, <<"other">>}, board : {-1, 0, 7, 8}, host : Hosts \union {<<"host">>},
             port : {0, 1, MaxPort, MaxPort + 1}]
  <2>1. CASE d \in Device
    BY <2>1 DEF Device, Frontends
  <2>2. CASE d = OneDevice
    BY <2>2 DEF OneDevice
  <2>3. QED BY <2>1, <2>2
<1>2. d.board \in {0, 7} /\ d.port \in {1, MaxPort}
  <2>1. ValidValue(Schema["board"], d.board) /\ ValidValue(Schema["port"], d.port)
    BY DEF ValidDevice, Schema
  <2>2. d.board \in 0 .. 7
    BY <2>1 DEF ValidValue, Schema
  <2>3. d.port \in 1 .. MaxPort
    BY <2>1 DEF ValidValue, Schema
  <2>4. QED BY <1>1, <2>2, <2>3, PortsFit
<1>3. d.board \in Ints /\ d.port \in Ints
  BY <1>2, RequestAssumption
<1>4. <<"host">> \in FormTexts /\ Hosts \subseteq FormTexts
  BY DEF FormTexts, Hosts
<1>5. <<"kc705_tof">> \in FormTexts /\ <<"other">> \in FormTexts
  BY DEF FormTexts
<1>6. d.frontend \in FormTexts /\ d.host \in FormTexts
  BY <1>1, <1>4, <1>5
<1>7. QED BY <1>1, <1>3, <1>6 DEF AnyDevice

\* A form from its fields.
LEMMA SomeForm ==
  ASSUME NEW texts, NEW dir \in texts, NEW devices \in Seq(AnyDevice(texts)), NEW partial \in Maybe(BOOLEAN),
         NEW number \in [Options -> Maybe(Ints)], NEW comment \in Maybe(texts)
  PROVE  [output_dir |-> dir, devices |-> devices, partial |-> partial, number |-> number,
          comment |-> comment] \in AnyForm(texts)
BY Zenon DEF AnyForm

\* The forms of the runs are forms of those texts.
LEMMA SomeForms ==
  ASSUME NEW form \in Forms, Accepted(form)
  PROVE  form \in AnyForm(FormTexts)
<1>1. \A i \in DOMAIN form.devices : ValidDevice(form.devices[i])
  BY DEF Accepted
<1>2. /\ Entries \subseteq FormTexts /\ <<"text">> \in FormTexts
  BY DEF FormTexts
<1>3. ASSUME NEW d \in Device \union {OneDevice}, ValidDevice(d) PROVE <<d>> \in Seq(AnyDevice(FormTexts))
  BY <1>3, SomeDevices
<1>4. ASSUME NEW S, NEW v \in S PROVE <<>> \in Maybe(S) /\ <<v>> \in Maybe(S)
  BY DEF Maybe
<1>5. PICK none : none = [o \in Options |-> <<>>]
  OBVIOUS
<1>6. none \in [Options -> Maybe(Ints)]
  BY <1>5 DEF Maybe
<1>7. CASE form \in {FormWith(dir, comment, partial) :
                       dir \in Entries, comment \in Maybe(Entries), partial \in Maybe(BOOLEAN)}
  <2>1. PICK dir \in Entries, comment \in Maybe(Entries), partial \in Maybe(BOOLEAN) :
          form = FormWith(dir, comment, partial)
    BY ONLY <1>7, SMT
  <2>2. form = [output_dir |-> dir, devices |-> <<OneDevice>>, partial |-> partial, number |-> none,
                comment |-> comment]
    BY <1>5, <2>1 DEF Plain, FormWith
  <2>3. ValidDevice(OneDevice)
    <3>1. form.devices = <<OneDevice>>
      BY <2>2
    <3>2. 1 \in DOMAIN <<OneDevice>> /\ <<OneDevice>>[1] = OneDevice
      OBVIOUS
    <3>3. QED BY <1>1, <3>1, <3>2
  <2>4. <<OneDevice>> \in Seq(AnyDevice(FormTexts))
    BY <1>3, <2>3
  <2>5. dir \in FormTexts /\ comment \in Maybe(FormTexts)
    BY <1>2, <2>1 DEF Maybe
  <2>6. PICK devices : devices = <<OneDevice>> /\ devices \in Seq(AnyDevice(FormTexts))
    BY <2>4
  <2>7. [output_dir |-> dir, devices |-> devices, partial |-> partial, number |-> none,
         comment |-> comment] \in AnyForm(FormTexts)
    BY ONLY <1>6, <2>1, <2>5, <2>6, SomeForm
  <2>8. QED BY <2>2, <2>6, <2>7
<1>8. CASE form \in {[Plain EXCEPT !.devices = <<OneDevice, d>>] : d \in Device}
  <2>1. PICK d \in Device : form = [Plain EXCEPT !.devices = <<OneDevice, d>>]
    BY <1>8
  <2>2. form = [output_dir |-> <<"text">>, devices |-> <<OneDevice, d>>, partial |-> <<>>, number |-> none,
                comment |-> <<>>]
    BY <1>5, <2>1 DEF Plain
  <2>3. ValidDevice(OneDevice) /\ ValidDevice(d)
    <3>1. form.devices = <<OneDevice, d>>
      BY <2>2
    <3>2. /\ 1 \in DOMAIN <<OneDevice, d>> /\ <<OneDevice, d>>[1] = OneDevice
          /\ 2 \in DOMAIN <<OneDevice, d>> /\ <<OneDevice, d>>[2] = d
      OBVIOUS
    <3>3. QED BY <1>1, <3>1, <3>2
  <2>4. OneDevice \in AnyDevice(FormTexts) /\ d \in AnyDevice(FormTexts)
    BY <2>1, <2>3, SomeDevices
  <2>5. <<OneDevice, d>> \in Seq(AnyDevice(FormTexts))
    BY <2>4
  <2>6. <<>> \in Maybe(BOOLEAN) /\ <<>> \in Maybe(FormTexts)
    BY DEF Maybe
  <2>7. QED BY <1>2, <1>6, <2>2, <2>5, <2>6, SomeForm
<1>9. CASE form \in {[Plain EXCEPT !.number[o] = <<n>>] : o \in Options, n \in Numbers}
  <2>1. PICK o \in Options, n \in Numbers : form = [Plain EXCEPT !.number[o] = <<n>>]
    BY <1>9
  <2>2. PICK number : number = [none EXCEPT ![o] = <<n>>]
    OBVIOUS
  <2>3. form = [output_dir |-> <<"text">>, devices |-> <<OneDevice>>, partial |-> <<>>, number |-> number,
                comment |-> <<>>]
    BY <1>5, <2>1, <2>2 DEF Plain
  <2>4. ValidDevice(OneDevice)
    <3>1. form.devices = <<OneDevice>>
      BY <2>3
    <3>2. 1 \in DOMAIN <<OneDevice>> /\ <<OneDevice>>[1] = OneDevice
      OBVIOUS
    <3>3. QED BY <1>1, <3>1, <3>2
  <2>5. <<OneDevice>> \in Seq(AnyDevice(FormTexts))
    BY <1>3, <2>4
  <2>6. <<>> \in Maybe(BOOLEAN) /\ <<>> \in Maybe(FormTexts)
    BY DEF Maybe
  <2>7. <<n>> \in Maybe(Ints)
    BY <2>1, RequestAssumption DEF Maybe
  <2>8. number \in [Options -> Maybe(Ints)]
    BY <1>6, <2>2, <2>7
  <2>9. QED BY <1>2, <2>3, <2>5, <2>6, <2>8, SomeForm
<1>10. QED BY <1>7, <1>8, <1>9 DEF Forms

\* So every form the runs try arrives.
LEMMA FormsArrive == FormArrives
<1>1. SUFFICES ASSUME NEW form \in Forms, NEW config \in Configs, Accepted(form)
               PROVE  TakenAsWanted(form, config)
  BY DEF FormArrives
<1>2. form \in AnyForm(FormTexts)
  BY <1>1, SomeForms
<1>3. config \in AnyConfig(FormTexts)
  <2>1. Maybe(Numbers) \subseteq Maybe(Ints)
    BY RequestAssumption DEF Maybe
  <2>2. Entries \subseteq FormTexts
    BY DEF FormTexts
  <2>3. Maybe(Entries) \subseteq Maybe(FormTexts)
    BY <2>2 DEF Maybe
  <2>4. QED BY <2>1, <2>2, <2>3 DEF Configs, AnyConfig
<1>4. <<>> \in FormTexts
  BY DEF FormTexts, Entries
<1>5. QED BY <1>1, <1>2, <1>3, <1>4, EveryFormArrives

\* The arguments and the configuration of a start do not depend on the state, so
\* they are faithful in all of them: this is the property of the run, for every
\* word and number and for command lines of any length.
THEOREM StartFaithful == Spec => []StartIsFaithful
<1>1. StartIsFaithful
  BY QuotingFaithful, FormsArrive, LinesSane DEF StartIsFaithful
<1>2. QED BY <1>1, PTL
=============================================================================
