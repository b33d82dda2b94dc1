----------------------------- MODULE JobsProofs -----------------------------
(***************************************************************************)
(* Proofs about Jobs, for every tree of threads and every set of jobs.     *)
(***************************************************************************)
EXTENDS Jobs, SequenceTheorems, FiniteSetTheorems, TLAPS

Mail == Jobs \cup {Note}

(* A job is in a mailbox once.                                             *)
Once(s) == \A a, b \in DOMAIN s : s[a] = s[b] /\ s[a] # Note => a = b

(* The jobs in each mailbox.                                               *)
Box == [t \in Threads |-> Inbox(t)]

-----------------------------------------------------------------------------
(* The jobs in a sequence of mail, and how they change with it.            *)
In(s) == ToSet(s) \ {Note}

(* Nothing is in an empty mailbox. *)
LEMMA NoneIn == In(<<>>) = {} /\ Once(<<>>)
BY DEF In, ToSet, Once

(* What is in it are jobs. *)
LEMMA JobsIn == ASSUME NEW s \in Seq(Mail) PROVE In(s) \subseteq Jobs
BY DEF In, ToSet, Mail

(* What is appended is in it. *)
LEMMA AppendIn ==
  ASSUME NEW s \in Seq(Mail), NEW e \in Mail, e \notin In(s), Once(s)
  PROVE  /\ Append(s, e) \in Seq(Mail)
         /\ In(Append(s, e)) = In(s) \cup ({e} \ {Note})
         /\ Once(Append(s, e))
<1>1. /\ Len(s) \in Nat /\ DOMAIN s = 1..Len(s)
      /\ Append(s, e) \in Seq(Mail) /\ DOMAIN Append(s, e) = 1..(Len(s) + 1)
      /\ \A i \in 1..Len(s) : Append(s, e)[i] = s[i]
      /\ Append(s, e)[Len(s) + 1] = e
  BY AppendProperties
<1> DEFINE r == Append(s, e)
<1> HIDE DEF r
<1>2. ToSet(r) = ToSet(s) \cup {e}
  BY <1>1 DEF r, ToSet
<1>3. Once(r)
  <2> SUFFICES ASSUME NEW a \in DOMAIN r, NEW b \in DOMAIN r, r[a] = r[b], r[a] # Note
               PROVE  a = b
    BY DEF Once
  <2>1. \A i \in 1..Len(s) : s[i] # Note => s[i] # e
    BY <1>1 DEF In, ToSet
  <2>2. a \in 1..Len(s) \/ a = Len(s) + 1 BY <1>1 DEF r
  <2>3. b \in 1..Len(s) \/ b = Len(s) + 1 BY <1>1 DEF r
  <2> QED BY <1>1, <2>1, <2>2, <2>3 DEF r, Once
<1> QED BY <1>1, <1>2, <1>3 DEF r, In

(* What is taken from the front is not in it any more. *)
LEMMA TailIn ==
  ASSUME NEW s \in Seq(Mail), s # <<>>, Once(s)
  PROVE  /\ Head(s) \in Mail /\ Head(s) \in ToSet(s)
         /\ Tail(s) \in Seq(Mail)
         /\ In(Tail(s)) = In(s) \ {Head(s)}
         /\ Once(Tail(s))
<1>1. /\ Len(s) \in Nat \ {0} /\ DOMAIN s = 1..Len(s) /\ Head(s) = s[1] /\ Head(s) \in Mail
      /\ Tail(s) \in Seq(Mail) /\ DOMAIN Tail(s) = 1..(Len(s) - 1)
      /\ \A i \in 1..(Len(s) - 1) : Tail(s)[i] = s[i + 1]
  BY HeadTailProperties
<1>2. ASSUME NEW x \in In(Tail(s)) PROVE x \in In(s) \ {Head(s)}
  <2>1. PICK i \in 1..(Len(s) - 1) : x = s[i + 1] /\ x # Note
    BY <1>1, <1>2 DEF In, ToSet
  <2>2. i + 1 \in 1..Len(s) /\ 1 \in 1..Len(s) /\ i + 1 # 1 BY <1>1
  <2> QED BY <1>1, <2>1, <2>2 DEF In, ToSet, Once
<1>3. ASSUME NEW x \in In(s) \ {Head(s)} PROVE x \in In(Tail(s))
  <2>1. PICK i \in 1..Len(s) : x = s[i] /\ i # 1 /\ x # Note
    BY <1>1, <1>3 DEF In, ToSet
  <2>2. i - 1 \in 1..(Len(s) - 1) /\ Tail(s)[i - 1] = x
    BY <1>1, <2>1
  <2> QED BY <1>1, <2>1, <2>2 DEF In, ToSet
<1>4. Once(Tail(s))
  BY <1>1 DEF Once
<1>5. Head(s) \in ToSet(s)
  BY <1>1 DEF ToSet
<1> QED BY <1>1, <1>2, <1>3, <1>4, <1>5

(* What is taken out of it is not in it any more. *)
LEMMA RemoveIn ==
  ASSUME NEW s \in Seq(Mail), NEW i \in DOMAIN s, s[i] # Note, Once(s)
  PROVE  /\ RemoveAt(s, i) \in Seq(Mail)
         /\ In(RemoveAt(s, i)) = In(s) \ {s[i]}
         /\ Once(RemoveAt(s, i))
<1> DEFINE r == RemoveAt(s, i)
<1>1. /\ Len(s) \in Nat \ {0} /\ DOMAIN s = 1..Len(s) /\ i \in 1..Len(s)
      /\ r \in Seq(Mail) /\ DOMAIN r = 1..(Len(s) - 1)
      /\ \A k \in 1..(Len(s) - 1) : r[k] = IF k < i THEN s[k] ELSE s[k + 1]
  <2> DEFINE a == SubSeq(s, 1, i - 1)
             b == SubSeq(s, i + 1, Len(s))
  <2>1. Len(s) \in Nat \ {0} /\ DOMAIN s = 1..Len(s) /\ i \in 1..Len(s)
    OBVIOUS
  <2>2. a \in Seq(Mail) /\ Len(a) = i - 1 /\ \A k \in 1..(i - 1) : a[k] = s[k]
    BY <2>1
  <2>3. b \in Seq(Mail) /\ Len(b) = Len(s) - i /\ \A k \in 1..(Len(s) - i) : b[k] = s[i + k]
    BY <2>1
  <2> HIDE DEF a, b
  <2> DEFINE q == a \o b
  <2>4. /\ q \in Seq(Mail) /\ Len(q) = Len(a) + Len(b)
        /\ \A k \in 1..(Len(a) + Len(b)) : q[k] = IF k <= Len(a) THEN a[k] ELSE b[k - Len(a)]
    BY <2>2, <2>3, ConcatProperties
  <2> HIDE DEF q
  <2>5. Len(q) = Len(s) - 1
    BY <2>1, <2>2, <2>3, <2>4
  <2>6. ASSUME NEW k \in 1..(Len(s) - 1) PROVE q[k] = IF k < i THEN s[k] ELSE s[k + 1]
    <3>1. k \in 1..(Len(a) + Len(b)) BY <2>1, <2>2, <2>3
    <3>2. CASE k < i
      <4>1. k <= Len(a) /\ k \in 1..(i - 1) BY <2>1, <2>2, <3>2
      <4> QED BY <2>2, <2>4, <3>1, <3>2, <4>1
    <3>3. CASE ~(k < i)
      <4>1. ~(k <= Len(a)) /\ k - Len(a) \in 1..(Len(s) - i) /\ i + (k - Len(a)) = k + 1
        BY <2>1, <2>2, <3>3
      <4>2. b[k - Len(a)] = s[k + 1] BY <2>3, <4>1
      <4> QED BY <2>4, <3>1, <3>3, <4>1, <4>2
    <3> QED BY <3>2, <3>3
  <2>7. r = q BY DEF RemoveAt, a, b, q, r
  <2>8. DOMAIN q = 1..(Len(s) - 1) BY <2>4, <2>5
  <2> HIDE DEF r
  <2> QED BY <2>1, <2>4, <2>6, <2>7, <2>8
<1> HIDE DEF r
<1>2. ASSUME NEW x \in In(r) PROVE x \in In(s) \ {s[i]}
  <2>1. PICK k \in 1..(Len(s) - 1) : x = r[k] /\ x # Note
    BY <1>1, <1>2 DEF In, ToSet
  <2>2. PICK l \in 1..Len(s) : l # i /\ x = s[l]
    BY <1>1, <2>1
  <2> QED BY <1>1, <2>1, <2>2 DEF In, ToSet, Once
<1>3. ASSUME NEW x \in In(s) \ {s[i]} PROVE x \in In(r)
  <2>1. PICK l \in 1..Len(s) : x = s[l] /\ l # i /\ x # Note
    BY <1>1, <1>3 DEF In, ToSet
  <2>2. CASE l < i
    BY <1>1, <2>1, <2>2 DEF In, ToSet
  <2>3. CASE l > i
    <3>1. l - 1 \in 1..(Len(s) - 1) /\ r[l - 1] = x
      BY <1>1, <2>1, <2>3
    <3> QED BY <1>1, <2>1, <3>1 DEF In, ToSet
  <2> QED BY <1>1, <2>1, <2>2, <2>3
<1>4. Once(r)
  <2> SUFFICES ASSUME NEW k \in 1..(Len(s) - 1), NEW l \in 1..(Len(s) - 1), r[k] = r[l], r[k] # Note
               PROVE  k = l
    BY <1>1 DEF Once
  <2> DEFINE at(x) == IF x < i THEN x ELSE x + 1
  <2>1. at(k) \in DOMAIN s /\ at(l) \in DOMAIN s /\ s[at(k)] = s[at(l)] /\ s[at(k)] # Note
    BY <1>1
  <2>2. at(k) = at(l)
    BY <2>1 DEF Once
  <2> QED BY <1>1, <2>2
<1> QED BY <1>1, <1>2, <1>3, <1>4 DEF r

-----------------------------------------------------------------------------
(* Mail is for jobs of the thread, once each, and the thread is in memory, *)
(* or was evicted before its drive had begun.                              *)
Boxed == \A t \in Threads : Once(mailbox[t])
Within ==
  \A t \in Threads, j \in Jobs :
    j \in Box[t] \/ j \in turn[t] => t = thread[j] /\ t \in live \cup doubled

(* Where a job without an outcome may be: in a mailbox, consumed by a      *)
(* turn, resolved, rooting, or parked with a human.                        *)
Mailed(j)  == \E t \in Threads : j \in Box[t]
Turning(j) == \E t \in Threads : j \in turn[t]
Parked(j)  == state[j] = "held" /\ outcome[j] = "none"

(* It is in one of these places, unless two objects of its thread lost it. *)
Place(j) ==
  /\ \/ Mailed(j) \/ Turning(j) \/ ended[j] # "none" \/ stage[j] = "rooting" \/ Parked(j)
     \/ state[j] = "none" \/ outcome[j] # "none" \/ thread[j] \in doubled
  /\ Mailed(j) => /\ ~Turning(j) /\ ended[j] = "none" /\ stage[j] # "rooting" /\ ~Parked(j)
                  /\ state[j] # "none" /\ outcome[j] = "none"
  /\ Turning(j) => /\ ended[j] = "none" /\ stage[j] # "rooting" /\ ~Parked(j)
                   /\ state[j] # "none" /\ outcome[j] = "none"
  /\ ended[j] # "none" => /\ stage[j] # "rooting" /\ ~Parked(j)
                          /\ state[j] # "none" /\ outcome[j] = "none"
  /\ stage[j] = "rooting" => ~Parked(j) /\ state[j] # "none" /\ outcome[j] = "none"

Placed == \A j \in Jobs : Place(j)

(* What became of a job, and who heard of it.                              *)
Told(j) == \E w \in Waits : waits[w] = [job |-> j, went |-> "told"]

Concluded(j) ==
  /\ outcome[j] # "none" => state[j] \in {"held", "done", "failed", "cancelled"}
  /\ state[j] \in {"done", "failed"} =>
       outcome[j] # "none" /\ (stage[j] = "replying" \/ replied[j] > 0 \/ Told(j))
  /\ state[j] # "none" => thread[j] \in Threads /\ replyTo[j] \in Threads

(* Who is to hear has not heard, and nobody hears who must not.            *)
Hearing(j) ==
  /\ \A w \in Waits : slot[j] = w =>
       outcome[j] = "none" /\ waits[w] = [job |-> j, went |-> "waiting"]
  /\ Told(j) => outcome[j] # "none" /\ stage[j] # "replying" /\ replied[j] = 0
  /\ stage[j] = "replying" => outcome[j] \in Final /\ replied[j] = 0
  /\ replied[j] > 0 => replied[j] = 1 /\ outcome[j] \in Final
  /\ j \in hushed => state[j] = "cancelled" /\ stage[j] = "no" /\ replied[j] = 0

Heeded == \A j \in Jobs : Concluded(j) /\ Hearing(j)

Cancels == \A j \in cancelling : state[j] # "none"

Rest == Boxed /\ Within /\ Placed /\ Heeded /\ AskingIsHeld /\ Cancels
IInv == TypeOK /\ Rest

-----------------------------------------------------------------------------
(* Nobody and a note are no job. *)
LEMMA NotNobody == Nobody \notin Threads /\ Nobody \notin Jobs /\ Nobody \notin Waits /\ Note \notin Jobs
BY NobodyAssumption, NoteAssumption

(* The mailbox seen as a sequence and as its jobs. *)
LEMMA BoxIs ==
  /\ \A t \in Threads : Box[t] = In(mailbox[t])
  /\ \A t \in Threads : Box'[t] = In(mailbox'[t])
  /\ \A t \in Threads : Inbox(t) = Box[t]
BY DEF Box, In, Inbox

LEMMA BoxType == ASSUME TypeOK PROVE \A t \in Threads : Box[t] \subseteq Jobs
<1> SUFFICES ASSUME NEW t \in Threads PROVE Box[t] \subseteq Jobs OBVIOUS
<1>1. mailbox[t] \in Seq(Mail) BY DEF TypeOK, Mail
<1> QED BY <1>1, JobsIn, BoxIs

(* A thread that is made room for is in memory, with all that have mail or *)
(* a turn, but for those that are doubled.                                 *)
LEMMA GetKeeps ==
  ASSUME TypeOK, NEW t \in Threads, Get(t)
  PROVE  /\ live' \subseteq Threads /\ t \in live'
         /\ held' \in [Threads -> BOOLEAN] /\ parked' \in [Threads -> BOOLEAN]
         /\ forgotten' \subseteq Threads /\ doubled' \subseteq Threads
         /\ doubled \subseteq doubled'
         /\ \A x \in live : mailbox[x] # <<>> \/ turn[x] # {} => x \in live' \cup doubled'
<1> DEFINE others == live \ {t}
           idle == {x \in others : ~Busy(x)}
<1>1. PICK gone \in SUBSET (idle \cup (others \cap doubled)) :
        /\ live' = (live \cup {t}) \ gone
        /\ held' = [x \in Threads |-> x \notin gone /\ held[x]]
        /\ parked' = [x \in Threads |-> x \notin gone /\ parked[x]]
        /\ forgotten' = forgotten \cup {x \in gone : parked[x]}
        /\ doubled' = doubled \cup (gone \cap posting)
  BY DEF Get
<1>2. \A x \in gone : x \in live /\ x # t /\ (x \in doubled \/ ~Busy(x))
  OBVIOUS
<1>3. live \subseteq Threads /\ forgotten \subseteq Threads /\ doubled \subseteq Threads
      /\ posting \subseteq Threads
      /\ held \in [Threads -> BOOLEAN] /\ parked \in [Threads -> BOOLEAN]
  BY DEF TypeOK
<1>4. live' \subseteq Threads /\ t \in live' /\ forgotten' \subseteq Threads
      /\ doubled' \subseteq Threads /\ doubled \subseteq doubled'
  BY <1>1, <1>2, <1>3
<1>5. held' \in [Threads -> BOOLEAN] /\ parked' \in [Threads -> BOOLEAN]
  <2>1. \A x \in Threads : (x \notin gone /\ held[x]) \in BOOLEAN /\ (x \notin gone /\ parked[x]) \in BOOLEAN
    OBVIOUS
  <2> QED BY <1>1, <2>1
<1>6. ASSUME NEW x \in live, mailbox[x] # <<>> \/ turn[x] # {} PROVE x \in live' \cup doubled'
  <2>1. CASE x \notin gone BY <1>1, <2>1
  <2>2. CASE x \in doubled BY <1>4, <2>2
  <2>3. CASE x \in gone /\ x \notin doubled
    <3>1. x \in posting BY <1>2, <1>6, <2>3 DEF Busy, Drives
    <3> QED BY <1>1, <2>3, <3>1
  <2> QED BY <2>1, <2>2, <2>3
<1> QED BY <1>4, <1>5, <1>6

(* Mail that is deposited is one more in the mailbox.                      *)
LEMMA DepositKeeps ==
  ASSUME TypeOK, Boxed, NEW t \in Threads, NEW e \in Mail, e \notin Box[t], Deposit(t, e)
  PROVE  /\ mailbox' \in [Threads -> Seq(Jobs \cup {Note})]
         /\ Boxed'
         /\ posting' \subseteq Threads
         /\ \A x \in Threads : Box'[x] = IF x = t THEN Box[x] \cup ({e} \ {Note}) ELSE Box[x]
<1>1. mailbox \in [Threads -> Seq(Mail)] /\ \A x \in Threads : mailbox[x] \in Seq(Mail) /\ Once(mailbox[x])
  BY DEF TypeOK, Mail, Boxed
<1>2. mailbox' = [mailbox EXCEPT ![t] = Append(mailbox[t], e)]
  BY DEF Deposit
<1>3. e \notin In(mailbox[t]) BY BoxIs
<1>4. /\ Append(mailbox[t], e) \in Seq(Mail) /\ Once(Append(mailbox[t], e))
      /\ In(Append(mailbox[t], e)) = In(mailbox[t]) \cup ({e} \ {Note})
  BY <1>1, <1>3, AppendIn
<1>5. mailbox' \in [Threads -> Seq(Mail)] /\ mailbox'[t] = Append(mailbox[t], e)
      /\ \A x \in Threads : x # t => mailbox'[x] = mailbox[x]
  BY <1>1, <1>2, <1>4
<1>6. Boxed' BY <1>1, <1>4, <1>5 DEF Boxed
<1>7. \A x \in Threads : Box'[x] = IF x = t THEN Box[x] \cup ({e} \ {Note}) ELSE Box[x]
  BY <1>4, <1>5, BoxIs
<1>8. mailbox' \in [Threads -> Seq(Jobs \cup {Note})] BY <1>5 DEF Mail
<1>9. posting' \subseteq Threads BY DEF Deposit, TypeOK
<1> QED BY <1>6, <1>7, <1>8, <1>9

(* A mailbox with a job in it is not empty, nor is its thread idle.        *)
LEMMA MailStays ==
  ASSUME IInv, NEW t \in Threads, Get(t)
  PROVE  \A x \in Threads, j \in Jobs : j \in Box[x] \/ j \in turn[x] =>
           x = thread[j] /\ x \in live' \cup doubled'
<1> SUFFICES ASSUME NEW x \in Threads, NEW j \in Jobs, j \in Box[x] \/ j \in turn[x]
             PROVE  x = thread[j] /\ x \in live' \cup doubled'
  OBVIOUS
<1>1. x = thread[j] /\ x \in live \cup doubled BY DEF IInv, Rest, Within
<1>2. mailbox[x] # <<>> \/ turn[x] # {} BY BoxIs, NoneIn
<1> QED BY <1>1, <1>2, GetKeeps DEF IInv

-----------------------------------------------------------------------------
(* Conclude: what it does to each job ...                                  *)
LEMMA ConcludeDoes ==
  ASSUME TypeOK, NEW D \in SUBSET Jobs, NEW out \in [D -> Outcomes],
         NEW doomed \in SUBSET Jobs, Conclude(out, doomed), NEW j \in Jobs
  PROVE  /\ j \notin D => /\ outcome'[j] = outcome[j] /\ stage'[j] = stage[j] /\ slot'[j] = slot[j]
                          /\ state'[j] = IF j \in doomed THEN "cancelled" ELSE state[j]
         /\ j \in D => /\ outcome'[j] = out[j] /\ slot'[j] = Nobody
                       /\ state'[j] = IF j \in doomed \/ state[j] = "cancelled" THEN "cancelled"
                                      ELSE StateOf(out[j])
                       /\ stage'[j] = IF /\ slot[j] = Nobody /\ replyTo[j] # Nobody
                                         /\ j \notin doomed /\ state[j] # "cancelled" /\ out[j] # "held"
                                      THEN "replying" ELSE "no"
<1>1. DOMAIN out = D OBVIOUS
<1> QED BY <1>1 DEF Conclude

Call == [job : Jobs \cup {Nobody}, went : {"idle", "waiting", "told", "late", "gave up"}]

(* A call of wait() that goes on is a call. *)
LEMMA CallGoes ==
  ASSUME NEW c \in Call, NEW v
  PROVE  /\ [c EXCEPT !.went = v] = [job |-> c.job, went |-> v]
         /\ v \in {"told", "gave up"} => [c EXCEPT !.went = v] \in Call
<1>1. c = [job |-> c.job, went |-> c.went] BY DEF Call
<1>2. [c EXCEPT !.went = v] = [job |-> c.job, went |-> v] BY <1>1
<1>3. c.job \in Jobs \cup {Nobody} BY DEF Call
<1> QED BY <1>2, <1>3 DEF Call

LEMMA StateOfType == \A what \in Outcomes : StateOf(what) \in {"held", "done", "failed"}
BY DEF StateOf

(* ... within the types ... *)
LEMMA ConcludeType ==
  ASSUME TypeOK, NEW D \in SUBSET Jobs, NEW out \in [D -> Outcomes],
         NEW doomed \in SUBSET Jobs, Conclude(out, doomed)
  PROVE  /\ state' \in [Jobs -> {"none", "pending", "held", "done", "failed", "cancelled"}]
         /\ outcome' \in [Jobs -> Outcomes \cup {"none"}]
         /\ stage' \in [Jobs -> {"no", "rooting", "replying"}]
         /\ slot' \in [Jobs -> Waits \cup {Nobody}]
         /\ waits' \in [Waits -> [job : Jobs \cup {Nobody},
                                  went : {"idle", "waiting", "told", "late", "gave up"}]]
<1> USE DEF TypeOK
<1>1. DOMAIN out = D OBVIOUS
<1>2. state' \in [Jobs -> {"none", "pending", "held", "done", "failed", "cancelled"}]
  BY <1>1, StateOfType DEF Conclude
<1>3. outcome' \in [Jobs -> Outcomes \cup {"none"}] BY <1>1 DEF Conclude
<1>4. stage' \in [Jobs -> {"no", "rooting", "replying"}] BY <1>1 DEF Conclude
<1>5. slot' \in [Jobs -> Waits \cup {Nobody}] BY <1>1 DEF Conclude
<1>6. waits' \in [Waits -> [job : Jobs \cup {Nobody},
                            went : {"idle", "waiting", "told", "late", "gave up"}]]
  <2>1. \A w \in Waits : waits[w] \in Call BY DEF Call
  <2>2. \A w \in Waits : [waits[w] EXCEPT !.went = "told"] \in Call BY <2>1, CallGoes
  <2>3. waits' = [w \in Waits |-> IF \E j \in DOMAIN out : slot[j] = w
                                  THEN [waits[w] EXCEPT !.went = "told"] ELSE waits[w]]
    BY DEF Conclude
  <2>4. waits' \in [Waits -> Call] BY <2>1, <2>2, <2>3
  <2> QED BY <2>4 DEF Call
<1> QED BY <1>2, <1>3, <1>4, <1>5, <1>6

(* ... and to each wait().                                                 *)
LEMMA ConcludeTells ==
  ASSUME TypeOK, Heeded, NEW D \in SUBSET Jobs, NEW out \in [D -> Outcomes],
         NEW doomed \in SUBSET Jobs, Conclude(out, doomed)
  PROVE  /\ \A w \in Waits, j \in D : slot[j] = w => waits'[w] = [job |-> j, went |-> "told"]
         /\ \A w \in Waits : (\A j \in D : slot[j] # w) => waits'[w] = waits[w]
<1>1. DOMAIN out = D OBVIOUS
<1>2. waits' = [w \in Waits |-> IF \E j \in D : slot[j] = w
                                THEN [waits[w] EXCEPT !.went = "told"] ELSE waits[w]]
  BY <1>1 DEF Conclude
<1>3. ASSUME NEW w \in Waits, NEW j \in D, slot[j] = w
      PROVE  waits'[w] = [job |-> j, went |-> "told"]
  <2>1. waits[w] = [job |-> j, went |-> "waiting"] BY <1>3 DEF Heeded, Hearing
  <2>2. waits'[w] = [waits[w] EXCEPT !.went = "told"] BY <1>2, <1>3
  <2> QED BY <2>1, <2>2
<1> QED BY <1>2, <1>3

(* So what becomes of jobs is heard, and once.                             *)
LEMMA ConcludeKeeps ==
  ASSUME TypeOK, Heeded, NEW D \in SUBSET Jobs, NEW out \in [D -> Outcomes],
         NEW doomed \in SUBSET Jobs, Conclude(out, doomed),
         \A j \in D \cup doomed : state[j] # "none" /\ outcome[j] = "none",
         UNCHANGED <<thread, replyTo, replied>>,
         \A j \in hushed' : j \in hushed \/ (j \in doomed /\ (j \in D \/ stage[j] = "no"))
  PROVE  Heeded'
<1> SUFFICES ASSUME NEW j \in Jobs PROVE Concluded(j)' /\ Hearing(j)'
  BY DEF Heeded
<1>1. Concluded(j) /\ Hearing(j) BY DEF Heeded
<1>2. replied[j] \in Nat BY DEF TypeOK
<1>3. slot[j] \in Waits \cup {Nobody} BY DEF TypeOK
<1>4. ASSUME NEW w \in Waits, waits'[w] = [job |-> j, went |-> "told"], j \notin D
      PROVE  waits[w] = [job |-> j, went |-> "told"]
  <2>1. ASSUME NEW k \in D, slot[k] = w PROVE FALSE
    <3>1. waits'[w] = [job |-> k, went |-> "told"] BY <2>1, ConcludeTells
    <3> QED BY <1>4, <3>1
  <2> QED BY <1>4, <2>1, ConcludeTells
<1>5. CASE j \notin D
  <2>1. /\ outcome'[j] = outcome[j] /\ stage'[j] = stage[j] /\ slot'[j] = slot[j]
        /\ state'[j] = IF j \in doomed THEN "cancelled" ELSE state[j]
    BY <1>5, ConcludeDoes
  <2>2. Told(j)' <=> Told(j)
    <3>1. Told(j)' => Told(j) BY <1>4, <1>5 DEF Told
    <3>2. ASSUME NEW w \in Waits, waits[w] = [job |-> j, went |-> "told"] PROVE Told(j)'
      <4>1. ASSUME NEW k \in D PROVE slot[k] # w
        <5>1. slot[k] = w => waits[w] = [job |-> k, went |-> "waiting"] BY <4>1 DEF Heeded, Hearing
        <5> QED BY <3>2, <5>1
      <4>2. waits'[w] = waits[w] BY <4>1, ConcludeTells
      <4> QED BY <3>2, <4>2 DEF Told
    <3> QED BY <3>1, <3>2 DEF Told
  <2>3. Concluded(j)' BY <1>1, <2>1, <2>2 DEF Concluded
  <2>4. ASSUME NEW w \in Waits, slot'[j] = w
        PROVE  outcome'[j] = "none" /\ waits'[w] = [job |-> j, went |-> "waiting"]
    <3>1. outcome[j] = "none" /\ waits[w] = [job |-> j, went |-> "waiting"]
      BY <1>1, <2>1, <2>4 DEF Hearing
    <3>2. ASSUME NEW k \in D PROVE slot[k] # w
      <4>1. slot[k] = w => waits[w] = [job |-> k, went |-> "waiting"] BY <3>2 DEF Heeded, Hearing
      <4> QED BY <1>5, <3>1, <4>1
    <3>3. waits'[w] = waits[w] BY <3>2, ConcludeTells
    <3> QED BY <2>1, <3>1, <3>3
  <2>5. j \in hushed' => state'[j] = "cancelled" /\ stage'[j] = "no" /\ replied'[j] = 0
    <3>1. CASE j \in hushed BY <1>1, <2>1, <3>1 DEF Hearing
    <3>2. CASE j \in doomed /\ stage[j] = "no"
      <4>1. outcome[j] = "none" BY <3>2
      <4>2. replied[j] = 0 BY <1>1, <1>2, <4>1 DEF Hearing, Final
      <4> QED BY <2>1, <3>2, <4>2
    <3> QED BY <1>5, <3>1, <3>2
  <2>6. Hearing(j)' BY <1>1, <2>1, <2>2, <2>4, <2>5 DEF Hearing
  <2> QED BY <2>3, <2>6
<1>6. CASE j \in D
  <2>1. state[j] # "none" /\ outcome[j] = "none" BY <1>6
  <2>2. replied[j] = 0 /\ ~Told(j) BY <1>1, <1>2, <2>1 DEF Hearing, Final
  <2>3. /\ outcome'[j] = out[j] /\ slot'[j] = Nobody
        /\ state'[j] = IF j \in doomed \/ state[j] = "cancelled" THEN "cancelled"
                       ELSE StateOf(out[j])
        /\ stage'[j] = IF /\ slot[j] = Nobody /\ replyTo[j] # Nobody
                          /\ j \notin doomed /\ state[j] # "cancelled" /\ out[j] # "held"
                       THEN "replying" ELSE "no"
    BY <1>6, ConcludeDoes
  <2>4. out[j] \in Outcomes /\ out[j] # "none" BY <1>6 DEF Outcomes, Final
  <2>5. state'[j] \in {"held", "done", "failed", "cancelled"} BY <2>3, <2>4, StateOfType
  <2>6. Told(j)' <=> slot[j] # Nobody
    <3>1. slot[j] # Nobody => Told(j)' BY <1>3, <1>6, ConcludeTells DEF Told
    <3>2. ASSUME NEW w \in Waits, waits'[w] = [job |-> j, went |-> "told"], slot[j] = Nobody PROVE FALSE
      <4>1. ASSUME NEW k \in D, slot[k] = w PROVE FALSE
        <5>1. waits'[w] = [job |-> k, went |-> "told"] BY <4>1, ConcludeTells
        <5>2. k = j BY <3>2, <5>1
        <5> QED BY <3>2, <4>1, <5>2, NotNobody
      <4>2. waits'[w] = waits[w] BY <4>1, ConcludeTells
      <4> QED BY <2>2, <3>2, <4>2 DEF Told
    <3> QED BY <3>1, <3>2 DEF Told
  <2>7. thread'[j] \in Threads /\ replyTo'[j] \in Threads BY <1>1, <2>1 DEF Concluded
  <2>8. Concluded(j)'
    <3>1. state'[j] \in {"done", "failed"} => stage'[j] = "replying" \/ Told(j)'
      <4>1. CASE out[j] = "held"
        BY <2>3, <4>1 DEF StateOf
      <4>2. CASE out[j] # "held"
        BY <2>3, <2>6, <2>7, <4>2, NotNobody
      <4> QED BY <4>1, <4>2
    <3> QED BY <2>3, <2>4, <2>5, <2>7, <3>1 DEF Concluded
  <2>9. Hearing(j)'
    <3>1. \A w \in Waits : slot'[j] # w BY <2>3, NotNobody
    <3>2. Told(j)' => stage'[j] # "replying" BY <2>3, <2>6
    <3>3. stage'[j] = "replying" => outcome'[j] \in Final BY <2>3, <2>4 DEF Outcomes
    <3>4. j \in hushed' => state'[j] = "cancelled" /\ stage'[j] = "no"
      BY <1>1, <1>6, <2>3 DEF Hearing
    <3> QED BY <2>2, <2>3, <2>4, <3>1, <3>2, <3>3, <3>4 DEF Hearing
  <2> QED BY <2>8, <2>9
<1> QED BY <1>5, <1>6

-----------------------------------------------------------------------------
(* Every step keeps the types.                                             *)
LEMMA InitType == Init => TypeOK
<1> SUFFICES ASSUME Init PROVE TypeOK OBVIOUS
<1>1. calls \in 0..MaxCalls BY BoundAssumption DEF Init
<1>2. \A w \in Waits : [job |-> Nobody, went |-> "idle"] \in Call BY DEF Call
<1>3. waits \in [Waits -> Call] BY <1>2 DEF Init
<1> QED BY <1>1, <1>3 DEF Init, TypeOK, Call

LEMMA DepositType ==
  ASSUME TypeOK, NEW t \in Threads, NEW e \in Mail, Deposit(t, e)
  PROVE  mailbox' \in [Threads -> Seq(Jobs \cup {Note})] /\ posting' \subseteq Threads
<1>0. posting' \subseteq Threads BY DEF Deposit, TypeOK
<1>1. mailbox \in [Threads -> Seq(Mail)] BY DEF TypeOK, Mail
<1>2. Append(mailbox[t], e) \in Seq(Mail) BY <1>1, AppendProperties
<1>3. mailbox' = [mailbox EXCEPT ![t] = Append(mailbox[t], e)] BY DEF Deposit
<1>4. mailbox' \in [Threads -> Seq(Mail)] BY <1>1, <1>2, <1>3
<1> QED BY <1>0, <1>4 DEF Mail

LEMMA AskedType ==
  ASSUME TypeOK, NEW j \in Jobs, NEW t \in Threads, NEW back \in Threads, Asked(j, t, back)
  PROVE  /\ state' \in [Jobs -> {"none", "pending", "held", "done", "failed", "cancelled"}]
         /\ thread' \in [Jobs -> Threads \cup {Nobody}]
         /\ replyTo' \in [Jobs -> Threads \cup {Nobody}]
         /\ returns' \in [Threads -> Threads \cup {Nobody}]
         /\ live' \subseteq Threads /\ posting' \subseteq Threads
         /\ held' \in [Threads -> BOOLEAN] /\ parked' \in [Threads -> BOOLEAN]
         /\ forgotten' \subseteq Threads /\ doubled' \subseteq Threads
         /\ mailbox' \in [Threads -> Seq(Jobs \cup {Note})]
<1>1. Get(t) /\ Deposit(t, j) BY DEF Asked
<1>2. mailbox' \in [Threads -> Seq(Jobs \cup {Note})] /\ posting' \subseteq Threads BY <1>1, DepositType DEF Mail
<1> QED BY <1>1, <1>2, GetKeeps DEF Asked, TypeOK

LEMMA HaltType ==
  ASSUME TypeOK, NEW doomed \in SUBSET Threads, NEW why \in {"stopped", "cancelled"}, Halt(doomed, why)
  PROVE  /\ signal' \in [Threads -> {"live", "stopped", "cancelled"}]
         /\ mailbox' \in [Threads -> Seq(Jobs \cup {Note})]
         /\ ended' \in [Jobs -> Outcomes \cup {"none"}]
<1>1. signal' \in [Threads -> {"live", "stopped", "cancelled"}] BY DEF Halt, TypeOK
<1>2. mailbox' \in [Threads -> Seq(Jobs \cup {Note})]
  <2>1. mailbox \in [Threads -> Seq(Mail)] /\ <<>> \in Seq(Mail) BY EmptySeq DEF TypeOK, Mail
  <2>2. mailbox' = [t \in Threads |-> IF t \in doomed \cap live THEN <<>> ELSE mailbox[t]] BY DEF Halt
  <2>3. mailbox' \in [Threads -> Seq(Mail)] BY <2>1, <2>2
  <2> QED BY <2>3 DEF Mail
<1>3. ended' \in [Jobs -> Outcomes \cup {"none"}]
  <2>1. PICK told : ended' = [j \in Jobs |-> IF j \in told THEN why ELSE ended[j]] BY DEF Halt
  <2> QED BY <2>1 DEF TypeOK, Outcomes, Final
<1> QED BY <1>1, <1>2, <1>3

LEMMA DisownedType ==
  ASSUME TypeOK, NEW R, Disowned(R) PROVE asking' \in [Threads -> Jobs \cup {Nobody}]
BY DEF TypeOK, Disowned

LEMMA CalledType == ASSUME TypeOK, Called PROVE calls' \in 0..MaxCalls
<1>1. calls \in 0..MaxCalls BY DEF TypeOK
<1>2. MaxCalls \in Nat BY BoundAssumption
<1>3. calls < MaxCalls /\ calls' = calls + 1 BY DEF Called
<1> QED BY <1>1, <1>2, <1>3

LEMMA HeldInJobs == ASSUME NEW doomed PROVE HeldIn(doomed) \in SUBSET Jobs
BY DEF HeldIn

LEMMA TreeThreads == ASSUME NEW t \in Threads PROVE Tree(t) \in SUBSET Threads
BY DEF Tree

LEMMA CancelTreeType ==
  ASSUME TypeOK, NEW t \in Threads, CancelTree(t), calls' \in 0..MaxCalls, cancelling' \subseteq Jobs
  PROVE  TypeOK'
<1> DEFINE R == HeldIn(Tree(t))
           out == [j \in R |-> "cancelled"]
<1>1. Halt(Tree(t), "cancelled") /\ Conclude(out, R) /\ Disowned(R)
      /\ UNCHANGED <<thread, replyTo, turn, posting, memory, returns, history>>
  BY DEF CancelTree
<1>2. R \in SUBSET Jobs /\ out \in [R -> Outcomes] BY HeldInJobs DEF Outcomes, Final
<1> HIDE DEF R, out
<1>3. /\ state' \in [Jobs -> {"none", "pending", "held", "done", "failed", "cancelled"}]
      /\ outcome' \in [Jobs -> Outcomes \cup {"none"}]
      /\ stage' \in [Jobs -> {"no", "rooting", "replying"}]
      /\ slot' \in [Jobs -> Waits \cup {Nobody}]
      /\ waits' \in [Waits -> [job : Jobs \cup {Nobody},
                               went : {"idle", "waiting", "told", "late", "gave up"}]]
  BY <1>1, <1>2, ConcludeType
<1>4. /\ signal' \in [Threads -> {"live", "stopped", "cancelled"}]
      /\ mailbox' \in [Threads -> Seq(Jobs \cup {Note})]
      /\ ended' \in [Jobs -> Outcomes \cup {"none"}]
  BY <1>1, TreeThreads, HaltType
<1>5. asking' \in [Threads -> Jobs \cup {Nobody}] BY <1>1, DisownedType
<1> QED BY <1>1, <1>3, <1>4, <1>5 DEF TypeOK, memory, history

LEMMA StopType ==
  ASSUME TypeOK, NEW t \in Threads, NEW doomed \in SUBSET Threads, Stop(t, doomed)
  PROVE  TypeOK'
<1> DEFINE unheard == {j \in Jobs : replyTo[j] \in doomed}
           mute == {j \in unheard : state[j] = "pending" /\ thread[j] \in doomed}
           R == HeldIn(doomed)
           out == [j \in R |-> IF j \in unheard THEN "cancelled" ELSE "stopped"]
           gone == mute \cup (R \cap unheard)
<1>1. /\ Called /\ Halt(doomed, "stopped") /\ Conclude(out, gone) /\ Disowned(R)
      /\ hushed' = hushed \cup {j \in mute : stage[j] = "no"} \cup (R \cap unheard)
      /\ UNCHANGED <<thread, replyTo, cancelling, turn, posting, memory, returns, replied>>
  BY DEF Stop
<1>2. R \in SUBSET Jobs /\ out \in [R -> Outcomes] /\ gone \in SUBSET Jobs
  BY HeldInJobs DEF Outcomes, Final
<1>3. hushed' \subseteq Jobs BY <1>1, <1>2 DEF TypeOK
<1> HIDE DEF R, out, gone, mute, unheard
<1>4. /\ state' \in [Jobs -> {"none", "pending", "held", "done", "failed", "cancelled"}]
      /\ outcome' \in [Jobs -> Outcomes \cup {"none"}]
      /\ stage' \in [Jobs -> {"no", "rooting", "replying"}]
      /\ slot' \in [Jobs -> Waits \cup {Nobody}]
      /\ waits' \in [Waits -> [job : Jobs \cup {Nobody},
                               went : {"idle", "waiting", "told", "late", "gave up"}]]
  BY <1>1, <1>2, ConcludeType
<1>5. /\ signal' \in [Threads -> {"live", "stopped", "cancelled"}]
      /\ mailbox' \in [Threads -> Seq(Jobs \cup {Note})]
      /\ ended' \in [Jobs -> Outcomes \cup {"none"}]
  BY <1>1, HaltType
<1>6. asking' \in [Threads -> Jobs \cup {Nobody}] /\ calls' \in 0..MaxCalls
  BY <1>1, DisownedType, CalledType
<1> QED BY <1>1, <1>3, <1>4, <1>5, <1>6 DEF TypeOK, memory

LEMMA CancelJobType == ASSUME TypeOK, NEW j \in Jobs, CancelJob(j), thread[j] \in Threads PROVE TypeOK'
<1>0. TypeOK OBVIOUS
<1>1. calls' \in 0..MaxCalls BY CalledType DEF CancelJob
<1>2. UNCHANGED <<thread, replyTo, turn, signal, posting, returns, history>> BY DEF CancelJob
<1>3. CASE state[j] = "held"
  <2> DEFINE out == [k \in {j} |-> "cancelled"]
  <2>1. Conclude(out, {j}) /\ Disowned({asking[thread[j]]}) /\ UNCHANGED <<ended, cancelling, mailbox, memory>>
    BY <1>3 DEF CancelJob
  <2>2. out \in [{j} -> Outcomes] /\ {j} \in SUBSET Jobs BY DEF Outcomes, Final
  <2> HIDE DEF out
  <2>3. /\ state' \in [Jobs -> {"none", "pending", "held", "done", "failed", "cancelled"}]
        /\ outcome' \in [Jobs -> Outcomes \cup {"none"}]
        /\ stage' \in [Jobs -> {"no", "rooting", "replying"}]
        /\ slot' \in [Jobs -> Waits \cup {Nobody}]
        /\ waits' \in [Waits -> [job : Jobs \cup {Nobody},
                                 went : {"idle", "waiting", "told", "late", "gave up"}]]
    BY <2>1, <2>2, ConcludeType
  <2>4. asking' \in [Threads -> Jobs \cup {Nobody}] BY <2>1, DisownedType
  <2> QED BY <1>1, <1>2, <2>1, <2>3, <2>4 DEF TypeOK, memory, history
<1>4. CASE state[j] # "held"
  <2>1. /\ state' = [state EXCEPT ![j] = "cancelled"] /\ Get(thread[j])
        /\ UNCHANGED <<outcome, slot, stage, waits, asking>>
    BY <1>4 DEF CancelJob
  <2>2. CASE j \in Inbox(thread[j])
    <3>1. Withdraw(j) /\ UNCHANGED cancelling BY <1>4, <2>2 DEF CancelJob
    <3>2. PICK i \in DOMAIN mailbox[thread[j]] :
             mailbox' = [mailbox EXCEPT ![thread[j]] = RemoveAt(mailbox[thread[j]], i)]
      BY <3>1 DEF Withdraw
    <3>3. RemoveAt(mailbox[thread[j]], i) \in Seq(Jobs \cup {Note})
      <4>1. mailbox[thread[j]] \in Seq(Jobs \cup {Note}) BY DEF TypeOK
      <4> QED BY <3>2, <4>1 DEF RemoveAt
    <3>4. mailbox' \in [Threads -> Seq(Jobs \cup {Note})]
      <4>1. mailbox \in [Threads -> Seq(Mail)] BY DEF TypeOK, Mail
      <4>2. mailbox' \in [Threads -> Seq(Mail)] BY <3>2, <3>3, <4>1 DEF Mail
      <4> QED BY <4>2 DEF Mail
    <3>5. ended' \in [Jobs -> Outcomes \cup {"none"}]
      <4>1. PICK told \in {"withdrawn", ended[j]} : ended' = [ended EXCEPT ![j] = told]
        BY <3>1 DEF Withdraw
      <4> QED BY <1>0, <4>1 DEF TypeOK, Outcomes, Final
    <3> QED BY <1>1, <1>2, <2>1, <3>1, <3>4, <3>5, GetKeeps DEF TypeOK, history
  <2>3. CASE j \notin Inbox(thread[j])
    <3>1. cancelling' = cancelling \cup {j} /\ UNCHANGED <<mailbox, ended>> BY <1>4, <2>3 DEF CancelJob
    <3> QED BY <1>1, <1>2, <2>1, <3>1, GetKeeps DEF TypeOK, history
  <2> QED BY <2>2, <2>3
<1> QED BY <1>3, <1>4

LEMMA ReplyType == ASSUME IInv, NEW j \in Jobs, Reply(j) PROVE TypeOK'
<1> DEFINE to == replyTo[j]
<1>0. TypeOK BY DEF IInv
<1>1. stage[j] = "replying" /\ outcome[j] # "none" /\ state[j] # "none" /\ to \in Threads
  BY DEF Reply, IInv, Rest, Heeded, Hearing, Concluded, Final
<1>2. /\ stage' = [stage EXCEPT ![j] = "no"] /\ replied' = [replied EXCEPT ![j] = @ + 1]
      /\ UNCHANGED <<outcome, slot, ended, cancelling, turn, signal, asking, hushed, waits, calls>>
  BY DEF Reply
<1>3. stage' \in [Jobs -> {"no", "rooting", "replying"}] /\ replied' \in [Jobs -> Nat]
  <2>1. stage \in [Jobs -> {"no", "rooting", "replying"}] /\ replied \in [Jobs -> Nat]
    BY <1>0 DEF TypeOK
  <2>2. replied[j] + 1 \in Nat BY <2>1
  <2> QED BY <1>2, <2>1, <2>2
<1>4. CASE returns[to] = Nobody
  <2>1. Get(to) /\ Deposit(to, Note) /\ UNCHANGED <<state, thread, replyTo, returns>>
    BY <1>4 DEF Reply
  <2>2. mailbox' \in [Threads -> Seq(Jobs \cup {Note})] /\ posting' \subseteq Threads
    BY <1>0, <1>1, <2>1, DepositType DEF Mail
  <2> QED BY <1>0, <1>1, <1>2, <1>3, <2>1, <2>2, GetKeeps DEF TypeOK
<1>5. CASE returns[to] # Nobody
  <2>1. PICK k \in Jobs : Asked(k, to, returns[to]) BY <1>5 DEF Reply
  <2>2. returns[to] \in Threads BY <1>0, <1>1, <1>5 DEF TypeOK
  <2>3. /\ state' \in [Jobs -> {"none", "pending", "held", "done", "failed", "cancelled"}]
        /\ thread' \in [Jobs -> Threads \cup {Nobody}]
        /\ replyTo' \in [Jobs -> Threads \cup {Nobody}]
        /\ returns' \in [Threads -> Threads \cup {Nobody}]
        /\ live' \subseteq Threads /\ posting' \subseteq Threads
        /\ held' \in [Threads -> BOOLEAN] /\ parked' \in [Threads -> BOOLEAN]
        /\ forgotten' \subseteq Threads /\ doubled' \subseteq Threads
        /\ mailbox' \in [Threads -> Seq(Jobs \cup {Note})]
    BY <1>0, <1>1, <2>1, <2>2, AskedType
  <2> QED BY <1>0, <1>2, <1>3, <2>3 DEF TypeOK
<1> QED BY <1>4, <1>5

(* What of a turn ends, and how.                                           *)
LEMMA EndDoes ==
  ASSUME TypeOK, NEW t \in Threads, NEW what \in {"answer", "held", "failed"}, End(t, what)
  PROVE  \E done \in SUBSET turn[t], told \in SUBSET turn[t], kept \in BOOLEAN, came \in Outcomes :
           /\ told \subseteq done
           /\ t \notin doubled => done = turn[t] /\ told = turn[t]
           /\ ended' = [j \in Jobs |-> IF j \in told THEN came ELSE ended[j]]
           /\ turn' = [turn EXCEPT ![t] = turn[t] \ done]
           /\ parked' = [parked EXCEPT ![t] = (parked[t] \/ (what = "held" /\ kept))]
<1> DEFINE Came == IF what # "failed" THEN {what}
                   ELSE IF t \in doubled THEN {"failed", "stopped", "cancelled"}
                   ELSE IF signal[t] # "live" THEN {signal[t]} ELSE {what}
<1>1. Came \subseteq Outcomes BY DEF TypeOK, Outcomes, Final
<1>2. PICK done \in SUBSET turn[t] \ {{}} : \E told \in SUBSET done : \E kept \in BOOLEAN :
        /\ t \notin doubled => done = turn[t] /\ told = done /\ kept
        /\ \E came \in Came : ended' = [j \in Jobs |-> IF j \in told THEN came ELSE ended[j]]
        /\ turn' = [turn EXCEPT ![t] = turn[t] \ done]
        /\ parked' = [parked EXCEPT ![t] = (parked[t] \/ (what = "held" /\ kept))]
  BY DEF End
<1> HIDE DEF Came
<1>3. PICK told \in SUBSET done, kept \in BOOLEAN :
        /\ t \notin doubled => done = turn[t] /\ told = done /\ kept
        /\ \E came \in Came : ended' = [j \in Jobs |-> IF j \in told THEN came ELSE ended[j]]
        /\ turn' = [turn EXCEPT ![t] = turn[t] \ done]
        /\ parked' = [parked EXCEPT ![t] = (parked[t] \/ (what = "held" /\ kept))]
  BY <1>2
<1>4. PICK came \in Came : ended' = [j \in Jobs |-> IF j \in told THEN came ELSE ended[j]] BY <1>3
<1> WITNESS done \in SUBSET turn[t]
<1>5. told \in SUBSET turn[t] OBVIOUS
<1> WITNESS told \in SUBSET turn[t]
<1> WITNESS kept \in BOOLEAN
<1>6. came \in Outcomes BY <1>1
<1> WITNESS came \in Outcomes
<1> QED BY <1>3, <1>4

LEMMA TurnType ==
  ASSUME IInv, NEW t \in Threads,
         Start(t) \/ Begin(t) \/ Steer(t) \/ \E what \in {"answer", "held", "failed"} : End(t, what)
  PROVE  TypeOK'
<1>0. TypeOK /\ mailbox \in [Threads -> Seq(Mail)] /\ mailbox[t] \in Seq(Mail)
  BY DEF IInv, TypeOK, Mail
<1>4. CASE Start(t)
  BY <1>0, <1>4 DEF Start, TypeOK, jobs, memory, routes, history
<1>1. CASE Begin(t)
  <2>1. /\ mailbox[t] # <<>> /\ turn' = [turn EXCEPT ![t] = turn[t] \cup {Head(mailbox[t])}]
        /\ mailbox' = [mailbox EXCEPT ![t] = Tail(mailbox[t])]
    BY <1>1 DEF Begin
  <2>2. Head(mailbox[t]) \in Mail /\ Tail(mailbox[t]) \in Seq(Mail) BY <1>0, <2>1
  <2>3. mailbox' \in [Threads -> Seq(Mail)] /\ turn' \in [Threads -> SUBSET Mail]
    <3>1. turn \in [Threads -> SUBSET Mail] BY <1>0 DEF TypeOK, Mail
    <3>2. turn[t] \cup {Head(mailbox[t])} \in SUBSET Mail BY <2>2, <3>1
    <3> QED BY <1>0, <2>1, <2>2, <3>1, <3>2
  <2>4. /\ live' \subseteq Threads /\ held' \in [Threads -> BOOLEAN] /\ parked' \in [Threads -> BOOLEAN]
        /\ forgotten' \subseteq Threads /\ doubled' \subseteq Threads
    <3>1. CASE t \in live
      <4>1. held' = [held EXCEPT ![t] = FALSE] /\ UNCHANGED <<live, parked, forgotten, doubled>>
        BY <1>1, <3>1 DEF Begin
      <4> QED BY <1>0, <4>1 DEF TypeOK
    <3>2. CASE t \notin live
      <4>1. Get(t) BY <1>1, <3>2 DEF Begin
      <4> QED BY <1>0, <4>1, GetKeeps
    <3> QED BY <3>1, <3>2
  <2> QED BY <1>0, <1>1, <2>3, <2>4 DEF Begin, TypeOK, Mail, jobs, routes, history
<1>2. CASE Steer(t)
  <2>1. /\ turn' = [turn EXCEPT ![t] = @ \cup ToSet(mailbox[t])]
        /\ mailbox' = [mailbox EXCEPT ![t] = <<>>]
    BY <1>2 DEF Steer
  <2>2. ToSet(mailbox[t]) \subseteq Mail /\ <<>> \in Seq(Mail) BY <1>0, EmptySeq DEF ToSet
  <2>3. mailbox' \in [Threads -> Seq(Mail)] /\ turn' \in [Threads -> SUBSET Mail]
    BY <1>0, <2>1, <2>2 DEF TypeOK, Mail
  <2> QED BY <1>0, <1>2, <2>3 DEF Steer, TypeOK, Mail, jobs, memory, routes, history
<1>3. ASSUME NEW what \in {"answer", "held", "failed"}, End(t, what) PROVE TypeOK'
  <2>1. PICK done \in SUBSET turn[t], told \in SUBSET turn[t], kept \in BOOLEAN, came \in Outcomes :
           /\ told \subseteq done
           /\ t \notin doubled => done = turn[t] /\ told = turn[t]
           /\ ended' = [j \in Jobs |-> IF j \in told THEN came ELSE ended[j]]
           /\ turn' = [turn EXCEPT ![t] = turn[t] \ done]
           /\ parked' = [parked EXCEPT ![t] = (parked[t] \/ (what = "held" /\ kept))]
    <3>1. TypeOK BY <1>0
    <3> QED BY ONLY <1>3, <3>1, EndDoes, t \in Threads, what \in {"answer", "held", "failed"}
  <2>3. ended' \in [Jobs -> Outcomes \cup {"none"}] BY <1>0, <2>1 DEF TypeOK
  <2>4. /\ turn' \in [Threads -> SUBSET (Jobs \cup {Note})]
        /\ signal' \in [Threads -> {"live", "stopped", "cancelled"}]
    BY <1>0, <1>3, <2>1 DEF End, TypeOK
  <2>5. held' \in [Threads -> BOOLEAN]
    <3>1. held' = [held EXCEPT ![t] = (what = "held" /\ t \notin doubled)] BY <1>3 DEF End
    <3> QED BY <1>0, <3>1 DEF TypeOK
  <2>6. parked' \in [Threads -> BOOLEAN] BY <1>0, <2>1 DEF TypeOK
  <2>7. /\ UNCHANGED <<state, thread, replyTo, outcome, slot, stage, cancelling>>
        /\ UNCHANGED <<mailbox, posting, live, forgotten, doubled, asking, returns, replied, hushed, waits, calls>>
    BY <1>3 DEF End, routes, history
  <2> QED BY <1>0, <2>3, <2>4, <2>5, <2>6, <2>7 DEF TypeOK
<1> QED BY <1>1, <1>2, <1>3, <1>4

LEMMA SettleType ==
  ASSUME IInv, NEW j \in Jobs, Settle(j) \/ Rooted(j) PROVE TypeOK'
<1>0. TypeOK BY DEF IInv
<1>1. ASSUME NEW what \in Outcomes, Conclude([k \in {j} |-> what], {})
      PROVE  /\ state' \in [Jobs -> {"none", "pending", "held", "done", "failed", "cancelled"}]
             /\ outcome' \in [Jobs -> Outcomes \cup {"none"}]
             /\ stage' \in [Jobs -> {"no", "rooting", "replying"}]
             /\ slot' \in [Jobs -> Waits \cup {Nobody}]
             /\ waits' \in [Waits -> [job : Jobs \cup {Nobody},
                                      went : {"idle", "waiting", "told", "late", "gave up"}]]
  <2> DEFINE out == [k \in {j} |-> what]
  <2>1. out \in [{j} -> Outcomes] /\ {j} \in SUBSET Jobs /\ {} \in SUBSET Jobs OBVIOUS
  <2>2. Conclude(out, {}) BY <1>1
  <2> HIDE DEF out
  <2> QED BY <1>0, <2>1, <2>2, ConcludeType
<1>2. CASE Settle(j)
  <2>1. ended' = [ended EXCEPT ![j] = "none"] /\ ended[j] \in Outcomes
        /\ UNCHANGED <<thread, replyTo, cancelling, places, memory, routes, history, calls>>
    BY <1>0, <1>2 DEF Settle, TypeOK
  <2>2. \/ stage' = [stage EXCEPT ![j] = "rooting"] /\ UNCHANGED <<state, outcome, slot, waits>>
        \/ Conclude([k \in {j} |-> ended[j]], {})
    BY <1>2 DEF Settle
  <2>3. /\ state' \in [Jobs -> {"none", "pending", "held", "done", "failed", "cancelled"}]
        /\ outcome' \in [Jobs -> Outcomes \cup {"none"}]
        /\ stage' \in [Jobs -> {"no", "rooting", "replying"}]
        /\ slot' \in [Jobs -> Waits \cup {Nobody}]
        /\ waits' \in [Waits -> [job : Jobs \cup {Nobody},
                                 went : {"idle", "waiting", "told", "late", "gave up"}]]
    BY <1>0, <1>1, <2>1, <2>2 DEF TypeOK
  <2> QED BY <1>0, <2>1, <2>3 DEF TypeOK, places, memory, routes, history
<1>3. CASE Rooted(j)
  <2>1. UNCHANGED <<thread, replyTo, ended, cancelling, places, memory, returns, history, calls>>
    BY <1>3 DEF Rooted
  <2>2. \/ Conclude([k \in {j} |-> "held"], {}) /\ UNCHANGED asking
        \/ /\ stage' = [stage EXCEPT ![j] = "no"] /\ state' = [state EXCEPT ![j] = "held"]
           /\ asking' = [asking EXCEPT ![thread[j]] = j] /\ UNCHANGED <<outcome, slot, waits>>
    BY <1>3 DEF Rooted
  <2>3. /\ state' \in [Jobs -> {"none", "pending", "held", "done", "failed", "cancelled"}]
        /\ outcome' \in [Jobs -> Outcomes \cup {"none"}]
        /\ stage' \in [Jobs -> {"no", "rooting", "replying"}]
        /\ slot' \in [Jobs -> Waits \cup {Nobody}]
        /\ waits' \in [Waits -> [job : Jobs \cup {Nobody},
                                 went : {"idle", "waiting", "told", "late", "gave up"}]]
        /\ asking' \in [Threads -> Jobs \cup {Nobody}]
    <3>1. "held" \in Outcomes BY DEF Outcomes
    <3>2. CASE Conclude([k \in {j} |-> "held"], {}) /\ UNCHANGED asking
      <4>1. asking' \in [Threads -> Jobs \cup {Nobody}] BY <1>0, <3>2 DEF TypeOK
      <4> QED BY <1>1, <3>1, <3>2, <4>1
    <3>3. CASE /\ stage' = [stage EXCEPT ![j] = "no"] /\ state' = [state EXCEPT ![j] = "held"]
               /\ asking' = [asking EXCEPT ![thread[j]] = j] /\ UNCHANGED <<outcome, slot, waits>>
      BY <1>0, <3>3 DEF TypeOK
    <3> QED BY <2>2, <3>2, <3>3
  <2> QED BY <1>0, <2>1, <2>3 DEF TypeOK, places, memory, history
<1> QED BY <1>2, <1>3

LEMMA WaitType == ASSUME IInv, NEW w \in Waits, NEW j \in Jobs, Wait(w, j) PROVE TypeOK'
<1>1. TypeOK /\ waits \in [Waits -> Call] BY DEF IInv, TypeOK, Call
<1>2. \A went \in {"late", "waiting"} : [job |-> j, went |-> went] \in Call BY DEF Call
<1>3. waits' \in [Waits -> Call] /\ slot' \in [Jobs -> Waits \cup {Nobody}]
  BY <1>1, <1>2 DEF Wait, TypeOK
<1> QED BY <1>1, <1>3 DEF Wait, TypeOK, Call, places, memory, routes, history

LEMMA GiveUpType == ASSUME IInv, NEW w \in Waits, GiveUp(w) PROVE TypeOK'
<1>1. TypeOK /\ waits \in [Waits -> Call] /\ waits[w] \in Call BY DEF IInv, TypeOK, Call
<1>2. [waits[w] EXCEPT !.went = "gave up"] \in Call BY <1>1, CallGoes
<1>3. waits' = [waits EXCEPT ![w] = [waits[w] EXCEPT !.went = "gave up"]]
      /\ slot' = [slot EXCEPT ![waits[w].job] = Nobody]
  BY DEF GiveUp
<1>4. waits' \in [Waits -> Call] BY <1>1, <1>2, <1>3
<1>5. slot' \in [Jobs -> Waits \cup {Nobody}] BY <1>1, <1>3 DEF TypeOK
<1> QED BY <1>1, <1>4, <1>5 DEF GiveUp, TypeOK, Call, places, memory, routes, history

LEMMA NextType == ASSUME IInv, [Next]_vars PROVE TypeOK'
<1>0. TypeOK BY DEF IInv
<1>1. CASE UNCHANGED vars
  BY <1>0, <1>1 DEF vars, jobs, places, memory, routes, history, TypeOK
<1>2. ASSUME NEW j \in Jobs, Settle(j) \/ Rooted(j) PROVE TypeOK' BY <1>2, SettleType
<1>3. ASSUME NEW j \in Jobs, Reply(j) PROVE TypeOK' BY <1>3, ReplyType
<1>4. ASSUME NEW j \in Jobs, CancelRunning(j) PROVE TypeOK'
  <2>1. thread[j] \in Threads BY <1>4 DEF CancelRunning, IInv, Rest, Cancels, Heeded, Concluded
  <2>2. CancelTree(thread[j]) /\ cancelling' = cancelling \ {j} /\ calls' = calls
    BY <1>4 DEF CancelRunning
  <2>3. calls' \in 0..MaxCalls /\ cancelling' \subseteq Jobs BY <1>0, <2>2 DEF TypeOK
  <2> QED BY <1>0, <2>1, <2>2, <2>3, CancelTreeType
<1>5. ASSUME NEW j \in Jobs, CancelJob(j) PROVE TypeOK'
  <2>1. thread[j] \in Threads BY <1>5 DEF CancelJob, IInv, Rest, Heeded, Concluded
  <2> QED BY <1>0, <1>5, <2>1, CancelJobType
<1>6. ASSUME NEW j \in Jobs, NEW t \in Threads, Ask(j, t) PROVE TypeOK'
  <2>1. Parent[t] \in Threads /\ Asked(j, t, Parent[t])
    BY <1>6, ParentAssumption DEF Ask, Root
  <2> QED BY <1>0, <1>6, <2>1, AskedType DEF Ask, TypeOK, history
<1>7. ASSUME NEW t \in Threads, Work(t) \/ Steer(t) PROVE TypeOK' BY <1>7, TurnType DEF Work
<1>8. ASSUME NEW t \in Threads, Post(t) PROVE TypeOK'
  <2>1. Get(t) /\ Deposit(t, Note) /\ Called BY <1>8 DEF Post
  <2>2. mailbox' \in [Threads -> Seq(Jobs \cup {Note})] /\ posting' \subseteq Threads
    BY <1>0, <2>1, DepositType DEF Mail
  <2> QED BY <1>0, <1>8, <2>1, <2>2, GetKeeps, CalledType DEF Post, TypeOK, jobs, routes, history
<1>9. ASSUME NEW t \in Threads, Answer(t) PROVE TypeOK'
  <2>1. parked' \in [Threads -> BOOLEAN]
    <3>1. PICK again \in BOOLEAN : parked' = [parked EXCEPT ![t] = again] BY <1>9 DEF Answer
    <3> QED BY <1>0, <3>1 DEF TypeOK
  <2>2. /\ asking' \in [Threads -> Jobs \cup {Nobody}]
        /\ state' \in [Jobs -> {"none", "pending", "held", "done", "failed", "cancelled"}]
    <3>1. /\ asking \in [Threads -> Jobs \cup {Nobody}]
          /\ state \in [Jobs -> {"none", "pending", "held", "done", "failed", "cancelled"}]
      BY <1>0 DEF TypeOK
    <3>2. \/ /\ asking' = [asking EXCEPT ![t] = Nobody]
             /\ state' = [state EXCEPT ![asking[t]] = "pending"]
          \/ UNCHANGED <<asking, state>>
      BY <1>9 DEF Answer
    <3> QED BY <3>1, <3>2
  <2>3. PICK e \in Mail : Deposit(t, e)
    <3>1. asking[t] \in Jobs \cup {Nobody} BY <1>0 DEF TypeOK
    <3> QED BY <1>9, <3>1 DEF Answer, Mail
  <2>4. mailbox' \in [Threads -> Seq(Jobs \cup {Note})] /\ posting' \subseteq Threads
    BY <1>0, <2>3, DepositType
  <2>5. /\ UNCHANGED <<thread, replyTo, outcome, slot, ended, stage, cancelling, turn>>
        /\ UNCHANGED <<signal, live, held, forgotten, doubled, returns, replied, hushed, waits>>
    BY <1>9 DEF Answer, history
  <2>6. calls' \in 0..MaxCalls BY <1>0, <1>9, CalledType DEF Answer
  <2> QED BY <1>0, <2>1, <2>2, <2>4, <2>5, <2>6 DEF TypeOK
<1>10. ASSUME NEW t \in Threads, CancelThread(t) PROVE TypeOK'
  <2>1. CancelTree(t) /\ cancelling' = cancelling /\ Called BY <1>10 DEF CancelThread
  <2>2. calls' \in 0..MaxCalls /\ cancelling' \subseteq Jobs BY <1>0, <2>1, CalledType DEF TypeOK
  <2> QED BY <1>0, <2>1, <2>2, CancelTreeType
<1>11. ASSUME NEW t \in Threads, NEW doomed \in {{t}, Tree(t)}, Stop(t, doomed) PROVE TypeOK'
  <2>1. doomed \in SUBSET Threads BY <1>11, TreeThreads
  <2> QED BY <1>0, <1>11, <2>1, StopType
<1>12. ASSUME NEW w \in Waits, NEW j \in Jobs, Wait(w, j) PROVE TypeOK' BY <1>12, WaitType
<1>13. ASSUME NEW w \in Waits, GiveUp(w) PROVE TypeOK' BY <1>13, GiveUpType
<1> QED BY <1>1, <1>2, <1>3, <1>4, <1>5, <1>6, <1>7, <1>8, <1>9, <1>10, <1>11, <1>12, <1>13
        DEF Next, Continue

-----------------------------------------------------------------------------
(* What a step that leaves some of it alone keeps.                         *)
LEMMA HeededSame ==
  ASSUME Heeded, UNCHANGED <<state, thread, replyTo, outcome, stage, slot, waits, replied, hushed>>
  PROVE  Heeded'
<1> SUFFICES ASSUME NEW j \in Jobs PROVE Concluded(j)' /\ Hearing(j)' BY DEF Heeded
<1>1. Concluded(j) /\ Hearing(j) BY DEF Heeded
<1>2. Told(j)' <=> Told(j) BY DEF Told
<1> QED BY <1>1, <1>2 DEF Concluded, Hearing

LEMMA AskingSame ==
  ASSUME AskingIsHeld, UNCHANGED <<asking, thread, state, outcome>> PROVE AskingIsHeld'
BY DEF AskingIsHeld

LEMMA BoxSame ==
  ASSUME UNCHANGED mailbox PROVE Box' = Box /\ (Boxed => Boxed')
BY DEF Box, Inbox, Boxed

(* A step changes a job's place as it changes each of what tells it.       *)
LEMMA PlaceSame ==
  ASSUME NEW j \in Jobs, Place(j), Mailed(j)' <=> Mailed(j), Turning(j)' <=> Turning(j),
         ended'[j] = ended[j], stage'[j] = "rooting" <=> stage[j] = "rooting",
         state'[j] = state[j], outcome'[j] = outcome[j],
         thread[j] \in doubled => thread'[j] \in doubled'
  PROVE  Place(j)'
BY DEF Place, Parked

-----------------------------------------------------------------------------
(* What a thread asks for, by AskingIsHeld. *)
LEMMA AskedFor ==
  ASSUME IInv, NEW t \in Threads, asking[t] # Nobody
  PROVE  /\ asking[t] \in Jobs /\ thread[asking[t]] = t
         /\ state[asking[t]] = "held" /\ outcome[asking[t]] = "none"
<1>1. asking \in [Threads -> Jobs \cup {Nobody}] BY DEF IInv, TypeOK
<1>2. AskingIsHeld BY DEF IInv, Rest
<1> QED BY <1>1, <1>2 DEF AskingIsHeld

(* A job that is asked is in its thread's mailbox.                         *)
LEMMA AskedPlaces ==
  ASSUME IInv, NEW j \in Jobs, NEW t \in Threads, NEW back \in Threads, Asked(j, t, back),
         UNCHANGED <<outcome, ended, cancelling, turn, asking>>,
         \A k \in Jobs : stage'[k] = "rooting" <=> stage[k] = "rooting"
  PROVE  Boxed' /\ Within' /\ Placed' /\ AskingIsHeld' /\ Cancels'
<1>0. TypeOK /\ Boxed /\ Within /\ Placed /\ Heeded /\ AskingIsHeld /\ Cancels BY DEF IInv, Rest
<1>1. /\ state[j] = "none" /\ state' = [state EXCEPT ![j] = "pending"]
      /\ thread' = [thread EXCEPT ![j] = t] /\ Get(t) /\ Deposit(t, j)
  BY DEF Asked
<1>2. /\ state'[j] = "pending" /\ thread'[j] = t
      /\ \A k \in Jobs : k # j => state'[k] = state[k] /\ thread'[k] = thread[k]
      /\ doubled \subseteq doubled'
  BY <1>0, <1>1, GetKeeps DEF TypeOK
<1>3. Place(j) /\ ~Mailed(j) /\ ~Turning(j) /\ ended[j] = "none" /\ stage[j] # "rooting" /\ outcome[j] = "none"
  <2>1. Place(j) BY <1>0 DEF Placed
  <2>2. outcome[j] = "none" BY <1>0, <1>1 DEF Heeded, Concluded
  <2> QED BY <1>1, <2>1, <2>2 DEF Place
<1>4. /\ Boxed'
      /\ \A x \in Threads : Box'[x] = IF x = t THEN Box[x] \cup ({j} \ {Note}) ELSE Box[x]
  <2>1. j \notin Box[t] /\ j \in Mail BY <1>3 DEF Mailed, Mail
  <2> QED BY <1>0, <1>1, <2>1, DepositKeeps
<1>5. \A x \in Threads : Box'[x] = IF x = t THEN Box[x] \cup {j} ELSE Box[x]
  BY <1>4, NotNobody
<1>6. Within'
  <2> SUFFICES ASSUME NEW x \in Threads, NEW k \in Jobs, k \in Box'[x] \/ k \in turn'[x]
               PROVE  x = thread'[k] /\ x \in live' \cup doubled'
    BY DEF Within
  <2>1. CASE k = j
    <3>1. x = t BY <1>3, <1>5, <2>1 DEF Mailed, Turning
    <3> QED BY <1>0, <1>1, <1>2, <2>1, <3>1, GetKeeps
  <2>2. CASE k # j
    <3>1. k \in Box[x] \/ k \in turn[x] BY <1>5, <2>2
    <3> QED BY <1>1, <1>2, <2>2, <3>1, MailStays
  <2> QED BY <2>1, <2>2
<1>7. Placed'
  <2> SUFFICES ASSUME NEW k \in Jobs PROVE Place(k)' BY DEF Placed
  <2>1. Place(k) BY <1>0 DEF Placed
  <2>2. Turning(k)' <=> Turning(k) BY DEF Turning
  <2>3. CASE k = j
    <3>1. Mailed(k)' BY <1>5, <2>3 DEF Mailed
    <3> QED BY <1>2, <1>3, <2>2, <2>3, <3>1 DEF Place, Parked
  <2>4. CASE k # j
    <3>1. Mailed(k)' <=> Mailed(k) BY <1>5, <2>4 DEF Mailed
    <3> QED BY <1>2, <2>1, <2>2, <2>4, <3>1, PlaceSame
  <2> QED BY <2>3, <2>4
<1>8. AskingIsHeld'
  <2>1. \A x \in Threads : asking[x] # Nobody => asking[x] \in Jobs /\ asking[x] # j
    BY <1>1, AskedFor
  <2> QED BY <1>0, <1>2, <2>1 DEF AskingIsHeld
<1>9. Cancels' BY <1>0, <1>2 DEF Cancels, TypeOK
<1> QED BY <1>4, <1>6, <1>7, <1>8, <1>9

(* What is posted without a job changes the place of none.                 *)
LEMMA NotePlaces ==
  ASSUME IInv, NEW t \in Threads, Get(t) \/ (live' = live /\ doubled' = doubled), Deposit(t, Note),
         UNCHANGED <<state, thread, outcome, ended, cancelling, turn, asking>>,
         \A k \in Jobs : stage'[k] = "rooting" <=> stage[k] = "rooting"
  PROVE  Boxed' /\ Within' /\ Placed' /\ AskingIsHeld' /\ Cancels'
<1>0. TypeOK /\ Boxed /\ Within /\ Placed /\ AskingIsHeld /\ Cancels BY DEF IInv, Rest
<1>1. Boxed' /\ \A x \in Threads : Box'[x] = Box[x]
  <2>1. Note \in Mail /\ Note \notin Box[t] BY <1>0, BoxType, NotNobody DEF Mail
  <2>2. Boxed' /\ \A x \in Threads : Box'[x] = IF x = t THEN Box[x] \cup ({Note} \ {Note}) ELSE Box[x]
    BY <1>0, <2>1, DepositKeeps
  <2> QED BY <2>2
<1>2. Within'
  <2>1. \A x \in Threads, k \in Jobs : k \in Box[x] \/ k \in turn[x] =>
            x = thread[k] /\ x \in live' \cup doubled'
    BY <1>0, MailStays DEF Within
  <2> QED BY <1>1, <2>1 DEF Within
<1>3. Placed'
  <2> SUFFICES ASSUME NEW k \in Jobs PROVE Place(k)' BY DEF Placed
  <2>1. Place(k) BY <1>0 DEF Placed
  <2>2. (Turning(k)' <=> Turning(k)) /\ (Mailed(k)' <=> Mailed(k)) BY <1>1 DEF Turning, Mailed
  <2>3. doubled \subseteq doubled' BY <1>0, GetKeeps
  <2> QED BY <2>1, <2>2, <2>3, PlaceSame
<1>4. AskingIsHeld' /\ Cancels' BY <1>0, AskingSame DEF Cancels
<1> QED BY <1>1, <1>2, <1>3, <1>4

(* A job that is asked is heard by nobody, and a reply is heard once.      *)
LEMMA AskedHeeds ==
  ASSUME TypeOK, Heeded, UNCHANGED <<outcome, slot, hushed, waits>>,
         \A k \in Jobs :
           \/ state'[k] = state[k] /\ thread'[k] = thread[k] /\ replyTo'[k] = replyTo[k]
           \/ state[k] = "none" /\ state'[k] = "pending" /\ thread'[k] \in Threads /\ replyTo'[k] \in Threads,
         \A k \in Jobs :
           \/ stage'[k] = stage[k] /\ replied'[k] = replied[k]
           \/ stage[k] = "replying" /\ stage'[k] = "no" /\ replied'[k] = replied[k] + 1
  PROVE  Heeded'
<1> SUFFICES ASSUME NEW k \in Jobs PROVE Concluded(k)' /\ Hearing(k)' BY DEF Heeded
<1>1. Concluded(k) /\ Hearing(k) BY DEF Heeded
<1>2. Told(k)' <=> Told(k) BY DEF Told
<1>3. CASE state[k] = "none" /\ state'[k] = "pending" /\ thread'[k] \in Threads /\ replyTo'[k] \in Threads
  <2>1. outcome[k] = "none" /\ k \notin hushed BY <1>1, <1>3 DEF Concluded, Hearing
  <2>2. stage[k] # "replying" BY <1>1, <2>1 DEF Hearing, Final
  <2>3. stage'[k] = stage[k] /\ replied'[k] = replied[k] BY <2>2
  <2> QED BY <1>1, <1>2, <1>3, <2>1, <2>3 DEF Concluded, Hearing
<1>4. CASE state'[k] = state[k] /\ thread'[k] = thread[k] /\ replyTo'[k] = replyTo[k]
  <2>1. CASE stage'[k] = stage[k] /\ replied'[k] = replied[k]
    BY <1>1, <1>2, <1>4, <2>1 DEF Concluded, Hearing
  <2>2. CASE stage[k] = "replying" /\ stage'[k] = "no" /\ replied'[k] = replied[k] + 1
    <3>1. outcome[k] \in Final /\ replied[k] = 0 /\ ~Told(k) /\ k \notin hushed
      BY <1>1, <2>2 DEF Hearing
    <3>2. replied'[k] = 1 BY <2>2, <3>1
    <3> QED BY <1>1, <1>2, <1>4, <2>2, <3>1, <3>2 DEF Concluded, Hearing
  <2> QED BY <2>1, <2>2
<1> QED BY <1>3, <1>4

(* Asked changes only the job that is new. *)
LEMMA AskedOne ==
  ASSUME TypeOK, NEW j \in Jobs, NEW t \in Threads, NEW back \in Threads, Asked(j, t, back)
  PROVE  \A k \in Jobs :
           \/ state'[k] = state[k] /\ thread'[k] = thread[k] /\ replyTo'[k] = replyTo[k]
           \/ state[k] = "none" /\ state'[k] = "pending" /\ thread'[k] \in Threads /\ replyTo'[k] \in Threads
BY DEF TypeOK, Asked

LEMMA AskKeeps == ASSUME IInv, NEW j \in Jobs, NEW t \in Threads, Ask(j, t) PROVE Rest'
<1>0. TypeOK /\ Heeded /\ Placed BY DEF IInv, Rest
<1>1. Parent[t] \in Threads /\ Asked(j, t, Parent[t])
      /\ UNCHANGED <<outcome, slot, ended, stage, cancelling, turn, signal, asking, replied, hushed, waits, calls>>
  BY ParentAssumption DEF Ask, Root, history
<1>2. Boxed' /\ Within' /\ Placed' /\ AskingIsHeld' /\ Cancels' BY <1>1, AskedPlaces
<1>3. Heeded' BY <1>0, <1>1, AskedOne, AskedHeeds
<1> QED BY <1>2, <1>3 DEF Rest

-----------------------------------------------------------------------------
(* Turns: mail is consumed, and resolved when the turn ends.               *)
LEMMA BeginKeeps == ASSUME IInv, NEW t \in Threads, Begin(t) PROVE Rest'
<1>0. TypeOK /\ Boxed /\ Within /\ Placed /\ Heeded /\ AskingIsHeld /\ Cancels BY DEF IInv, Rest
<1>1. /\ mailbox[t] # <<>>
      /\ turn' = [turn EXCEPT ![t] = turn[t] \cup {Head(mailbox[t])}]
      /\ mailbox' = [mailbox EXCEPT ![t] = Tail(mailbox[t])]
      /\ UNCHANGED <<state, thread, replyTo, outcome, slot, ended, stage, cancelling>>
      /\ UNCHANGED <<asking, replied, hushed, waits>>
      /\ Get(t) \/ UNCHANGED <<live, doubled>>
  BY DEF Begin, jobs, routes, history
<1>11. doubled \subseteq doubled' BY <1>0, <1>1, GetKeeps
<1> DEFINE e == Head(mailbox[t])
<1>2. mailbox \in [Threads -> Seq(Mail)] /\ mailbox[t] \in Seq(Mail) /\ turn \in [Threads -> SUBSET Mail]
  BY <1>0 DEF TypeOK, Mail
<1>3. /\ e \in Mail /\ e \in ToSet(mailbox[t]) /\ Tail(mailbox[t]) \in Seq(Mail)
      /\ In(Tail(mailbox[t])) = In(mailbox[t]) \ {e} /\ Once(Tail(mailbox[t]))
  BY <1>0, <1>1, <1>2, TailIn DEF Boxed
<1>4. e \in Jobs => e \in Box[t] BY <1>3, BoxIs, NotNobody DEF In
<1> HIDE DEF e
<1>5. mailbox'[t] = Tail(mailbox[t]) /\ turn'[t] = turn[t] \cup {e}
      /\ \A x \in Threads : x # t => mailbox'[x] = mailbox[x] /\ turn'[x] = turn[x]
  BY <1>1, <1>2 DEF e
<1>6. Boxed' BY <1>0, <1>3, <1>5 DEF Boxed
<1>7. \A x \in Threads : Box'[x] = IF x = t THEN Box[x] \ {e} ELSE Box[x]
  BY <1>3, <1>5, BoxIs
<1>8. Within'
  <2> SUFFICES ASSUME NEW x \in Threads, NEW k \in Jobs, k \in Box'[x] \/ k \in turn'[x]
               PROVE  x = thread[k] /\ x \in live' \cup doubled'
    BY <1>1 DEF Within
  <2>1. k \in Box[x] \/ k \in turn[x] BY <1>4, <1>5, <1>7
  <2> QED BY <1>0, <1>1, <2>1, MailStays DEF Within
<1>9. Placed'
  <2> SUFFICES ASSUME NEW k \in Jobs PROVE Place(k)' BY DEF Placed
  <2>1. Place(k) BY <1>0 DEF Placed
  <2>2. CASE k = e
    <3>1. Mailed(k) BY <1>4, <2>2 DEF Mailed
    <3>2. ~Mailed(k)' BY <1>0, <1>4, <1>7, <2>2 DEF Mailed, Within
    <3>3. Turning(k)' BY <1>5, <2>2 DEF Turning
    <3> QED BY <1>1, <2>1, <3>1, <3>2, <3>3 DEF Place, Parked
  <2>3. CASE k # e
    <3>1. Mailed(k)' <=> Mailed(k) BY <1>7, <2>3 DEF Mailed
    <3>2. Turning(k)' <=> Turning(k) BY <1>1, <1>5, <2>3 DEF Turning
    <3> QED BY <1>1, <1>11, <2>1, <3>1, <3>2, PlaceSame
  <2> QED BY <2>2, <2>3
<1>10. Heeded' /\ AskingIsHeld' /\ Cancels' BY <1>0, <1>1, HeededSame, AskingSame DEF Cancels
<1> QED BY <1>6, <1>8, <1>9, <1>10 DEF Rest

LEMMA SteerKeeps == ASSUME IInv, NEW t \in Threads, Steer(t) PROVE Rest'
<1>0. TypeOK /\ Boxed /\ Within /\ Placed /\ Heeded /\ AskingIsHeld /\ Cancels BY DEF IInv, Rest
<1>1. /\ turn' = [turn EXCEPT ![t] = turn[t] \cup ToSet(mailbox[t])]
      /\ mailbox' = [mailbox EXCEPT ![t] = <<>>]
      /\ UNCHANGED <<state, thread, replyTo, outcome, slot, ended, stage, cancelling>>
      /\ UNCHANGED <<live, doubled, asking, replied, hushed, waits>>
  BY DEF Steer, jobs, routes, history, memory
<1>2. mailbox \in [Threads -> Seq(Mail)] /\ turn \in [Threads -> SUBSET Mail]
  BY <1>0 DEF TypeOK, Mail
<1>3. mailbox'[t] = <<>> /\ turn'[t] = turn[t] \cup ToSet(mailbox[t])
      /\ \A x \in Threads : x # t => mailbox'[x] = mailbox[x] /\ turn'[x] = turn[x]
  BY <1>1, <1>2
<1>4. \A k \in Jobs : k \in ToSet(mailbox[t]) <=> k \in Box[t] BY BoxIs, NotNobody DEF In
<1>5. Boxed' BY <1>0, <1>3, NoneIn DEF Boxed
<1>6. \A x \in Threads : Box'[x] = IF x = t THEN {} ELSE Box[x] BY <1>3, BoxIs, NoneIn
<1>7. \A k \in Jobs : k \in turn'[t] <=> k \in turn[t] \/ k \in Box[t] BY <1>3, <1>4
<1>8. Within' BY <1>0, <1>1, <1>3, <1>6, <1>7 DEF Within
<1>9. Placed'
  <2> SUFFICES ASSUME NEW k \in Jobs PROVE Place(k)' BY DEF Placed
  <2>1. Place(k) BY <1>0 DEF Placed
  <2>2. CASE k \in Box[t]
    <3>1. Mailed(k) BY <2>2 DEF Mailed
    <3>2. ~Mailed(k)' BY <1>0, <1>6, <2>2 DEF Mailed, Within
    <3>3. Turning(k)' BY <1>7, <2>2 DEF Turning
    <3> QED BY <1>1, <2>1, <3>1, <3>2, <3>3 DEF Place, Parked
  <2>3. CASE k \notin Box[t]
    <3>1. Mailed(k)' <=> Mailed(k) BY <1>6, <2>3 DEF Mailed
    <3>2. Turning(k)' <=> Turning(k) BY <1>3, <1>7, <2>3 DEF Turning
    <3> QED BY <1>1, <2>1, <3>1, <3>2, PlaceSame
  <2> QED BY <2>2, <2>3
<1>10. Heeded' /\ AskingIsHeld' /\ Cancels' BY <1>0, <1>1, HeededSame, AskingSame DEF Cancels
<1> QED BY <1>5, <1>8, <1>9, <1>10 DEF Rest

LEMMA EndKeeps ==
  ASSUME IInv, NEW t \in Threads, NEW what \in {"answer", "held", "failed"}, End(t, what)
  PROVE  Rest'
<1>0. TypeOK /\ Boxed /\ Within /\ Placed /\ Heeded /\ AskingIsHeld /\ Cancels BY DEF IInv, Rest
<1>1. /\ UNCHANGED <<state, thread, replyTo, outcome, slot, stage, cancelling>>
      /\ UNCHANGED <<mailbox, live, doubled, asking, replied, hushed, waits>>
  BY DEF End, routes, history
<1>2. PICK done \in SUBSET turn[t], told \in SUBSET turn[t], kept \in BOOLEAN, came \in Outcomes :
           /\ told \subseteq done
           /\ t \notin doubled => done = turn[t] /\ told = turn[t]
           /\ ended' = [j \in Jobs |-> IF j \in told THEN came ELSE ended[j]]
           /\ turn' = [turn EXCEPT ![t] = turn[t] \ done]
           /\ parked' = [parked EXCEPT ![t] = (parked[t] \/ (what = "held" /\ kept))]
  BY <1>0, EndDoes
<1>3. came # "none" BY DEF Outcomes, Final
<1>4. turn'[t] = turn[t] \ done /\ \A x \in Threads : x # t => turn'[x] = turn[x]
  BY <1>0, <1>2 DEF TypeOK
<1>5. Boxed' /\ Box' = Box BY <1>0, <1>1, BoxSame
<1>6. Within' BY <1>0, <1>1, <1>4, <1>5 DEF Within
<1>7. Placed'
  <2> SUFFICES ASSUME NEW k \in Jobs PROVE Place(k)' BY DEF Placed
  <2>1. Place(k) BY <1>0 DEF Placed
  <2>2. Mailed(k)' <=> Mailed(k) BY <1>5 DEF Mailed
  <2>3. CASE k \in done
    <3>1. Turning(k) BY <2>3 DEF Turning
    <3>2. ~Turning(k)' BY <1>0, <1>4, <2>3 DEF Turning, Within
    <3>3. thread[k] = t BY <1>0, <2>3 DEF Within
    <3>4. CASE k \in told
      <4>1. ended'[k] # "none" BY <1>2, <1>3, <3>4
      <4> QED BY <1>1, <2>1, <2>2, <3>1, <3>2, <4>1 DEF Place, Parked
    <3>5. CASE k \notin told
      <4>1. thread'[k] \in doubled' BY <1>1, <1>2, <2>3, <3>3, <3>5
      <4>2. ended'[k] = ended[k] BY <1>2, <3>5
      <4> QED BY <1>1, <2>1, <2>2, <3>1, <3>2, <4>1, <4>2 DEF Place, Parked
    <3> QED BY <3>4, <3>5
  <2>4. CASE k \notin done
    <3>1. Turning(k)' <=> Turning(k) BY <1>4, <2>4 DEF Turning
    <3>2. ended'[k] = ended[k] BY <1>2, <2>4
    <3> QED BY <1>1, <2>1, <2>2, <3>1, <3>2, PlaceSame
  <2> QED BY <2>3, <2>4
<1>8. Heeded' /\ AskingIsHeld' /\ Cancels' BY <1>0, <1>1, HeededSame, AskingSame DEF Cancels
<1> QED BY <1>5, <1>6, <1>7, <1>8 DEF Rest

-----------------------------------------------------------------------------
(* settle(): what a turn resolved gets its outcome, or waits on a human.   *)
(* One job gets its outcome. *)
LEMMA ConcludeOne ==
  ASSUME IInv, NEW j \in Jobs, NEW what \in Outcomes, Conclude([k \in {j} |-> what], {}),
         ended[j] # "none" \/ stage[j] = "rooting",
         ended' = [ended EXCEPT ![j] = "none"] \/ (ended' = ended /\ ended[j] = "none"),
         UNCHANGED <<thread, replyTo, cancelling, mailbox, turn, live, doubled, asking, replied, hushed>>
  PROVE  Rest'
<1>0. TypeOK /\ Boxed /\ Within /\ Placed /\ Heeded /\ AskingIsHeld /\ Cancels BY DEF IInv, Rest
<1> DEFINE out == [k \in {j} |-> what]
<1>1. /\ Conclude(out, {}) /\ out \in [{j} -> Outcomes] /\ out[j] = what
      /\ {j} \in SUBSET Jobs /\ {} \in SUBSET Jobs
  OBVIOUS
<1> HIDE DEF out
<1>2. Place(j) BY <1>0 DEF Placed
<1>3. /\ state[j] # "none" /\ outcome[j] = "none" /\ ~Mailed(j) /\ ~Turning(j) /\ ~Parked(j)
  BY <1>2 DEF Place
<1>4. outcome'[j] # "none" /\ stage'[j] # "rooting"
  <2>1. what # "none" BY DEF Outcomes, Final
  <2> QED BY <1>0, <1>1, <2>1, ConcludeDoes
<1>5. \A k \in Jobs : k # j => /\ outcome'[k] = outcome[k] /\ stage'[k] = stage[k]
                               /\ state'[k] = state[k] /\ ended'[k] = ended[k]
  <2> SUFFICES ASSUME NEW k \in Jobs, k # j
               PROVE  /\ outcome'[k] = outcome[k] /\ stage'[k] = stage[k]
                      /\ state'[k] = state[k] /\ ended'[k] = ended[k]
    OBVIOUS
  <2>1. k \notin {j} /\ k \notin {} OBVIOUS
  <2>2. outcome'[k] = outcome[k] /\ stage'[k] = stage[k] /\ state'[k] = state[k]
    BY <1>0, <1>1, <2>1, ConcludeDoes
  <2>3. ended'[k] = ended[k] BY <1>0 DEF TypeOK
  <2> QED BY <2>2, <2>3
<1>6. ended'[j] = "none" BY <1>0 DEF TypeOK
<1>7. Boxed' /\ Box' = Box BY <1>0, BoxSame
<1>8. Within' BY <1>0, <1>7 DEF Within
<1>9. Placed'
  <2> SUFFICES ASSUME NEW k \in Jobs PROVE Place(k)' BY DEF Placed
  <2>1. Place(k) BY <1>0 DEF Placed
  <2>2. (Mailed(k)' <=> Mailed(k)) /\ (Turning(k)' <=> Turning(k)) BY <1>7 DEF Mailed, Turning
  <2>3. CASE k = j BY <1>3, <1>4, <1>6, <2>2, <2>3 DEF Place, Parked
  <2>4. CASE k # j BY <1>5, <2>1, <2>2, <2>4, PlaceSame
  <2> QED BY <2>3, <2>4
<1>10. Heeded' BY <1>0, <1>1, <1>3, ConcludeKeeps
<1>11. AskingIsHeld'
  <2> SUFFICES ASSUME NEW t \in Threads, asking[t] # Nobody
               PROVE  thread[asking[t]] = t /\ state'[asking[t]] = "held" /\ outcome'[asking[t]] = "none"
    BY DEF AskingIsHeld
  <2>1. /\ asking[t] \in Jobs /\ thread[asking[t]] = t
        /\ state[asking[t]] = "held" /\ outcome[asking[t]] = "none"
    BY AskedFor
  <2>2. asking[t] # j BY <1>3, <2>1 DEF Parked
  <2> QED BY <1>5, <2>1, <2>2
<1>12. Cancels'
  <2>1. state'[j] # "none"
    <3>1. Concluded(j)' BY <1>10 DEF Heeded
    <3> QED BY <1>4, <3>1 DEF Concluded
  <2> QED BY <1>0, <1>5, <2>1 DEF Cancels, TypeOK
<1> QED BY <1>7, <1>8, <1>9, <1>10, <1>11, <1>12 DEF Rest

LEMMA SettleKeeps == ASSUME IInv, NEW j \in Jobs, Settle(j) PROVE Rest'
<1>0. TypeOK /\ Boxed /\ Within /\ Placed /\ Heeded /\ AskingIsHeld /\ Cancels BY DEF IInv, Rest
<1>1. /\ ended[j] # "none" /\ stage[j] = "no" /\ ended' = [ended EXCEPT ![j] = "none"]
      /\ UNCHANGED <<thread, replyTo, cancelling, mailbox, turn, live, doubled, asking, replied, hushed>>
  BY DEF Settle, places, memory, routes, history
<1>2. CASE ended[j] = "held" /\ state[j] # "cancelled"
  <2>1. stage' = [stage EXCEPT ![j] = "rooting"] /\ UNCHANGED <<state, outcome, slot, waits>>
    BY <1>2 DEF Settle
  <2>2. /\ stage'[j] = "rooting" /\ ended'[j] = "none"
        /\ \A k \in Jobs : k # j => stage'[k] = stage[k] /\ ended'[k] = ended[k]
    BY <1>0, <1>1, <2>1 DEF TypeOK
  <2>3. Boxed' /\ Box' = Box BY <1>0, <1>1, BoxSame
  <2>4. Within' BY <1>0, <1>1, <2>3 DEF Within
  <2>5. Place(j) /\ outcome[j] = "none" BY <1>0, <1>1 DEF Placed, Place
  <2>6. Placed'
    <3> SUFFICES ASSUME NEW k \in Jobs PROVE Place(k)' BY DEF Placed
    <3>1. Place(k) BY <1>0 DEF Placed
    <3>2. (Mailed(k)' <=> Mailed(k)) /\ (Turning(k)' <=> Turning(k)) BY <1>1, <2>3 DEF Mailed, Turning
    <3>3. CASE k = j BY <1>1, <2>1, <2>2, <3>1, <3>2, <3>3 DEF Place, Parked
    <3>4. CASE k # j BY <1>1, <2>1, <2>2, <3>1, <3>2, <3>4, PlaceSame
    <3> QED BY <3>3, <3>4
  <2>7. Heeded'
    <3> SUFFICES ASSUME NEW k \in Jobs PROVE Concluded(k)' /\ Hearing(k)' BY DEF Heeded
    <3>1. Concluded(k) /\ Hearing(k) BY <1>0 DEF Heeded
    <3>2. Told(k)' <=> Told(k) BY <2>1 DEF Told
    <3>3. CASE k = j
      <4>1. k \notin hushed BY <1>2, <3>1, <3>3 DEF Hearing
      <4> QED BY <1>1, <2>1, <2>2, <2>5, <3>1, <3>2, <3>3, <4>1 DEF Concluded, Hearing
    <3>4. CASE k # j BY <1>1, <2>1, <2>2, <3>1, <3>2, <3>4 DEF Concluded, Hearing
    <3> QED BY <3>3, <3>4
  <2>8. AskingIsHeld' /\ Cancels' BY <1>0, <1>1, <2>1, AskingSame DEF Cancels
  <2> QED BY <2>3, <2>4, <2>6, <2>7, <2>8 DEF Rest
<1>3. CASE ~(ended[j] = "held" /\ state[j] # "cancelled")
  <2>1. Conclude([k \in {j} |-> ended[j]], {}) BY <1>3 DEF Settle
  <2>2. ended[j] \in Outcomes BY <1>0, <1>1 DEF TypeOK
  <2> QED BY <1>1, <2>1, <2>2, ConcludeOne
<1> QED BY <1>2, <1>3

LEMMA RootedKeeps == ASSUME IInv, NEW j \in Jobs, Rooted(j) PROVE Rest'
<1>0. TypeOK /\ Boxed /\ Within /\ Placed /\ Heeded /\ AskingIsHeld /\ Cancels BY DEF IInv, Rest
<1>1. /\ stage[j] = "rooting"
      /\ UNCHANGED <<thread, replyTo, ended, cancelling, mailbox, turn, live, doubled, replied, hushed>>
  BY DEF Rooted, places, memory, history
<1>2. /\ Place(j) /\ ~Mailed(j) /\ ~Turning(j) /\ ended[j] = "none" /\ ~Parked(j)
      /\ state[j] # "none" /\ outcome[j] = "none"
  BY <1>0, <1>1 DEF Placed, Place
<1>3. CASE Root(thread[j])
  <2>1. Conclude([k \in {j} |-> "held"], {}) /\ UNCHANGED asking BY <1>3 DEF Rooted
  <2>2. "held" \in Outcomes BY DEF Outcomes
  <2> QED BY <1>1, <1>2, <2>1, <2>2, ConcludeOne
<1>4. CASE ~Root(thread[j])
  <2>1. /\ stage' = [stage EXCEPT ![j] = "no"] /\ state' = [state EXCEPT ![j] = "held"]
        /\ asking' = [asking EXCEPT ![thread[j]] = j] /\ UNCHANGED <<outcome, slot, waits>>
    BY <1>4 DEF Rooted
  <2>2. /\ stage'[j] = "no" /\ state'[j] = "held"
        /\ \A k \in Jobs : k # j => stage'[k] = stage[k] /\ state'[k] = state[k]
    BY <1>0, <2>1 DEF TypeOK
  <2>3. Boxed' /\ Box' = Box BY <1>0, <1>1, BoxSame
  <2>4. Within' BY <1>0, <1>1, <2>3 DEF Within
  <2>5. Placed'
    <3> SUFFICES ASSUME NEW k \in Jobs PROVE Place(k)' BY DEF Placed
    <3>1. Place(k) BY <1>0 DEF Placed
    <3>2. (Mailed(k)' <=> Mailed(k)) /\ (Turning(k)' <=> Turning(k)) BY <1>1, <2>3 DEF Mailed, Turning
    <3>3. CASE k = j BY <1>1, <1>2, <2>1, <2>2, <3>2, <3>3 DEF Place, Parked
    <3>4. CASE k # j BY <1>1, <2>1, <2>2, <3>1, <3>2, <3>4, PlaceSame
    <3> QED BY <3>3, <3>4
  <2>6. Heeded'
    <3> SUFFICES ASSUME NEW k \in Jobs PROVE Concluded(k)' /\ Hearing(k)' BY DEF Heeded
    <3>1. Concluded(k) /\ Hearing(k) BY <1>0 DEF Heeded
    <3>2. Told(k)' <=> Told(k) BY <2>1 DEF Told
    <3>3. CASE k = j
      <4>1. k \notin hushed BY <1>1, <3>1, <3>3 DEF Hearing
      <4> QED BY <1>1, <1>2, <2>1, <2>2, <3>1, <3>2, <3>3, <4>1 DEF Concluded, Hearing
    <3>4. CASE k # j BY <1>1, <2>1, <2>2, <3>1, <3>2, <3>4 DEF Concluded, Hearing
    <3> QED BY <3>3, <3>4
  <2>7. AskingIsHeld'
    <3> SUFFICES ASSUME NEW t \in Threads, asking'[t] # Nobody
                 PROVE  /\ thread[asking'[t]] = t /\ state'[asking'[t]] = "held"
                        /\ outcome[asking'[t]] = "none"
      BY <1>1, <2>1 DEF AskingIsHeld
    <3>1. asking \in [Threads -> Jobs \cup {Nobody}] BY <1>0 DEF TypeOK
    <3>2. CASE t = thread[j]
      <4>1. asking'[t] = j BY <2>1, <3>1, <3>2
      <4> QED BY <1>2, <2>2, <3>2, <4>1
    <3>3. CASE t # thread[j]
      <4>1. asking'[t] = asking[t] BY <2>1, <3>1, <3>3
      <4>2. /\ asking[t] \in Jobs /\ thread[asking[t]] = t
            /\ state[asking[t]] = "held" /\ outcome[asking[t]] = "none"
        BY <4>1, AskedFor
      <4>3. asking[t] # j BY <3>3, <4>2
      <4> QED BY <2>2, <4>1, <4>2, <4>3
    <3> QED BY <3>2, <3>3
  <2>8. Cancels' BY <1>0, <1>1, <2>2 DEF Cancels, TypeOK
  <2> QED BY <2>3, <2>4, <2>5, <2>6, <2>7, <2>8 DEF Rest
<1> QED BY <1>3, <1>4

-----------------------------------------------------------------------------
(* deliver(): a reply that is posted was not heard before.                 *)
LEMMA ReplyKeeps == ASSUME IInv, NEW j \in Jobs, Reply(j) PROVE Rest'
<1> DEFINE to == replyTo[j]
<1>0. TypeOK /\ Heeded BY DEF IInv, Rest
<1>1. /\ stage[j] = "replying" /\ stage' = [stage EXCEPT ![j] = "no"]
      /\ replied' = [replied EXCEPT ![j] = replied[j] + 1]
      /\ UNCHANGED <<outcome, slot, ended, cancelling, turn, signal, asking, hushed, waits, calls>>
  BY DEF Reply
<1>2. to \in Threads
  <2>1. outcome[j] \in Final BY <1>0, <1>1 DEF Heeded, Hearing
  <2> QED BY <1>0, <2>1 DEF Heeded, Concluded, Final
<1>3. /\ stage \in [Jobs -> {"no", "rooting", "replying"}] /\ replied \in [Jobs -> Nat]
      /\ returns \in [Threads -> Threads \cup {Nobody}]
  BY <1>0 DEF TypeOK
<1>4. \A k \in Jobs :
        \/ stage'[k] = stage[k] /\ replied'[k] = replied[k]
        \/ stage[k] = "replying" /\ stage'[k] = "no" /\ replied'[k] = replied[k] + 1
  BY <1>1, <1>3
<1>5. \A k \in Jobs : stage'[k] = "rooting" <=> stage[k] = "rooting" BY <1>4
<1>6. CASE returns[to] = Nobody
  <2>1. Get(to) /\ Deposit(to, Note) /\ UNCHANGED <<state, thread, replyTo>> BY <1>6 DEF Reply
  <2>2. Boxed' /\ Within' /\ Placed' /\ AskingIsHeld' /\ Cancels' BY <1>1, <1>2, <1>5, <2>1, NotePlaces
  <2>3. Heeded' BY <1>0, <1>1, <1>4, <2>1, AskedHeeds
  <2> QED BY <2>2, <2>3 DEF Rest
<1>7. CASE returns[to] # Nobody
  <2>1. PICK k \in Jobs : Asked(k, to, returns[to]) BY <1>7 DEF Reply
  <2>2. returns[to] \in Threads BY <1>2, <1>3, <1>7
  <2>3. Boxed' /\ Within' /\ Placed' /\ AskingIsHeld' /\ Cancels'
    BY <1>1, <1>2, <1>5, <2>1, <2>2, AskedPlaces
  <2>4. Heeded' BY <1>0, <1>1, <1>2, <1>4, <2>1, <2>2, AskedOne, AskedHeeds
  <2> QED BY <2>3, <2>4 DEF Rest
<1> QED BY <1>6, <1>7

LEMMA PostKeeps == ASSUME IInv, NEW t \in Threads, Post(t) PROVE Rest'
<1>0. TypeOK /\ Heeded BY DEF IInv, Rest
<1>1. /\ Get(t) /\ Deposit(t, Note)
      /\ UNCHANGED <<state, thread, replyTo, outcome, slot, ended, stage, cancelling>>
      /\ UNCHANGED <<turn, asking, replied, hushed, waits>>
  BY DEF Post, jobs, routes, history
<1>2. Boxed' /\ Within' /\ Placed' /\ AskingIsHeld' /\ Cancels' BY <1>1, NotePlaces
<1>3. Heeded' BY <1>0, <1>1, HeededSame
<1> QED BY <1>2, <1>3 DEF Rest

(* The human's answer takes the job that asked from its place.             *)
LEMMA AnswerKeeps == ASSUME IInv, NEW t \in Threads, Answer(t) PROVE Rest'
<1>0. TypeOK /\ Boxed /\ Within /\ Placed /\ Heeded /\ AskingIsHeld /\ Cancels BY DEF IInv, Rest
<1>1. /\ t \in live
      /\ UNCHANGED <<thread, replyTo, outcome, slot, ended, stage, cancelling, turn>>
      /\ UNCHANGED <<live, doubled, replied, hushed, waits>>
  BY DEF Answer, history
<1>2. CASE asking[t] # Nobody /\ state[asking[t]] = "held"
  <2>1. PICK j \in Jobs : j = asking[t] /\ thread[j] = t /\ state[j] = "held" /\ outcome[j] = "none"
    BY <1>2, AskedFor
  <2>2. /\ asking' = [asking EXCEPT ![t] = Nobody] /\ state' = [state EXCEPT ![j] = "pending"]
        /\ Deposit(t, j)
    BY <1>2, <2>1 DEF Answer
  <2>3. /\ state'[j] = "pending" /\ \A k \in Jobs : k # j => state'[k] = state[k]
        /\ asking'[t] = Nobody /\ \A x \in Threads : x # t => asking'[x] = asking[x]
    BY <1>0, <2>2 DEF TypeOK
  <2>4. Place(j) /\ ~Mailed(j) /\ ~Turning(j) /\ ended[j] = "none" /\ stage[j] # "rooting"
    BY <1>0, <2>1 DEF Placed, Place, Parked
  <2>5. Boxed' /\ \A x \in Threads : Box'[x] = IF x = t THEN Box[x] \cup {j} ELSE Box[x]
    <3>1. j \notin Box[t] /\ j \in Mail /\ j # Note BY <2>4, NotNobody DEF Mailed, Mail
    <3>2. /\ Boxed'
          /\ \A x \in Threads : Box'[x] = IF x = t THEN Box[x] \cup ({j} \ {Note}) ELSE Box[x]
      BY <1>0, <2>2, <3>1, DepositKeeps
    <3> QED BY <3>1, <3>2
  <2>6. Within'
    <3> SUFFICES ASSUME NEW x \in Threads, NEW k \in Jobs, k \in Box'[x] \/ k \in turn[x]
                 PROVE  x = thread[k] /\ x \in live \cup doubled
      BY <1>1 DEF Within
    <3>1. (k \in Box[x] \/ k \in turn[x]) \/ (x = t /\ k = j) BY <2>5
    <3> QED BY <1>0, <1>1, <2>1, <3>1 DEF Within
  <2>7. Placed'
    <3> SUFFICES ASSUME NEW k \in Jobs PROVE Place(k)' BY DEF Placed
    <3>1. Place(k) BY <1>0 DEF Placed
    <3>2. Turning(k)' <=> Turning(k) BY <1>1 DEF Turning
    <3>3. CASE k = j
      <4>1. Mailed(k)' BY <2>5, <3>3 DEF Mailed
      <4> QED BY <1>1, <2>1, <2>3, <2>4, <3>2, <3>3, <4>1 DEF Place, Parked
    <3>4. CASE k # j
      <4>1. Mailed(k)' <=> Mailed(k) BY <2>5, <3>4 DEF Mailed
      <4> QED BY <1>1, <2>3, <3>1, <3>2, <3>4, <4>1, PlaceSame
    <3> QED BY <3>3, <3>4
  <2>8. Heeded'
    <3> SUFFICES ASSUME NEW k \in Jobs PROVE Concluded(k)' /\ Hearing(k)' BY DEF Heeded
    <3>1. Concluded(k) /\ Hearing(k) BY <1>0 DEF Heeded
    <3>2. Told(k)' <=> Told(k) BY <1>1 DEF Told
    <3>3. CASE k = j
      <4>1. k \notin hushed BY <2>1, <3>1, <3>3 DEF Hearing
      <4> QED BY <1>1, <2>1, <2>3, <3>1, <3>2, <3>3, <4>1 DEF Concluded, Hearing
    <3>4. CASE k # j BY <1>1, <2>3, <3>1, <3>2, <3>4 DEF Concluded, Hearing
    <3> QED BY <3>3, <3>4
  <2>9. AskingIsHeld'
    <3> SUFFICES ASSUME NEW x \in Threads, asking'[x] # Nobody
                 PROVE  /\ thread[asking'[x]] = x /\ state'[asking'[x]] = "held"
                        /\ outcome[asking'[x]] = "none"
      BY <1>1 DEF AskingIsHeld
    <3>1. x # t /\ asking'[x] = asking[x] BY <2>3
    <3>2. /\ asking[x] \in Jobs /\ thread[asking[x]] = x
          /\ state[asking[x]] = "held" /\ outcome[asking[x]] = "none"
      BY <3>1, AskedFor
    <3>3. asking[x] # j BY <2>1, <3>1, <3>2
    <3> QED BY <2>3, <3>1, <3>2, <3>3
  <2>10. Cancels' BY <1>0, <1>1, <2>3 DEF Cancels, TypeOK
  <2> QED BY <2>5, <2>6, <2>7, <2>8, <2>9, <2>10 DEF Rest
<1>3. CASE ~(asking[t] # Nobody /\ state[asking[t]] = "held")
  <2>1. Deposit(t, Note) /\ UNCHANGED <<asking, state>> BY <1>3 DEF Answer
  <2>2. Boxed' /\ Within' /\ Placed' /\ AskingIsHeld' /\ Cancels' BY <1>1, <2>1, NotePlaces
  <2>3. Heeded' BY <1>0, <1>1, <2>1, HeededSame
  <2> QED BY <2>2, <2>3 DEF Rest
<1> QED BY <1>2, <1>3

-----------------------------------------------------------------------------
(* A step that only waits changes no job.                                  *)
LEMMA OnlyHeeds ==
  ASSUME IInv, Heeded', UNCHANGED <<state, thread, outcome, ended, stage, cancelling>>,
         UNCHANGED <<mailbox, turn, live, doubled, asking>>
  PROVE  Rest'
<1>0. TypeOK /\ Boxed /\ Within /\ Placed /\ Heeded /\ AskingIsHeld /\ Cancels BY DEF IInv, Rest
<1>1. Boxed' /\ Box' = Box BY <1>0, BoxSame
<1>2. Within' BY <1>0, <1>1 DEF Within
<1>3. Placed'
  <2> SUFFICES ASSUME NEW k \in Jobs PROVE Place(k)' BY DEF Placed
  <2>1. Place(k) BY <1>0 DEF Placed
  <2>2. (Mailed(k)' <=> Mailed(k)) /\ (Turning(k)' <=> Turning(k)) BY <1>1 DEF Mailed, Turning
  <2> QED BY <2>1, <2>2, PlaceSame
<1>4. AskingIsHeld' /\ Cancels' BY <1>0, AskingSame DEF Cancels
<1> QED BY <1>1, <1>2, <1>3, <1>4 DEF Rest

(* A drive that begins changes no job either. *)
LEMMA StartKeeps == ASSUME IInv, NEW t \in Threads, Start(t) PROVE Rest'
<1>1. /\ UNCHANGED <<state, thread, replyTo, outcome, slot, ended, stage, cancelling>>
      /\ UNCHANGED <<mailbox, turn, live, doubled, asking, replied, hushed, waits>>
  BY DEF Start, jobs, memory, routes, history
<1>2. Heeded' BY <1>1, HeededSame DEF IInv, Rest
<1> QED BY <1>1, <1>2, OnlyHeeds

LEMMA WaitKeeps == ASSUME IInv, NEW w \in Waits, NEW j \in Jobs, Wait(w, j) PROVE Rest'
<1>0. TypeOK /\ Heeded BY DEF IInv, Rest
<1>1. /\ waits[w].went = "idle"
      /\ UNCHANGED <<state, thread, replyTo, outcome, ended, stage, cancelling>>
      /\ UNCHANGED <<mailbox, turn, live, doubled, asking, replied, hushed>>
  BY DEF Wait, places, memory, routes, history
<1>2. \E went \in {"late", "waiting"} : waits' = [waits EXCEPT ![w] = [job |-> j, went |-> went]]
  BY DEF Wait
<1>3. /\ waits'[w] \in {[job |-> j, went |-> "late"], [job |-> j, went |-> "waiting"]}
      /\ \A v \in Waits : v # w => waits'[v] = waits[v]
  <2>1. DOMAIN waits = Waits BY <1>0 DEF TypeOK
  <2>2. PICK went \in {"late", "waiting"} : waits' = [waits EXCEPT ![w] = [job |-> j, went |-> went]]
    BY <1>2
  <2>3. waits'[w] = [job |-> j, went |-> went] BY <2>1, <2>2
  <2>4. \A v \in Waits : v # w => waits'[v] = waits[v] BY <2>1, <2>2
  <2> QED BY <2>2, <2>3, <2>4
<1>4. \/ outcome[j] # "none" /\ slot' = slot
      \/ /\ outcome[j] = "none" /\ slot' = [slot EXCEPT ![j] = w]
         /\ waits' = [waits EXCEPT ![w] = [job |-> j, went |-> "waiting"]]
  BY DEF Wait
<1>5. slot \in [Jobs -> Waits \cup {Nobody}] /\ w \in DOMAIN waits BY <1>0 DEF TypeOK
<1>6. \A k \in Jobs, went \in {"waiting", "told"} : waits[w] # [job |-> k, went |-> went] BY <1>1
<1>7. Heeded'
  <2> SUFFICES ASSUME NEW k \in Jobs PROVE Concluded(k)' /\ Hearing(k)' BY DEF Heeded
  <2>1. Concluded(k) /\ Hearing(k) BY <1>0 DEF Heeded
  <2>2. Told(k)' <=> Told(k)
    <3>1. waits'[w] # [job |-> k, went |-> "told"] BY <1>3
    <3>2. waits[w] # [job |-> k, went |-> "told"] BY <1>6
    <3> QED BY <1>3, <3>1, <3>2 DEF Told
  <2>3. ASSUME NEW v \in Waits, slot'[k] = v
        PROVE  outcome[k] = "none" /\ waits'[v] = [job |-> k, went |-> "waiting"]
    <3>1. CASE slot'[k] = slot[k]
      <4>1. outcome[k] = "none" /\ waits[v] = [job |-> k, went |-> "waiting"]
        BY <2>1, <2>3, <3>1 DEF Hearing
      <4>2. v # w BY <1>6, <4>1
      <4> QED BY <1>3, <4>1, <4>2
    <3>2. CASE slot'[k] # slot[k]
      <4>1. k = j /\ v = w /\ outcome[j] = "none" BY <1>4, <1>5, <2>3, <3>2
      <4>2. waits' = [waits EXCEPT ![w] = [job |-> j, went |-> "waiting"]] BY <1>4, <4>1
      <4> QED BY <1>5, <4>1, <4>2
    <3> QED BY <3>1, <3>2
  <2>4. Concluded(k)' BY <1>1, <2>1, <2>2 DEF Concluded
  <2>5. Hearing(k)' BY <1>1, <2>1, <2>2, <2>3 DEF Hearing
  <2> QED BY <2>4, <2>5
<1> QED BY <1>1, <1>7, OnlyHeeds

LEMMA GiveUpKeeps == ASSUME IInv, NEW w \in Waits, GiveUp(w) PROVE Rest'
<1>0. TypeOK /\ Heeded BY DEF IInv, Rest
<1>1. /\ waits[w].went = "waiting" /\ slot' = [slot EXCEPT ![waits[w].job] = Nobody]
      /\ waits' = [waits EXCEPT ![w] = [waits[w] EXCEPT !.went = "gave up"]]
      /\ UNCHANGED <<state, thread, replyTo, outcome, ended, stage, cancelling>>
      /\ UNCHANGED <<mailbox, turn, live, doubled, asking, replied, hushed>>
  BY DEF GiveUp, places, memory, routes, history
<1>2. waits \in [Waits -> Call] /\ slot \in [Jobs -> Waits \cup {Nobody}] BY <1>0 DEF TypeOK, Call
<1>3. /\ waits'[w] = [job |-> waits[w].job, went |-> "gave up"]
      /\ \A v \in Waits : v # w => waits'[v] = waits[v]
  BY <1>1, <1>2, CallGoes
<1>4. Heeded'
  <2> SUFFICES ASSUME NEW k \in Jobs PROVE Concluded(k)' /\ Hearing(k)' BY DEF Heeded
  <2>1. Concluded(k) /\ Hearing(k) BY <1>0 DEF Heeded
  <2>2. Told(k)' <=> Told(k)
    <3>0. "gave up" # "told" /\ "waiting" # "told" /\ [job |-> k, went |-> "told"].went = "told"
          /\ [job |-> waits[w].job, went |-> "gave up"].went = "gave up"
      OBVIOUS
    <3>1. waits'[w] # [job |-> k, went |-> "told"] BY <1>3, <3>0
    <3>2. waits[w] # [job |-> k, went |-> "told"] BY <1>1, <3>0
    <3> QED BY <1>3, <3>1, <3>2 DEF Told
  <2>3. ASSUME NEW v \in Waits, slot'[k] = v
        PROVE  outcome[k] = "none" /\ waits'[v] = [job |-> k, went |-> "waiting"]
    <3>1. slot[k] = v /\ k # waits[w].job BY <1>1, <1>2, <2>3, NotNobody
    <3>2. outcome[k] = "none" /\ waits[v] = [job |-> k, went |-> "waiting"]
      BY <2>1, <3>1 DEF Hearing
    <3>3. v # w BY <3>1, <3>2
    <3> QED BY <1>3, <3>2, <3>3
  <2>4. Concluded(k)' BY <1>1, <2>1, <2>2 DEF Concluded
  <2>5. Hearing(k)' BY <1>1, <2>1, <2>2, <2>3 DEF Hearing
  <2> QED BY <2>4, <2>5
<1> QED BY <1>1, <1>4, OnlyHeeds

-----------------------------------------------------------------------------
(* Cancels and stops: what waits is resolved, what is held is concluded,   *)
(* and of what is doomed besides only the state changes.                   *)
Emptied(doomed, why) ==
  /\ mailbox' = [t \in Threads |-> IF t \in doomed THEN <<>> ELSE mailbox[t]]
  /\ \E told \in SUBSET Jobs :
       /\ \A j \in Jobs : j \in told => \E t \in doomed : j \in Box[t]
       /\ \A j \in Jobs : (\E t \in doomed : j \in Box[t]) => j \in told \/ \E t \in doubled : j \in Box[t]
       /\ ended' = [j \in Jobs |-> IF j \in told THEN why ELSE ended[j]]

LEMMA HaltEmpties ==
  ASSUME TypeOK, NEW doomed \in SUBSET Threads, NEW why, Halt(doomed, why)
  PROVE  Emptied(doomed \cap live, why)
<1> DEFINE there == doomed \cap live
           dropped == UNION {Inbox(t) : t \in there}
<1>1. \A t \in Threads : Inbox(t) = Box[t] /\ Box[t] \subseteq Jobs BY BoxIs, BoxType
<1>2. doubled \subseteq Threads /\ there \subseteq Threads BY DEF TypeOK
<1>3. PICK told \in SUBSET dropped :
        /\ dropped \ told \subseteq UNION {Inbox(t) : t \in doubled}
        /\ ended' = [j \in Jobs |-> IF j \in told THEN why ELSE ended[j]]
  BY DEF Halt
<1>4. told \in SUBSET Jobs /\ \A j \in Jobs : j \in told => \E t \in there : j \in Box[t]
  BY <1>1, <1>2
<1>5. ASSUME NEW j \in Jobs, NEW t \in there, j \in Box[t]
      PROVE  j \in told \/ \E x \in doubled : j \in Box[x]
  <2>1. j \in dropped BY <1>1, <1>2, <1>5
  <2> QED BY <1>1, <1>2, <1>3, <2>1
<1>6. mailbox' = [t \in Threads |-> IF t \in there THEN <<>> ELSE mailbox[t]] BY DEF Halt
<1> HIDE DEF dropped, there
<1>7. Emptied(there, why) BY <1>3, <1>4, <1>5, <1>6 DEF Emptied
<1> QED BY <1>7 DEF there

(* What all of them keep. *)
LEMMA HaltKeeps ==
  ASSUME IInv, NEW doomed \in SUBSET Threads, NEW why \in {"stopped", "cancelled"}, Emptied(doomed, why),
         NEW D \in SUBSET Jobs, NEW out \in [D -> Final], NEW dead \in SUBSET Jobs, Conclude(out, dead),
         \A j \in D : Parked(j), \A j \in dead : j \in D \/ state[j] = "pending",
         \A t \in Threads : asking'[t] = Nobody \/ (asking'[t] = asking[t] /\ asking[t] \notin D),
         UNCHANGED <<thread, replyTo, replied, turn, live, doubled>>, cancelling' \subseteq cancelling,
         \A j \in hushed' : j \in hushed \/ (j \in dead /\ (j \in D \/ stage[j] = "no"))
  PROVE  Rest'
<1>0. TypeOK /\ Boxed /\ Within /\ Placed /\ Heeded /\ AskingIsHeld /\ Cancels BY DEF IInv, Rest
<1>1. out \in [D -> Outcomes] BY DEF Outcomes
<1>2. why # "none" /\ \A j \in D : out[j] # "none" BY DEF Final
<1>3. \A j \in D \cup dead : state[j] # "none" /\ outcome[j] = "none"
  BY <1>0 DEF Parked, Heeded, Concluded
<1>4. Heeded' BY <1>0, <1>1, <1>3, ConcludeKeeps
<1>5. /\ \A j \in D : outcome'[j] # "none" /\ stage'[j] # "rooting"
      /\ \A j \in Jobs : j \notin D => /\ outcome'[j] = outcome[j] /\ stage'[j] = stage[j]
                                       /\ state'[j] = IF j \in dead THEN "cancelled" ELSE state[j]
  BY <1>0, <1>1, <1>2, ConcludeDoes
<1>6. \A j \in Jobs : state[j] # "none" => state'[j] # "none"
  <2> SUFFICES ASSUME NEW j \in Jobs, state[j] # "none" PROVE state'[j] # "none" OBVIOUS
  <2>1. CASE j \in D
    <3>1. Concluded(j)' BY <1>4 DEF Heeded
    <3> QED BY <1>5, <2>1, <3>1 DEF Concluded
  <2>2. CASE j \notin D BY <1>5, <2>2
  <2> QED BY <2>1, <2>2
<1>7. /\ \A t \in Threads : mailbox'[t] = IF t \in doomed THEN <<>> ELSE mailbox[t]
      /\ \A j \in Jobs : (~\E t \in doomed : j \in Box[t]) => ended'[j] = ended[j]
      /\ \A j \in Jobs : (\E t \in doomed : j \in Box[t]) =>
           ended'[j] = why \/ (ended'[j] = ended[j] /\ \E t \in doubled : j \in Box[t])
  BY DEF Emptied
<1>8. Boxed' BY <1>0, <1>7, NoneIn DEF Boxed
<1>9. \A t \in Threads : Box'[t] = IF t \in doomed THEN {} ELSE Box[t]
  <2> SUFFICES ASSUME NEW t \in Threads PROVE Box'[t] = IF t \in doomed THEN {} ELSE Box[t] OBVIOUS
  <2>1. Box'[t] = In(mailbox'[t]) /\ Box[t] = In(mailbox[t]) BY BoxIs
  <2>2. CASE t \in doomed
    <3>1. mailbox'[t] = <<>> BY <1>7, <2>2
    <3> QED BY <2>1, <2>2, <3>1, NoneIn
  <2>3. CASE t \notin doomed
    <3>1. mailbox'[t] = mailbox[t] BY <1>7, <2>3
    <3> QED BY <2>1, <2>3, <3>1
  <2> QED BY <2>2, <2>3
<1>10. Within' BY <1>0, <1>9 DEF Within
<1>11. Placed'
  <2> SUFFICES ASSUME NEW k \in Jobs PROVE Place(k)' BY DEF Placed
  <2>1. Place(k) BY <1>0 DEF Placed
  <2>2. Turning(k)' <=> Turning(k) BY DEF Turning
  <2>3. CASE k \in D
    <3>1. Parked(k) /\ ~Mailed(k) /\ ~Turning(k) /\ ended[k] = "none" BY <2>1, <2>3 DEF Place
    <3>2. ~Mailed(k)' BY <1>9, <3>1 DEF Mailed
    <3>3. ended'[k] = "none" BY <1>7, <3>1 DEF Mailed
    <3> QED BY <1>5, <2>2, <2>3, <3>1, <3>2, <3>3 DEF Place, Parked
  <2>4. CASE k \notin D
    <3>1. /\ outcome'[k] = outcome[k] /\ stage'[k] = stage[k] /\ (state'[k] = "none" <=> state[k] = "none")
          /\ state'[k] = "held" <=> state[k] = "held"
      BY <1>5, <2>4
    <3>2. Parked(k)' <=> Parked(k) BY <3>1 DEF Parked
    <3>3. CASE \E t \in doomed : k \in Box[t]
      <4>1. Mailed(k) BY <3>3 DEF Mailed
      <4>2. ~Mailed(k)' BY <1>0, <1>9, <3>3 DEF Mailed, Within
      <4>3. ended'[k] # "none" \/ (ended'[k] = ended[k] /\ thread[k] \in doubled)
        <5>1. \A t \in doubled : k \in Box[t] => thread[k] = t BY <1>0 DEF Within, TypeOK
        <5> QED BY <1>2, <1>7, <3>3, <5>1
      <4> QED BY <2>1, <2>2, <3>1, <3>2, <4>1, <4>2, <4>3 DEF Place
    <3>4. CASE ~\E t \in doomed : k \in Box[t]
      <4>1. Mailed(k)' <=> Mailed(k) BY <1>9, <3>4 DEF Mailed
      <4>2. ended'[k] = ended[k] BY <1>7, <3>4
      <4> QED BY <2>1, <2>2, <3>1, <3>2, <4>1, <4>2 DEF Place
    <3> QED BY <3>3, <3>4
  <2> QED BY <2>3, <2>4
<1>12. AskingIsHeld'
  <2> SUFFICES ASSUME NEW t \in Threads, asking'[t] # Nobody
               PROVE  /\ thread[asking'[t]] = t /\ state'[asking'[t]] = "held"
                      /\ outcome'[asking'[t]] = "none"
    BY DEF AskingIsHeld
  <2>1. asking'[t] = asking[t] /\ asking[t] \notin D OBVIOUS
  <2>2. /\ asking[t] \in Jobs /\ thread[asking[t]] = t
        /\ state[asking[t]] = "held" /\ outcome[asking[t]] = "none"
    BY <2>1, AskedFor
  <2>3. asking[t] \notin dead BY <2>1, <2>2
  <2> QED BY <1>5, <2>1, <2>2, <2>3
<1>13. Cancels' BY <1>0, <1>6 DEF Cancels, TypeOK
<1> QED BY <1>4, <1>8, <1>10, <1>11, <1>12, <1>13 DEF Rest

(* What is held in doomed threads has no outcome. *)
LEMMA HeldParked == ASSUME IInv, NEW doomed \in SUBSET Threads PROVE \A j \in HeldIn(doomed) : Parked(j)
<1> SUFFICES ASSUME NEW j \in HeldIn(doomed) PROVE Parked(j) OBVIOUS
<1>1. PICK t \in doomed : asking[t] = j /\ j \in Jobs /\ state[j] = "held" BY DEF HeldIn
<1>2. asking[t] # Nobody BY <1>1, NotNobody
<1> QED BY <1>1, <1>2, AskedFor DEF Parked

LEMMA DisownedAsks ==
  ASSUME TypeOK, NEW R, Disowned(R)
  PROVE  \A t \in Threads : asking'[t] = Nobody \/ (asking'[t] = asking[t] /\ asking[t] \notin R)
BY DEF Disowned

LEMMA CancelTreeKeeps ==
  ASSUME IInv, NEW t \in Threads, CancelTree(t), cancelling' \subseteq cancelling PROVE Rest'
<1> DEFINE R == HeldIn(Tree(t))
           out == [j \in R |-> "cancelled"]
<1>0. TypeOK BY DEF IInv
<1>1. /\ Halt(Tree(t), "cancelled") /\ Conclude(out, R) /\ Disowned(R)
      /\ UNCHANGED <<thread, replyTo, replied, turn, live, doubled>> /\ hushed' = hushed
  BY DEF CancelTree, memory, history
<1>2. R \in SUBSET Jobs /\ out \in [R -> Final] BY HeldInJobs DEF Final
<1>3. Tree(t) \in SUBSET Threads BY TreeThreads
<1>4. Emptied(Tree(t) \cap live, "cancelled") /\ Tree(t) \cap live \in SUBSET Threads
  BY <1>0, <1>1, <1>3, HaltEmpties
<1>5. \A j \in R : Parked(j) BY <1>3, HeldParked
<1> HIDE DEF R, out
<1>6. \A x \in Threads : asking'[x] = Nobody \/ (asking'[x] = asking[x] /\ asking[x] \notin R)
  BY <1>0, <1>1, DisownedAsks
<1> QED BY <1>1, <1>2, <1>3, <1>4, <1>5, <1>6, HaltKeeps

LEMMA StopKeeps ==
  ASSUME IInv, NEW t \in Threads, NEW doomed \in SUBSET Threads, Stop(t, doomed) PROVE Rest'
<1> DEFINE unheard == {j \in Jobs : replyTo[j] \in doomed}
           mute == {j \in unheard : state[j] = "pending" /\ thread[j] \in doomed}
           R == HeldIn(doomed)
           out == [j \in R |-> IF j \in unheard THEN "cancelled" ELSE "stopped"]
           dead == mute \cup (R \cap unheard)
<1>0. TypeOK BY DEF IInv
<1>1. /\ Halt(doomed, "stopped") /\ Conclude(out, dead) /\ Disowned(R)
      /\ hushed' = hushed \cup {j \in mute : stage[j] = "no"} \cup (R \cap unheard)
      /\ UNCHANGED <<thread, replyTo, replied, turn, live, doubled>> /\ cancelling' = cancelling
  BY DEF Stop, memory
<1>2. R \in SUBSET Jobs /\ out \in [R -> Final] /\ dead \in SUBSET Jobs BY HeldInJobs DEF Final
<1>3. Emptied(doomed \cap live, "stopped") /\ doomed \cap live \in SUBSET Threads
  BY <1>0, <1>1, HaltEmpties
<1>4. \A j \in R : Parked(j) BY HeldParked
<1>5. \A j \in dead : j \in R \/ state[j] = "pending" OBVIOUS
<1>6. \A j \in hushed' : j \in hushed \/ (j \in dead /\ (j \in R \/ stage[j] = "no")) BY <1>1
<1> HIDE DEF R, out, dead
<1>7. \A x \in Threads : asking'[x] = Nobody \/ (asking'[x] = asking[x] /\ asking[x] \notin R)
  BY <1>0, <1>1, DisownedAsks
<1> QED BY <1>1, <1>2, <1>3, <1>4, <1>5, <1>6, <1>7, HaltKeeps

(* cancel(job): released, withdrawn or left to run. *)
LEMMA CancelJobKeeps == ASSUME IInv, NEW j \in Jobs, CancelJob(j) PROVE Rest'
<1>0. TypeOK /\ Boxed /\ Within /\ Placed /\ Heeded /\ AskingIsHeld /\ Cancels BY DEF IInv, Rest
<1>1. /\ state[j] # "none" /\ outcome[j] = "none"
      /\ UNCHANGED <<thread, replyTo, turn, replied, hushed>>
  BY DEF CancelJob, history
<1>2. thread[j] \in Threads BY <1>0, <1>1 DEF Heeded, Concluded
<1>3. CASE state[j] = "held"
  <2> DEFINE out == [k \in {j} |-> "cancelled"]
  <2>1. /\ Conclude(out, {j}) /\ Disowned({asking[thread[j]]})
        /\ UNCHANGED <<ended, cancelling, mailbox, live, doubled>>
    BY <1>3 DEF CancelJob, memory
  <2>2. out \in [{j} -> Final] /\ {j} \in SUBSET Jobs /\ {} \in SUBSET Threads BY DEF Final
  <2> HIDE DEF out
  <2>3. Emptied({}, "cancelled")
    <3>1. mailbox = [t \in Threads |-> mailbox[t]] /\ ended = [k \in Jobs |-> ended[k]] BY <1>0 DEF TypeOK
    <3>2. ended' = [k \in Jobs |-> IF k \in {} THEN "cancelled" ELSE ended[k]] BY <2>1, <3>1
    <3>3. mailbox' = [t \in Threads |-> IF t \in {} THEN <<>> ELSE mailbox[t]] BY <2>1, <3>1
    <3>4. \E told \in SUBSET Jobs :
            /\ \A k \in Jobs : k \in told => \E t \in {} : k \in Box[t]
            /\ \A k \in Jobs : (\E t \in {} : k \in Box[t]) => k \in told \/ \E t \in doubled : k \in Box[t]
            /\ ended' = [k \in Jobs |-> IF k \in told THEN "cancelled" ELSE ended[k]]
      <4> WITNESS {} \in SUBSET Jobs
      <4> QED BY <3>2
    <3> QED BY <3>3, <3>4 DEF Emptied
  <2>4. \A k \in {j} : Parked(k) BY <1>1, <1>3 DEF Parked
  <2>5. \A x \in Threads : asking'[x] = Nobody \/ (asking'[x] = asking[x] /\ asking[x] \notin {j})
    <3> SUFFICES ASSUME NEW x \in Threads, asking'[x] # Nobody
                 PROVE  asking'[x] = asking[x] /\ asking[x] # j
      OBVIOUS
    <3>1. asking'[x] = asking[x] /\ asking[x] # asking[thread[j]] BY <1>0, <2>1, DisownedAsks
    <3>2. thread[asking[x]] = x BY <3>1, AskedFor
    <3> QED BY <3>1, <3>2
  <2> QED BY <1>1, <2>1, <2>2, <2>3, <2>4, <2>5, HaltKeeps
<1>4. CASE state[j] # "held"
  <2>1. /\ state' = [state EXCEPT ![j] = "cancelled"] /\ Get(thread[j])
        /\ UNCHANGED <<outcome, slot, stage, waits, asking>>
    BY <1>4 DEF CancelJob
  <2>2. state'[j] = "cancelled" /\ \A k \in Jobs : k # j => state'[k] = state[k]
    BY <1>0, <2>1 DEF TypeOK
  <2>3. Heeded'
    <3> SUFFICES ASSUME NEW k \in Jobs PROVE Concluded(k)' /\ Hearing(k)' BY DEF Heeded
    <3>1. Concluded(k) /\ Hearing(k) BY <1>0 DEF Heeded
    <3>2. Told(k)' <=> Told(k) BY <2>1 DEF Told
    <3> QED BY <1>1, <2>1, <2>2, <3>1, <3>2 DEF Concluded, Hearing
  <2>4. AskingIsHeld'
    <3> SUFFICES ASSUME NEW x \in Threads, asking[x] # Nobody
                 PROVE  /\ thread[asking[x]] = x /\ state'[asking[x]] = "held"
                        /\ outcome[asking[x]] = "none"
      BY <1>1, <2>1 DEF AskingIsHeld
    <3>1. /\ asking[x] \in Jobs /\ thread[asking[x]] = x
          /\ state[asking[x]] = "held" /\ outcome[asking[x]] = "none"
      BY AskedFor
    <3> QED BY <1>4, <2>2, <3>1
  <2>5. Place(j) BY <1>0 DEF Placed
  <2>8. doubled \subseteq doubled' BY <1>0, <1>2, <2>1, GetKeeps
  <2>6. CASE j \in Inbox(thread[j])
    <3>1. Withdraw(j) /\ UNCHANGED cancelling BY <1>4, <2>6 DEF CancelJob
    <3>2. PICK i \in DOMAIN mailbox[thread[j]] :
             /\ mailbox[thread[j]][i] = j
             /\ mailbox' = [mailbox EXCEPT ![thread[j]] = RemoveAt(mailbox[thread[j]], i)]
      BY <3>1 DEF Withdraw
    <3>3. /\ ended'[j] = "withdrawn" \/ (ended'[j] = ended[j] /\ thread[j] \in doubled)
          /\ \A k \in Jobs : k # j => ended'[k] = ended[k]
      <4>1. PICK told \in {"withdrawn"} \cup {ended[j] : t \in doubled \cap {thread[j]}} :
               ended' = [ended EXCEPT ![j] = told]
        BY <3>1 DEF Withdraw
      <4> QED BY <1>0, <4>1 DEF TypeOK
    <3>4. mailbox \in [Threads -> Seq(Mail)] BY <1>0 DEF TypeOK, Mail
    <3>5. /\ In(RemoveAt(mailbox[thread[j]], i)) = In(mailbox[thread[j]]) \ {j}
          /\ Once(RemoveAt(mailbox[thread[j]], i))
      <4>1. mailbox[thread[j]] \in Seq(Mail) /\ Once(mailbox[thread[j]]) BY <1>0, <1>2, <3>4 DEF Boxed
      <4> QED BY <3>2, <4>1, NotNobody, RemoveIn
    <3>6. /\ mailbox'[thread[j]] = RemoveAt(mailbox[thread[j]], i)
          /\ \A x \in Threads : x # thread[j] => mailbox'[x] = mailbox[x]
      BY <1>2, <3>2, <3>4
    <3>7. Boxed' BY <1>0, <3>5, <3>6 DEF Boxed
    <3>8. \A x \in Threads : Box'[x] = IF x = thread[j] THEN Box[x] \ {j} ELSE Box[x]
      BY <3>5, <3>6, BoxIs
    <3>9. Within' BY <1>1, <1>2, <2>1, <3>8, MailStays DEF Within
    <3>10. Placed'
      <4> SUFFICES ASSUME NEW k \in Jobs PROVE Place(k)' BY DEF Placed
      <4>1. Place(k) BY <1>0 DEF Placed
      <4>2. Turning(k)' <=> Turning(k) BY <1>1 DEF Turning
      <4>3. CASE k = j
        <5>1. Mailed(k) BY <1>2, <2>6, <4>3, BoxIs DEF Mailed
        <5>2. ~Mailed(k)' BY <1>0, <3>8, <4>3 DEF Mailed, Within
        <5>3. thread[j] \in doubled => thread'[j] \in doubled' BY <1>1, <2>8
        <5> QED BY <2>1, <2>2, <3>3, <4>1, <4>2, <4>3, <5>1, <5>2, <5>3 DEF Place, Parked
      <4>4. CASE k # j
        <5>1. Mailed(k)' <=> Mailed(k) BY <3>8, <4>4 DEF Mailed
        <5> QED BY <1>1, <2>1, <2>2, <2>8, <3>3, <4>1, <4>2, <4>4, <5>1, PlaceSame
      <4> QED BY <4>3, <4>4
    <3>11. Cancels' BY <1>0, <2>2, <3>1 DEF Cancels, TypeOK
    <3> QED BY <2>3, <2>4, <3>7, <3>9, <3>10, <3>11 DEF Rest
  <2>7. CASE j \notin Inbox(thread[j])
    <3>1. cancelling' = cancelling \cup {j} /\ UNCHANGED <<mailbox, ended>> BY <1>4, <2>7 DEF CancelJob
    <3>2. Boxed' /\ Box' = Box BY <1>0, <3>1, BoxSame
    <3>3. Within' BY <1>1, <1>2, <2>1, <3>2, MailStays DEF Within
    <3>4. Placed'
      <4> SUFFICES ASSUME NEW k \in Jobs PROVE Place(k)' BY DEF Placed
      <4>1. Place(k) BY <1>0 DEF Placed
      <4>2. (Turning(k)' <=> Turning(k)) /\ (Mailed(k)' <=> Mailed(k)) BY <1>1, <3>2 DEF Turning, Mailed
      <4>3. CASE k = j BY <1>1, <1>4, <2>1, <2>2, <2>8, <3>1, <4>1, <4>2, <4>3 DEF Place, Parked
      <4>4. CASE k # j BY <1>1, <2>1, <2>2, <2>8, <3>1, <4>1, <4>2, <4>4, PlaceSame
      <4> QED BY <4>3, <4>4
    <3>5. Cancels' BY <1>0, <2>2, <3>1 DEF Cancels, TypeOK
    <3> QED BY <2>3, <2>4, <3>2, <3>3, <3>4, <3>5 DEF Rest
  <2> QED BY <2>6, <2>7
<1> QED BY <1>3, <1>4

-----------------------------------------------------------------------------
(* Every step keeps all of it.                                             *)
LEMMA InitRest == Init => Rest
<1> SUFFICES ASSUME Init PROVE Rest OBVIOUS
<1>1. \A t \in Threads : mailbox[t] = <<>> /\ turn[t] = {} BY DEF Init
<1>2. \A t \in Threads : Box[t] = {} BY <1>1, BoxIs, NoneIn
<1>3. \A j \in Jobs : /\ state[j] = "none" /\ outcome[j] = "none" /\ slot[j] = Nobody /\ ended[j] = "none"
                      /\ stage[j] = "no" /\ replied[j] = 0 /\ j \notin hushed
  BY DEF Init
<1>4. \A w \in Waits : waits[w].went = "idle" BY DEF Init
<1>5. Boxed /\ Within BY <1>1, <1>2, NoneIn DEF Boxed, Within
<1>6. Placed BY <1>1, <1>2, <1>3 DEF Placed, Place, Mailed, Turning, Parked
<1>7. Heeded
  <2> SUFFICES ASSUME NEW j \in Jobs PROVE Concluded(j) /\ Hearing(j) BY DEF Heeded
  <2>1. ~Told(j) BY <1>4 DEF Told
  <2> QED BY <1>3, <2>1, NotNobody DEF Concluded, Hearing
<1>8. AskingIsHeld /\ Cancels BY DEF Init, AskingIsHeld, Cancels
<1> QED BY <1>5, <1>6, <1>7, <1>8 DEF Rest

LEMMA NextRest == ASSUME IInv, [Next]_vars PROVE Rest'
<1>1. CASE UNCHANGED vars
  <2>1. /\ UNCHANGED <<state, thread, replyTo, outcome, slot, ended, stage, cancelling>>
        /\ UNCHANGED <<mailbox, turn, live, doubled, asking, replied, hushed, waits>>
    BY <1>1 DEF vars, jobs, places, memory, routes, history
  <2>2. Heeded' BY <2>1, HeededSame DEF IInv, Rest
  <2> QED BY <2>1, <2>2, OnlyHeeds
<1>2. ASSUME NEW j \in Jobs, Settle(j) PROVE Rest' BY <1>2, SettleKeeps
<1>3. ASSUME NEW j \in Jobs, Rooted(j) PROVE Rest' BY <1>3, RootedKeeps
<1>4. ASSUME NEW j \in Jobs, Reply(j) PROVE Rest' BY <1>4, ReplyKeeps
<1>5. ASSUME NEW j \in Jobs, CancelRunning(j) PROVE Rest'
  <2>1. thread[j] \in Threads BY <1>5 DEF CancelRunning, IInv, TypeOK, Rest, Cancels, Heeded, Concluded
  <2>2. CancelTree(thread[j]) /\ cancelling' \subseteq cancelling BY <1>5 DEF CancelRunning
  <2> QED BY <2>1, <2>2, CancelTreeKeeps
<1>6. ASSUME NEW j \in Jobs, CancelJob(j) PROVE Rest' BY <1>6, CancelJobKeeps
<1>7. ASSUME NEW j \in Jobs, NEW t \in Threads, Ask(j, t) PROVE Rest' BY <1>7, AskKeeps
<1>8. ASSUME NEW t \in Threads, Work(t) PROVE Rest' BY <1>8, StartKeeps, BeginKeeps, EndKeeps DEF Work
<1>9. ASSUME NEW t \in Threads, Steer(t) PROVE Rest' BY <1>9, SteerKeeps
<1>10. ASSUME NEW t \in Threads, Post(t) PROVE Rest' BY <1>10, PostKeeps
<1>11. ASSUME NEW t \in Threads, Answer(t) PROVE Rest' BY <1>11, AnswerKeeps
<1>12. ASSUME NEW t \in Threads, CancelThread(t) PROVE Rest'
  BY <1>12, CancelTreeKeeps DEF CancelThread
<1>13. ASSUME NEW t \in Threads, NEW doomed \in {{t}, Tree(t)}, Stop(t, doomed) PROVE Rest'
  <2>1. doomed \in SUBSET Threads BY <1>13, TreeThreads
  <2> QED BY <1>13, <2>1, StopKeeps
<1>14. ASSUME NEW w \in Waits, NEW j \in Jobs, Wait(w, j) PROVE Rest' BY <1>14, WaitKeeps
<1>15. ASSUME NEW w \in Waits, GiveUp(w) PROVE Rest' BY <1>15, GiveUpKeeps
<1> QED BY <1>1, <1>2, <1>3, <1>4, <1>5, <1>6, <1>7, <1>8, <1>9, <1>10, <1>11, <1>12, <1>13,
           <1>14, <1>15 DEF Next, Continue

(* So the invariant holds, which the theorems below are read off.          *)
LEMMA Holds == Spec => []IInv
<1>1. Init => IInv BY InitType, InitRest DEF IInv
<1>2. IInv /\ [Next]_vars => IInv' BY NextType, NextRest DEF IInv
<1> QED BY <1>1, <1>2, PTL DEF Spec

(* The state of every job, thread and call of wait() is one that the code  *)
(* knows (threads.ts:30).                                                  *)
THEOREM TypeCorrect == Spec => []TypeOK
<1>1. IInv => TypeOK BY DEF IInv
<1> QED BY <1>1, Holds, PTL

(* What a human's answer resumes is a job of that thread that is held and  *)
(* has no outcome (threads.ts:262).                                        *)
THEOREM AnswersHeld == Spec => []AskingIsHeld
<1>1. IInv => AskingIsHeld BY DEF IInv, Rest
<1> QED BY <1>1, Holds, PTL

(* Where nothing goes on any more, each job is decided, unless its thread  *)
(* was evicted before its drive began (thread.ts:151), and what came of a  *)
(* finished one was heard (threads.ts:409, :457).                          *)
THEOREM AllHeardAtRest == Spec => []HeardAtRest
<1>1. IInv => HeardAtRest
  <2> SUFFICES ASSUME IInv,
                      \A t \in Threads : mailbox[t] = <<>> /\ turn[t] = {},
                      \A j \in Jobs : ended[j] = "none" /\ stage[j] = "no",
                      NEW j \in Jobs
               PROVE  /\ state[j] = "pending" => thread[j] \in doubled
                      /\ state[j] \in {"done", "failed"} => replied[j] > 0 \/ Told(j)
                      /\ state[j] = "cancelled" => outcome[j] # "none" \/ thread[j] \in doubled
    BY DEF HeardAtRest, Told
  <2>1. Place(j) /\ Concluded(j) BY DEF IInv, Rest, Placed, Heeded
  <2>2. ~Mailed(j) /\ ~Turning(j) BY BoxIs, NoneIn DEF Mailed, Turning
  <2>3. Parked(j) \/ state[j] = "none" \/ outcome[j] # "none" \/ thread[j] \in doubled
    BY <2>1, <2>2 DEF Place
  <2> QED BY <2>1, <2>3 DEF Concluded, Parked
<1> QED BY <1>1, Holds, PTL

(* A set whose elements are all the same has one or none.                  *)
LEMMA CountOne ==
  ASSUME NEW S, NEW x, \A y \in S : y = x PROVE Cardinality(S) = IF S = {} THEN 0 ELSE 1
<1>1. CASE S = {} BY <1>1, FS_EmptySet
<1>2. CASE S # {}
  <2>1. S = {x} BY <1>2
  <2> QED BY <1>2, <2>1, FS_Singleton
<1> QED BY <1>1, <1>2

(* A job without an outcome is in no two places that would give it one,    *)
(* and in one, with the thread of that place in memory, as long as its     *)
(* thread was not evicted before its drive began (threads.ts:275, :400,    *)
(* :484).                                                                  *)
THEOREM InOnePlace == Spec => []OnePlace
<1>1. IInv => OnePlace
  <2> SUFFICES ASSUME IInv, NEW j \in Jobs
               PROVE  LET M == {t \in Threads : j \in Inbox(t)}
                          T == {t \in Threads : j \in turn[t]}
                          many == Cardinality(M) + Cardinality(T)
                                  + (IF ended[j] # "none" THEN 1 ELSE 0)
                                  + (IF stage[j] = "rooting" THEN 1 ELSE 0)
                                  + (IF state[j] = "held" /\ outcome[j] = "none" THEN 1 ELSE 0)
                      IN /\ M \cup T \subseteq {thread[j]} \cap (live \cup doubled)
                         /\ many <= IF state[j] = "none" \/ outcome[j] # "none" THEN 0 ELSE 1
                         /\ state[j] # "none" /\ outcome[j] = "none" /\ thread[j] \notin doubled
                              => many = 1
    BY DEF OnePlace
  <2> DEFINE M == {t \in Threads : j \in Inbox(t)}
             T == {t \in Threads : j \in turn[t]}
  <2>1. M = {t \in Threads : j \in Box[t]} BY BoxIs
  <2>2. \A t \in M \cup T : t = thread[j] /\ t \in live \cup doubled BY <2>1 DEF IInv, Rest, Within
  <2>3. (M # {} <=> Mailed(j)) /\ (T # {} <=> Turning(j)) BY <2>1 DEF Mailed, Turning
  <2> HIDE DEF M, T
  <2>4. Cardinality(M) = (IF Mailed(j) THEN 1 ELSE 0) /\ Cardinality(T) = (IF Turning(j) THEN 1 ELSE 0)
    <3>4. \A t \in M : t = thread[j] BY <2>2
    <3>1. Cardinality(M) = IF M = {} THEN 0 ELSE 1 BY <3>4, CountOne
    <3>2. \A t \in T : t = thread[j] BY <2>2
    <3>3. Cardinality(T) = IF T = {} THEN 0 ELSE 1 BY <3>2, CountOne
    <3> QED BY <2>3, <3>1, <3>3
  <2>5. Place(j) /\ (outcome[j] # "none" => state[j] # "none") BY DEF IInv, Rest, Placed, Heeded, Concluded
  <2> DEFINE many == Cardinality(M) + Cardinality(T)
                     + (IF ended[j] # "none" THEN 1 ELSE 0)
                     + (IF stage[j] = "rooting" THEN 1 ELSE 0)
                     + (IF state[j] = "held" /\ outcome[j] = "none" THEN 1 ELSE 0)
  <2>6. /\ many <= IF state[j] = "none" \/ outcome[j] # "none" THEN 0 ELSE 1
        /\ state[j] # "none" /\ outcome[j] = "none" /\ thread[j] \notin doubled => many = 1
    BY <2>4, <2>5 DEF Place, Parked
  <2> USE DEF M, T
  <2> QED BY <2>2, <2>6
<1> QED BY <1>1, Holds, PTL

(* An outcome is heard once, by a waiter or at the return address, and by  *)
(* nobody when a stop took the return address along (threads.ts:444).      *)
THEOREM OutcomesHeardOnce == Spec => []HeardOnce
<1>1. IInv => HeardOnce
  <2> SUFFICES ASSUME IInv, NEW j \in Jobs
               PROVE  /\ replied[j] <= IF j \in hushed THEN 0 ELSE 1
                      /\ replied[j] = 1 => outcome[j] \in Final /\ ~Told(j)
    BY DEF HeardOnce, Told
  <2>1. Hearing(j) /\ replied[j] \in Nat BY DEF IInv, Rest, Heeded, TypeOK
  <2> QED BY <2>1 DEF Hearing
<1> QED BY <1>1, Holds, PTL

(* What concludes jobs concludes no other.                                 *)
LEMMA ConcludeFinal ==
  ASSUME IInv, NEW D \in SUBSET Jobs, NEW out \in [D -> Outcomes], NEW dead \in SUBSET Jobs,
         Conclude(out, dead), \A j \in D \cup dead : outcome[j] = "none"
  PROVE  \A j \in Jobs :
           /\ outcome[j] # "none" => outcome'[j] = outcome[j] /\ state'[j] = state[j]
           /\ state[j] = "cancelled" => state'[j] = "cancelled"
<1>0. TypeOK BY DEF IInv
<1> SUFFICES ASSUME NEW j \in Jobs
             PROVE  /\ outcome[j] # "none" => outcome'[j] = outcome[j] /\ state'[j] = state[j]
                    /\ state[j] = "cancelled" => state'[j] = "cancelled"
  OBVIOUS
<1>1. CASE j \in D BY <1>0, <1>1, ConcludeDoes
<1>2. CASE j \notin D BY <1>0, <1>2, ConcludeDoes
<1> QED BY <1>1, <1>2

(* No step of anyone takes an outcome back, nor a cancel, except the one   *)
(* that the code leaves open (threads.ts:434).                             *)
THEOREM OutcomesAreFinal == Spec => Finality
<1> DEFINE Stays == \A j \in Jobs :
             /\ outcome[j] # "none" => outcome'[j] = outcome[j] /\ state'[j] = state[j]
             /\ state[j] = "cancelled" /\ stage[j] # "rooting" => state'[j] = "cancelled"
<1>1. ASSUME IInv, Next PROVE Stays
  <2>0. TypeOK /\ Placed /\ Heeded /\ AskingIsHeld BY <1>1 DEF IInv, Rest
  <2>1. ASSUME UNCHANGED <<state, outcome>> PROVE Stays BY <2>1
  <2>2. ASSUME NEW j \in Jobs, Settle(j) PROVE Stays
    <3>1. CASE UNCHANGED <<state, outcome>> BY <3>1
    <3>2. CASE Conclude([k \in {j} |-> ended[j]], {})
      <4>1. ended[j] \in Outcomes BY <2>0, <2>2 DEF TypeOK, Settle
      <4>2. outcome[j] = "none" BY <2>0, <2>2 DEF Placed, Place, Settle
      <4> DEFINE out == [k \in {j} |-> ended[j]]
      <4>3. out \in [{j} -> Outcomes] /\ {j} \in SUBSET Jobs /\ {} \in SUBSET Jobs BY <4>1
      <4>4. Conclude(out, {}) BY <3>2
      <4> HIDE DEF out
      <4> QED BY <1>1, <4>2, <4>3, <4>4, ConcludeFinal
    <3> QED BY <2>2, <3>1, <3>2 DEF Settle
  <2>3. ASSUME NEW j \in Jobs, Rooted(j) PROVE Stays
    <3>1. stage[j] = "rooting" /\ outcome[j] = "none" BY <2>0, <2>3 DEF Placed, Place, Rooted
    <3>2. CASE Conclude([k \in {j} |-> "held"], {})
      <4> DEFINE out == [k \in {j} |-> "held"]
      <4>1. out \in [{j} -> Outcomes] /\ {j} \in SUBSET Jobs /\ {} \in SUBSET Jobs BY DEF Outcomes
      <4>2. Conclude(out, {}) BY <3>2
      <4> HIDE DEF out
      <4> QED BY <1>1, <3>1, <4>1, <4>2, ConcludeFinal
    <3>3. CASE state' = [state EXCEPT ![j] = "held"] /\ outcome' = outcome
      BY <2>0, <3>1, <3>3 DEF TypeOK
    <3> QED BY <2>3, <3>2, <3>3 DEF Rooted
  <2>4. ASSUME NEW j \in Jobs, NEW t, NEW back, Asked(j, t, back), outcome' = outcome PROVE Stays
    <3>1. state[j] = "none" /\ state' = [state EXCEPT ![j] = "pending"] BY <2>4 DEF Asked
    <3>2. outcome[j] = "none" BY <2>0, <3>1 DEF Heeded, Concluded
    <3> QED BY <2>0, <2>4, <3>1, <3>2 DEF TypeOK
  <2>5. ASSUME NEW j \in Jobs, Reply(j) PROVE Stays
    <3>1. outcome' = outcome BY <2>5 DEF Reply
    <3>2. state' = state \/ \E k \in Jobs : Asked(k, replyTo[j], returns[replyTo[j]]) BY <2>5 DEF Reply
    <3> QED BY <2>4, <3>1, <3>2
  <2>6. ASSUME NEW j \in Jobs, NEW t \in Threads, Ask(j, t) PROVE Stays BY <2>4, <2>6 DEF Ask
  <2>7. ASSUME NEW t \in Threads, CancelTree(t) PROVE Stays
    <3> DEFINE R == HeldIn(Tree(t))
               out == [j \in R |-> "cancelled"]
    <3>1. Conclude(out, R) /\ R \in SUBSET Jobs /\ out \in [R -> Outcomes]
      BY <2>7, HeldInJobs DEF CancelTree, Outcomes, Final
    <3>2. \A j \in R : outcome[j] = "none"
      <4>1. Tree(t) \in SUBSET Threads BY TreeThreads
      <4> QED BY <1>1, <4>1, HeldParked DEF Parked
    <3> HIDE DEF R, out
    <3> QED BY <1>1, <3>1, <3>2, ConcludeFinal
  <2>8. ASSUME NEW j \in Jobs, CancelRunning(j) PROVE Stays
    <3>1. thread[j] \in Threads
      BY <1>1, <2>8 DEF CancelRunning, IInv, TypeOK, Rest, Cancels, Heeded, Concluded
    <3> QED BY <2>7, <2>8, <3>1 DEF CancelRunning
  <2>9. ASSUME NEW t \in Threads, CancelThread(t) PROVE Stays BY <2>7, <2>9 DEF CancelThread
  <2>10. ASSUME NEW j \in Jobs, CancelJob(j) PROVE Stays
    <3>1. outcome[j] = "none" BY <2>10 DEF CancelJob
    <3>2. CASE state[j] = "held"
      <4> DEFINE out == [k \in {j} |-> "cancelled"]
      <4>1. out \in [{j} -> Outcomes] /\ {j} \in SUBSET Jobs BY DEF Outcomes, Final
      <4>2. Conclude(out, {j}) BY <2>10, <3>2 DEF CancelJob
      <4> HIDE DEF out
      <4> QED BY <1>1, <3>1, <4>1, <4>2, ConcludeFinal
    <3>3. CASE state[j] # "held"
      <4>1. state' = [state EXCEPT ![j] = "cancelled"] /\ outcome' = outcome BY <2>10, <3>3 DEF CancelJob
      <4> QED BY <2>0, <3>1, <4>1 DEF TypeOK
    <3> QED BY <3>2, <3>3
  <2>11. ASSUME NEW t \in Threads, NEW doomed \in {{t}, Tree(t)}, Stop(t, doomed) PROVE Stays
    <3> DEFINE unheard == {j \in Jobs : replyTo[j] \in doomed}
               mute == {j \in unheard : state[j] = "pending" /\ thread[j] \in doomed}
               R == HeldIn(doomed)
               out == [j \in R |-> IF j \in unheard THEN "cancelled" ELSE "stopped"]
               dead == mute \cup (R \cap unheard)
    <3>1. Conclude(out, dead) /\ R \in SUBSET Jobs /\ dead \in SUBSET Jobs /\ out \in [R -> Outcomes]
      BY <2>11, HeldInJobs DEF Stop, Outcomes, Final
    <3>2. \A j \in R \cup dead : outcome[j] = "none"
      <4>1. doomed \in SUBSET Threads BY <2>11, TreeThreads
      <4>2. \A j \in R : outcome[j] = "none" BY <1>1, <4>1, HeldParked DEF Parked
      <4>3. \A j \in mute : outcome[j] = "none" BY <2>0 DEF Heeded, Concluded
      <4> QED BY <4>2, <4>3
    <3> HIDE DEF R, out, dead
    <3> QED BY <1>1, <3>1, <3>2, ConcludeFinal
  <2>12. ASSUME NEW t \in Threads, Answer(t) PROVE Stays
    <3>1. outcome' = outcome BY <2>12 DEF Answer
    <3>2. CASE asking[t] # Nobody /\ state[asking[t]] = "held"
      <4>1. asking[t] \in Jobs /\ outcome[asking[t]] = "none" BY <1>1, <3>2, AskedFor
      <4>2. state' = [state EXCEPT ![asking[t]] = "pending"] BY <2>12, <3>2 DEF Answer
      <4> QED BY <2>0, <3>1, <3>2, <4>1, <4>2 DEF TypeOK
    <3>3. CASE ~(asking[t] # Nobody /\ state[asking[t]] = "held")
      <4>1. state' = state BY <2>12, <3>3 DEF Answer
      <4> QED BY <2>1, <3>1, <4>1
    <3> QED BY <3>2, <3>3
  <2>13. ASSUME NEW t \in Threads, Work(t) \/ Steer(t) \/ Post(t) PROVE Stays
    <3>1. UNCHANGED <<state, outcome>> BY <2>13 DEF Work, Start, Begin, End, Steer, Post, jobs
    <3> QED BY <2>1, <3>1
  <2>14. ASSUME NEW w \in Waits, (\E j \in Jobs : Wait(w, j)) \/ GiveUp(w) PROVE Stays
    <3>1. UNCHANGED <<state, outcome>> BY <2>14 DEF Wait, GiveUp
    <3> QED BY <2>1, <3>1
  <2> HIDE DEF Stays
  <2> QED BY <1>1, <2>2, <2>3, <2>5, <2>6, <2>8, <2>9, <2>10, <2>11, <2>12, <2>13, <2>14
          DEF Next, Continue
<1>2. IInv /\ [Next]_vars => [Stays]_vars BY <1>1
<1>3. Spec => [][Stays]_vars BY <1>2, Holds, PTL DEF Spec
<1> QED BY <1>3 DEF Finality
=============================================================================
