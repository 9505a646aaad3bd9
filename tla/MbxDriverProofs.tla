-------------------------- MODULE MbxDriverProofs --------------------------
(***************************************************************************)
(* Proofs about MbxDriver, for any files, classes, notifiers, sizes and    *)
(* numbers of messages.                                                    *)
(***************************************************************************)
EXTENDS MbxDriver, FiniteSetTheorems, WellFoundedInduction, TLAPS

-----------------------------------------------------------------------------
(* The inductive invariants.                                               *)

Types ==
  /\ owner \in [Classes -> Notifiers \cup {NULL}]
  /\ queue \in [Classes -> [Kinds -> Seq(Contents)]]
  /\ notif \in [Notifiers -> [id : Files \cup {NULL}, enable : BOOLEAN]]
  /\ role \in {"NONE", "SET", "FAILED"}
  /\ ready \in BOOLEAN
  /\ done \in [Classes -> Nat]
  /\ open \subseteq Files
  /\ recv \in [Files -> [pc : {"idle", "wait", "fetch"}, class : Classes \cup {NULL}]]
  /\ cb \in [pc : {"idle", "class", "enabled", "add", "complete"}, class : Classes \cup {NULL},
             kind : Kinds \cup {NULL}, notif : Notifiers \cup {NULL}]

\* Calls under way are about a class.
Aimed ==
  /\ \A f \in Files : recv[f].pc # "idle" => recv[f].class \in Classes
  /\ cb.pc # "idle" => cb.class \in Classes /\ cb.kind \in Kinds

\* A class that nobody has registered has no messages.
Empty == \A c \in Classes : owner[c] = NULL => \A k \in Kinds : queue[c][k] = <<>>

\* Nothing is received before the completions have been initialised.
Dormant ==
  /\ role = "SET" => ready
  /\ ~ready => /\ cb.pc = "idle"
               /\ \A f \in Files : recv[f].pc = "idle"
               /\ \A c \in Classes, k \in Kinds : queue[c][k] = <<>>

\* The receivers that follow an announcement can be counted.
Countable == \A c \in Classes : IsFiniteSet(Following(c))

IndInv == Types /\ Aimed /\ Empty /\ Dormant /\ Countable /\ MessageAnnounced

-----------------------------------------------------------------------------
(* Notifiers.                                                              *)

\* The first number of a set is one of them.
LEMMA MinIn ==
  ASSUME NEW S \in SUBSET Nat, S # {}
  PROVE  Min(S) \in S
<1> DEFINE R == OpToRel(<, Nat)
<1>1. \A x, y \in Nat : y < x => <<y, x>> \in R
  BY DEF OpToRel
<1>2. IsWellFoundedOn(R, Nat)
  BY NatLessThanWellFounded
<1> HIDE DEF R
<1>3. PICK x \in S : \A y \in S : ~(<<y, x>> \in R)
  BY <1>2, WFMin
<1>4. ASSUME NEW y \in S PROVE x <= y
  <2>1. x \in Nat /\ y \in Nat /\ ~(y < x)
    BY <1>1, <1>3
  <2> QED
    BY <2>1
<1> QED
  BY <1>4 DEF Min

\* The notifier that a call finds is one of its file's.
LEMMA CallerIs ==
  ASSUME NEW f \in Files, NotifierOf(f) # {}
  PROVE  Caller(f) \in Notifiers /\ notif[Caller(f)].id = f
<1>1. NotifierOf(f) \in SUBSET Nat
  BY NotifierAssumption DEF NotifierOf, Notifiers
<1>2. Caller(f) \in NotifierOf(f)
  BY <1>1, MinIn DEF Caller, GetAsyncNotifierIDByAsyncID
<1> QED
  BY <1>2 DEF NotifierOf

\* Init takes an unused notifier, or keeps the one that it finds.
LEMMA AllocateIs ==
  ASSUME NEW f \in Files, Candidates(f) # {}, AllocateAsyncNotifier(f)
  PROVE  \E n \in Notifiers :
           \/ notif[n].id = f /\ notif' = notif
           \/ notif[n].id = NULL /\ notif' = [notif EXCEPT ![n] = [id |-> f, enable |-> FALSE]]
<1>1. Candidates(f) \in SUBSET Nat
  BY NotifierAssumption DEF Candidates, Notifiers
<1>2. PICK n : n = Min(Candidates(f))
  OBVIOUS
<1>3. n \in Notifiers /\ notif[n].id \in {NULL, f}
  BY <1>1, <1>2, MinIn DEF Candidates
<1>4. notif' = IF notif[n].id = f THEN notif ELSE [notif EXCEPT ![n] = [id |-> f, enable |-> FALSE]]
  BY <1>2 DEF AllocateAsyncNotifier
<1> QED
  BY <1>3, <1>4

-----------------------------------------------------------------------------
(* The queues.                                                             *)

\* Calls of a client leave every queue as it is or empty it, and change only
\* classes of its own.
QueuesKept(n) ==
  /\ owner' \in [Classes -> Notifiers \cup {NULL}]
  /\ queue' \in [Classes -> [Kinds -> Seq(Contents)]]
  /\ \A c \in Classes, k \in Kinds : queue'[c][k] = queue[c][k] \/ queue'[c][k] = <<>>
  /\ \A c \in Classes : owner'[c] \in {owner[c], NULL, n}
  /\ Empty'

\* A class without messages.
LEMMA NothingThere ==
  /\ Q!Nothing \in [Kinds -> Seq(Contents)]
  /\ \A k \in Kinds : Q!Nothing[k] = <<>>
BY DEF Q!Nothing, Kinds, Q!Kinds

\* One queue of one class is replaced.
LEMMA SetMessage ==
  ASSUME NEW q \in [Classes -> [Kinds -> Seq(Contents)]], NEW d \in Classes, NEW a \in Kinds, NEW x
  PROVE  /\ x \in Seq(Contents) => [q EXCEPT ![d][a] = x] \in [Classes -> [Kinds -> Seq(Contents)]]
         /\ [q EXCEPT ![d][a] = x][d][a] = x
         /\ \A c \in Classes, k \in Kinds : (c # d \/ k # a) => [q EXCEPT ![d][a] = x][c][k] = q[c][k]
<1>1. q[d] \in [Kinds -> Seq(Contents)]
  OBVIOUS
<1>2. x \in Seq(Contents) => [q[d] EXCEPT ![a] = x] \in [Kinds -> Seq(Contents)]
  BY <1>1
<1> QED
  BY <1>1, <1>2

LEMMA RefuseKept ==
  ASSUME Types, Empty, NEW n \in Notifiers, NEW e, Q!Refuse(e)
  PROVE  QueuesKept(n)
BY DEF Q!Refuse, QueuesKept, Types, Empty

LEMMA FreeKept ==
  ASSUME Types, Empty, NEW n \in Notifiers, NEW cs, Q!Free(cs)
  PROVE  QueuesKept(n)
<1>1. \A c \in Classes : /\ owner'[c] = IF c \in cs THEN NULL ELSE owner[c]
                         /\ queue'[c] = IF c \in cs THEN Q!Nothing ELSE queue[c]
  BY DEF Q!Free
<1>2. /\ owner' \in [Classes -> Notifiers \cup {NULL}]
      /\ queue' \in [Classes -> [Kinds -> Seq(Contents)]]
  BY NothingThere DEF Q!Free, Types
<1>3. \A c \in Classes, k \in Kinds :
        /\ queue'[c][k] = queue[c][k] \/ queue'[c][k] = <<>>
        /\ owner'[c] = NULL => queue'[c][k] = <<>>
  BY <1>1, NothingThere DEF Empty
<1>4. Empty'
  BY <1>3 DEF Empty
<1> QED
  BY <1>1, <1>2, <1>3, <1>4 DEF QueuesKept

LEMMA RegisterKept ==
  ASSUME Types, Empty, NEW n \in Notifiers, NEW c \in Classes, NEW s, Q!Register(n, c, s)
  PROVE  QueuesKept(n)
<1>1. CASE \E e : Q!Refuse(e)
  BY <1>1, RefuseKept
<1>2. CASE owner' = [owner EXCEPT ![c] = n] /\ queue' = queue
  <2>1. n # NULL
    BY NullAssumption
  <2> QED
    BY <1>2, <2>1 DEF QueuesKept, Types, Empty
<1> QED
  BY <1>1, <1>2 DEF Q!Register

LEMMA UnRegisterKept ==
  ASSUME Types, Empty, NEW n \in Notifiers, NEW c \in Classes, NEW force, Q!UnRegister(n, c, force)
  PROVE  QueuesKept(n)
BY RefuseKept, FreeKept DEF Q!UnRegister

LEMMA UnRegisterAllKept ==
  ASSUME Types, Empty, NEW n \in Notifiers, NEW force, Q!UnRegisterAll(n, force)
  PROVE  QueuesKept(n)
BY RefuseKept, FreeKept DEF Q!UnRegisterAll

LEMMA ClearKept ==
  ASSUME Types, Empty, NEW n \in Notifiers, NEW c \in Classes, Q!Clear(n, c)
  PROVE  QueuesKept(n)
<1>1. CASE \E e : Q!Refuse(e)
  BY <1>1, RefuseKept
<1>2. CASE queue' = [queue EXCEPT ![c] = Q!Nothing] /\ owner' = owner
  <2>1. queue'[c] = Q!Nothing /\ \A d \in Classes \ {c} : queue'[d] = queue[d]
    BY <1>2 DEF Types
  <2>2. queue' \in [Classes -> [Kinds -> Seq(Contents)]]
    BY <1>2, NothingThere DEF Types
  <2> QED
    BY <1>2, <2>1, <2>2, NothingThere DEF QueuesKept, Types, Empty
<1> QED
  BY <1>1, <1>2 DEF Q!Clear

-----------------------------------------------------------------------------
(* Announcements.                                                          *)

\* The announcement that the tasklet is about to make.
About(c) == IF cb.pc = "complete" /\ cb.class = c THEN 1 ELSE 0
Announced(c) == Len(queue[c][Asks[c]]) <= done[c] + Cardinality(Following(c)) + About(c)

\* The numbers that the count is about.
LEMMA AnnouncedTypes ==
  ASSUME Types, Countable, NEW c \in Classes
  PROVE  /\ Asks[c] \in Kinds /\ queue[c][Asks[c]] \in Seq(Contents)
         /\ Len(queue[c][Asks[c]]) \in Nat /\ done[c] \in Nat
         /\ Cardinality(Following(c)) \in Nat /\ About(c) \in Nat
<1>1. Asks[c] \in Kinds /\ queue[c][Asks[c]] \in Seq(Contents) /\ done[c] \in Nat
  BY AsksAssumption DEF Types
<1>2. Cardinality(Following(c)) \in Nat
  BY FS_CardinalityType DEF Countable
<1> QED
  BY <1>1, <1>2 DEF About

\* No announcement is taken, and no message is added.
LEMMA QuietAnnounced ==
  ASSUME IndInv, done' = done, \A c \in Classes : About(c)' = About(c),
         \A c \in Classes : Following(c)' = Following(c),
         \A c \in Classes, k \in Kinds : queue'[c][k] = queue[c][k] \/ queue'[c][k] = <<>>
  PROVE  Countable' /\ MessageAnnounced'
<1>1. Countable'
  BY DEF IndInv, Countable
<1>2. ASSUME NEW c \in Classes PROVE Announced(c)'
  <2>1. Announced(c)
    BY DEF IndInv, MessageAnnounced, Announced, About
  <2>2. queue'[c][Asks[c]] = queue[c][Asks[c]] \/ queue'[c][Asks[c]] = <<>>
    BY AnnouncedTypes DEF IndInv
  <2>3. Len(<<>>) = 0
    OBVIOUS
  <2>4. Len(queue'[c][Asks[c]]) \in Nat /\ Len(queue'[c][Asks[c]]) <= Len(queue[c][Asks[c]])
    BY <2>2, <2>3, AnnouncedTypes DEF IndInv
  <2> QED
    BY <2>1, <2>4, AnnouncedTypes DEF IndInv, Announced
<1> QED
  BY <1>1, <1>2 DEF MessageAnnounced, Announced, About

\* A receiver leaves its wait, with a completion or without.
LEMMA WaitEndsAnnounced ==
  ASSUME IndInv, NEW f \in Files, recv[f].pc = "wait", queue' = queue, cb' = cb,
         recv' = [recv EXCEPT ![f].pc = "fetch"],
         \/ done' = done
         \/ done[recv[f].class] > 0 /\ done' = [done EXCEPT ![recv[f].class] = @ - 1]
  PROVE  Countable' /\ MessageAnnounced'
<1>1. PICK d \in Classes : d = recv[f].class
  BY DEF IndInv, Aimed
<1>2. /\ recv'[f].pc = "fetch" /\ recv'[f].class = d
      /\ \A g \in Files \ {f} : recv'[g] = recv[g]
  BY <1>1 DEF IndInv, Types
<1>3. f \notin Following(d) /\ Following(d)' = Following(d) \cup {f}
  BY <1>1, <1>2 DEF Following
<1>4. \A c \in Classes \ {d} : Following(c)' = Following(c)
  BY <1>1, <1>2 DEF Following
<1>5. /\ IsFiniteSet(Following(d)')
      /\ Cardinality(Following(d)') = Cardinality(Following(d)) + 1
  <2>1. IsFiniteSet(Following(d))
    BY DEF IndInv, Countable
  <2> QED
    BY <1>3, <2>1, FS_AddElement
<1>6. Countable'
  BY <1>4, <1>5 DEF IndInv, Countable
<1>7. \A c \in Classes : About(c)' = About(c)
  BY DEF About
<1>8. ASSUME NEW c \in Classes PROVE Announced(c)'
  <2>1. Announced(c)
    BY DEF IndInv, MessageAnnounced, Announced, About
  <2>2. CASE c # d
    <3>1. done'[c] = done[c]
      BY <1>1, <2>2 DEF IndInv, Types
    <3> QED
      BY <1>4, <1>7, <2>1, <2>2, <3>1 DEF Announced
  <2>3. CASE c = d
    <3>1. done'[d] \in Nat /\ done'[d] >= done[d] - 1
      BY <1>1 DEF IndInv, Types
    <3> QED
      <4>1. Len(queue[d][Asks[d]]) <= done[d] + Cardinality(Following(d)) + About(d)
        BY <2>1, <2>3 DEF Announced
      <4>2. PICK x \in Nat, y \in Nat, z \in Nat, w \in Nat :
              /\ x = Len(queue[d][Asks[d]]) /\ y = done[d]
              /\ z = Cardinality(Following(d)) /\ w = About(d)
        BY AnnouncedTypes DEF IndInv
      <4>3. PICK v \in Nat : v = done'[d]
        BY <3>1
      <4>4. v >= y - 1 /\ x <= y + z + w
        BY <3>1, <4>1, <4>2, <4>3
      <4>5. x <= v + (z + 1) + w
        BY <4>4
      <4> QED
        BY <1>5, <1>7, <2>3, <4>2, <4>3, <4>5 DEF Announced
  <2> QED
    BY <2>2, <2>3
<1> QED
  BY <1>6, <1>8 DEF MessageAnnounced, Announced, About

\* A receiver takes the oldest message of the kind asked for, or finds none.
LEMMA FetchAnnounced ==
  ASSUME IndInv, NEW f \in Files, Fetch(f)
  PROVE  /\ owner' = owner /\ queue' \in [Classes -> [Kinds -> Seq(Contents)]]
         /\ \A c \in Classes, k \in Kinds : queue[c][k] = <<>> => queue'[c][k] = <<>>
         /\ Countable' /\ MessageAnnounced'
<1>1. PICK d \in Classes : d = recv[f].class /\ recv[f].pc = "fetch"
  BY DEF IndInv, Aimed, Fetch
<1>2. PICK a \in Kinds : a = Asks[d]
  BY AsksAssumption
<1>3. queue[d][a] \in Seq(Contents) /\ owner' = owner /\ done' = done /\ cb' = cb
  BY DEF IndInv, Types, Fetch, Q!Recv, Q!Refuse, Q!Fetch
<1>4. \/ queue[d][a] = <<>> /\ queue' = queue
      \/ queue[d][a] # <<>> /\ queue' = [queue EXCEPT ![d][a] = Tail(@)]
  <2>1. owner[d] = NULL => queue[d][a] = <<>>
    BY DEF IndInv, Empty
  <2>2. Q!Recv(d, a)
    BY <1>1, <1>2 DEF Fetch
  <2> QED
    BY <2>1, <2>2 DEF Q!Recv, Q!Refuse, Q!Fetch
<1>5. queue' \in [Classes -> [Kinds -> Seq(Contents)]]
  <2>1. queue[d][a] # <<>> => Tail(queue[d][a]) \in Seq(Contents)
    BY <1>3
  <2>2. queue \in [Classes -> [Kinds -> Seq(Contents)]]
    BY DEF IndInv, Types
  <2> QED
    <3>1. CASE queue' = queue
      BY <2>2, <3>1
    <3>2. CASE queue[d][a] # <<>> /\ queue' = [queue EXCEPT ![d][a] = Tail(@)]
      <4>1. PICK q \in [Classes -> [Kinds -> Seq(Contents)]], x \in Seq(Contents) :
              q = queue /\ x = Tail(queue[d][a])
        BY <2>1, <2>2, <3>2
      <4>2. [q EXCEPT ![d][a] = x] \in [Classes -> [Kinds -> Seq(Contents)]]
        BY SetMessage
      <4> QED
        BY <3>2, <4>1, <4>2
    <3> QED
      BY <1>4, <3>1, <3>2
<1>6. \A c \in Classes, k \in Kinds : (c # d \/ k # a) => queue'[c][k] = queue[c][k]
  <2>1. queue \in [Classes -> [Kinds -> Seq(Contents)]]
    BY DEF IndInv, Types
  <2> QED
    BY <1>4, <2>1, SetMessage
<1>7. \/ queue[d][a] = <<>> /\ queue'[d][a] = <<>>
      \/ queue[d][a] # <<>> /\ queue'[d][a] = Tail(queue[d][a])
  <2>1. queue \in [Classes -> [Kinds -> Seq(Contents)]]
    BY DEF IndInv, Types
  <2>2. CASE queue[d][a] = <<>> /\ queue' = queue
    BY <2>2
  <2>3. CASE queue[d][a] # <<>> /\ queue' = [queue EXCEPT ![d][a] = Tail(@)]
    BY <2>1, <2>3
  <2> QED
    BY <1>4, <2>2, <2>3
<1>8. \/ Len(queue'[d][a]) = 0
      \/ Len(queue'[d][a]) = Len(queue[d][a]) - 1
  <2>1. CASE queue'[d][a] = <<>>
    BY <2>1
  <2>2. CASE queue[d][a] # <<>> /\ queue'[d][a] = Tail(queue[d][a])
    BY <1>3, <2>2
  <2> QED
    BY <1>7, <2>1, <2>2
<1>9. recv'[f] = NoRecv /\ \A g \in Files \ {f} : recv'[g] = recv[g]
  BY DEF Fetch, IndInv, Types
<1>10. f \in Following(d) /\ Following(d)' = Following(d) \ {f}
  BY <1>1, <1>9 DEF Following, NoRecv
<1>11. \A c \in Classes \ {d} : Following(c)' = Following(c)
  BY <1>1, <1>9 DEF Following, NoRecv
<1>12. /\ IsFiniteSet(Following(d)')
       /\ Cardinality(Following(d)') = Cardinality(Following(d)) - 1
       /\ Cardinality(Following(d)') \in Nat
  <2>1. IsFiniteSet(Following(d))
    BY DEF IndInv, Countable
  <2> QED
    BY <1>10, <2>1, FS_RemoveElement, FS_CardinalityType
<1>13. Countable'
  BY <1>11, <1>12 DEF IndInv, Countable
<1>14. \A c \in Classes : About(c)' = About(c)
  BY <1>3 DEF About
<1>15. ASSUME NEW c \in Classes PROVE Announced(c)'
  <2>1. Announced(c)
    BY DEF IndInv, MessageAnnounced, Announced, About
  <2>2. CASE c # d
    BY <1>3, <1>6, <1>11, <1>14, <2>1, <2>2, AnnouncedTypes DEF IndInv, Announced
  <2>3. CASE c = d
    BY SMTT(20), <1>2, <1>3, <1>8, <1>12, <1>14, <2>1, <2>3, AnnouncedTypes DEF IndInv, Announced
  <2> QED
    BY <2>2, <2>3
<1> QED
  BY <1>3, <1>5, <1>6, <1>7, <1>13, <1>15 DEF MessageAnnounced, Announced, About

\* A message is added; the tasklet goes on to announce it.
LEMMA AddAnnounced ==
  ASSUME IndInv, AddMSG
  PROVE  /\ owner' = owner /\ queue' \in [Classes -> [Kinds -> Seq(Contents)]]
         /\ Empty' /\ Countable' /\ MessageAnnounced'
<1>1. PICK d \in Classes : d = cb.class /\ cb.pc = "add"
  BY DEF IndInv, Aimed, AddMSG
<1>2. PICK a \in Kinds : a = cb.kind
  BY DEF IndInv, Aimed, AddMSG
<1>3. /\ queue[d][a] \in Seq(Contents) /\ owner' = owner /\ done' = done /\ recv' = recv
      /\ cb'.pc = "complete" /\ cb'.class = d
  BY <1>1 DEF IndInv, Types, AddMSG, Q!Add, Q!Refuse
<1>4. queue' = queue \/ (owner[d] # NULL /\ queue' = [queue EXCEPT ![d][a] = Append(@, "m")])
  BY <1>1, <1>2 DEF AddMSG, Q!Add, Q!Refuse
<1>5. queue' \in [Classes -> [Kinds -> Seq(Contents)]]
  <2>1. Append(queue[d][a], "m") \in Seq(Contents)
    BY <1>3 DEF Contents
  <2>2. queue \in [Classes -> [Kinds -> Seq(Contents)]]
    BY DEF IndInv, Types
  <2>3. CASE queue' = [queue EXCEPT ![d][a] = Append(@, "m")]
    <3>1. PICK q \in [Classes -> [Kinds -> Seq(Contents)]], x \in Seq(Contents) :
            q = queue /\ x = Append(queue[d][a], "m")
      BY <2>1, <2>2
    <3>2. [q EXCEPT ![d][a] = x] \in [Classes -> [Kinds -> Seq(Contents)]]
      BY SetMessage
    <3> QED
      BY <2>3, <3>1, <3>2
  <2> QED
    BY <1>4, <2>2, <2>3
<1>6. \A c \in Classes, k \in Kinds : (c # d \/ k # a) => queue'[c][k] = queue[c][k]
  BY <1>4 DEF IndInv, Types
<1>7. \/ queue'[d][a] = queue[d][a]
      \/ queue'[d][a] = Append(queue[d][a], "m")
  BY <1>4 DEF IndInv, Types
<1>8. Len(queue'[d][a]) \in Nat /\ Len(queue'[d][a]) <= Len(queue[d][a]) + 1
  BY <1>3, <1>7
<1>9. Empty'
  BY <1>3, <1>4, <1>6 DEF IndInv, Empty
<1>10. \A c \in Classes : Following(c)' = Following(c)
  BY <1>3 DEF Following
<1>11. Countable'
  BY <1>10 DEF IndInv, Countable
<1>12. About(d) = 0 /\ About(d)' = 1 /\ \A c \in Classes \ {d} : About(c)' = About(c)
  BY <1>1, <1>3 DEF About
<1>13. ASSUME NEW c \in Classes PROVE Announced(c)'
  <2>1. Announced(c)
    BY DEF IndInv, MessageAnnounced, Announced, About
  <2>2. CASE c # d
    BY <1>3, <1>6, <1>10, <1>12, <2>1, <2>2, AnnouncedTypes DEF IndInv, Announced
  <2>3. CASE c = d
    <3>1. Len(queue'[d][Asks[d]]) \in Nat /\ Len(queue'[d][Asks[d]]) <= Len(queue[d][Asks[d]]) + 1
      <4>1. CASE Asks[d] = a
        BY <1>8, <4>1
      <4>2. CASE Asks[d] # a
        BY <1>6, <4>2, AnnouncedTypes DEF IndInv
      <4> QED
        BY <4>1, <4>2
    <3>2. PICK l \in Nat, m \in Nat, x \in Nat, y \in Nat :
            /\ l = Len(queue[d][Asks[d]]) /\ m = Len(queue'[d][Asks[d]])
            /\ x = done[d] /\ y = Cardinality(Following(d))
      BY <3>1, AnnouncedTypes DEF IndInv
    <3>3. l <= x + y
      BY <1>12, <2>1, <2>3, <3>2 DEF Announced
    <3>4. done'[d] = x /\ Cardinality(Following(d)') = y
      BY <1>3, <1>10, <3>2
    <3>5. m <= l + 1
      BY <3>1, <3>2
    <3>6. m <= x + y + 1
      BY <3>3, <3>5
    <3> QED
      BY <1>12, <2>3, <3>2, <3>4, <3>6 DEF Announced
  <2> QED
    BY <2>2, <2>3
<1> QED
  BY <1>3, <1>5, <1>9, <1>11, <1>13 DEF MessageAnnounced, Announced, About

\* The tasklet makes its announcement.
LEMMA CompleteAnnounced ==
  ASSUME IndInv, Complete
  PROVE  done' \in [Classes -> Nat] /\ Countable' /\ MessageAnnounced'
<1>1. PICK d \in Classes : d = cb.class /\ cb.pc = "complete"
  BY DEF IndInv, Aimed, Complete
<1>2. /\ done' = [done EXCEPT ![d] = @ + 1] /\ queue' = queue /\ recv' = recv /\ cb' = NoMail
      /\ done \in [Classes -> Nat]
  BY <1>1 DEF IndInv, Types, Complete, queues
<1>3. \A c \in Classes : Following(c)' = Following(c)
  BY <1>2 DEF Following
<1>4. Countable'
  BY <1>3 DEF IndInv, Countable
<1>5. About(d) = 1 /\ About(d)' = 0 /\ \A c \in Classes \ {d} : About(c)' = About(c)
  BY <1>1, <1>2 DEF About, NoMail
<1>6. ASSUME NEW c \in Classes PROVE Announced(c)'
  <2>1. Announced(c)
    BY DEF IndInv, MessageAnnounced, Announced, About
  <2>2. CASE c # d
    BY <1>2, <1>3, <1>5, <2>1, <2>2, AnnouncedTypes DEF IndInv, Announced
  <2>3. CASE c = d
    BY <1>2, <1>3, <1>5, <2>1, <2>3, AnnouncedTypes DEF IndInv, Announced
  <2> QED
    BY <2>2, <2>3
<1> QED
  BY <1>2, <1>4, <1>6 DEF MessageAnnounced, Announced, About

\* The completions are initialised, before there is a message.
LEMMA ResetAnnounced ==
  ASSUME IndInv, ~ready, done' = [c \in Classes |-> 0], queue' = queue, recv' = recv, cb' = cb
  PROVE  Countable' /\ MessageAnnounced'
<1>1. \A c \in Classes : Following(c)' = Following(c) /\ About(c)' = About(c)
  BY DEF Following, About
<1>2. Countable'
  BY <1>1 DEF IndInv, Countable
<1>3. ASSUME NEW c \in Classes PROVE Announced(c)'
  <2>1. Len(queue[c][Asks[c]]) = 0
    BY AnnouncedTypes DEF IndInv, Dormant
  <2> QED
    BY <1>1, <2>1, AnnouncedTypes DEF IndInv, Announced
<1> QED
  BY <1>2, <1>3 DEF MessageAnnounced, Announced, About

-----------------------------------------------------------------------------
(* The steps.                                                              *)

NotifierTable == [Notifiers -> [id : Files \cup {NULL}, enable : BOOLEAN]]

\* What DeInit does: to the classes of the notifier, and to the notifier once it
\* has none left.
LEMMA DeInitIs ==
  ASSUME Types, Empty, NEW f \in Files, NotifierOf(f) # {}, NEW force \in BOOLEAN, DeInit(f, force)
  PROVE  /\ Caller(f) \in Notifiers /\ notif[Caller(f)].id = f /\ QueuesKept(Caller(f))
         /\ notif' \in NotifierTable
         /\ \/ notif' = notif /\ ~force
            \/ /\ notif' = [notif EXCEPT ![Caller(f)] = Unused]
               /\ \A c \in Classes : owner'[c] # Caller(f) /\ owner'[c] \in {owner[c], NULL}
<1>1. PICK n \in Notifiers : n = Caller(f) /\ notif[n].id = f
  BY CallerIs
<1>2. /\ Q!UnRegisterAll(n, force)
      /\ IF force /\ result' = "SUCCESS" THEN notif' = [notif EXCEPT ![n] = Unused] ELSE notif' = notif
  BY <1>1 DEF DeInit, Caller, FreeAsyncNotifierByID
<1>3. QueuesKept(n)
  BY <1>2, UnRegisterAllKept
<1>4. notif \in NotifierTable /\ Unused \in [id : Files \cup {NULL}, enable : BOOLEAN]
  BY DEF Types, NotifierTable, Unused
<1>5. CASE ~force
  BY <1>1, <1>2, <1>3, <1>4, <1>5
<1>6. CASE force
  <2>1. Q!Free({c \in Classes : owner[c] = n})
    BY <1>2, <1>6 DEF Q!UnRegisterAll
  <2>2. result' = "SUCCESS" /\ \A c \in Classes : owner'[c] = IF owner[c] = n THEN NULL ELSE owner[c]
    BY <2>1 DEF Q!Free
  <2>3. n # NULL
    BY NullAssumption
  <2>4. notif' = [notif EXCEPT ![n] = Unused]
    BY <1>2, <1>6, <2>2
  <2>5. notif' \in NotifierTable
    BY <1>4, <2>4 DEF NotifierTable
  <2> QED
    BY <1>1, <1>3, <2>2, <2>3, <2>4, <2>5
<1> QED
  BY <1>5, <1>6

\* A call of a controlling thread.
LEMMA ControlStep ==
  ASSUME IndInv, NEW n \in Notifiers, QueuesKept(n), UNCHANGED <<role, ready, done, recv, cb>>,
         notif' \in NotifierTable, open' \subseteq Files
  PROVE  IndInv'
<1>1. Types'
  BY DEF IndInv, Types, QueuesKept, NotifierTable
<1>2. Aimed' /\ Dormant'
  BY DEF IndInv, Aimed, Dormant, QueuesKept
<1>3. Countable' /\ MessageAnnounced'
  <2>1. \A c \in Classes : About(c)' = About(c) /\ Following(c)' = Following(c)
    BY DEF About, Following
  <2> QED
    BY <2>1, QuietAnnounced DEF QueuesKept
<1> QED
  BY <1>1, <1>2, <1>3 DEF IndInv, QueuesKept

\* Calls that do not touch the queues.
LEMMA QueuesStay ==
  ASSUME Types, Empty, NEW n \in Notifiers, UNCHANGED queues
  PROVE  QueuesKept(n)
BY DEF Types, Empty, QueuesKept, queues

\* Init.
LEMMA InitStep ==
  ASSUME IndInv, NEW f \in Files, MBX_Init(f)
  PROVE  IndInv' /\ notif' \in NotifierTable
<1>1. PICK n \in Notifiers :
        \/ notif[n].id = f /\ notif' = notif
        \/ notif[n].id = NULL /\ notif' = [notif EXCEPT ![n] = [id |-> f, enable |-> FALSE]]
  BY AllocateIs DEF MBX_Init
<1>2. notif' \in NotifierTable
  <2>1. notif \in NotifierTable /\ [id |-> f, enable |-> FALSE] \in [id : Files \cup {NULL}, enable : BOOLEAN]
    BY DEF IndInv, Types, NotifierTable
  <2> QED
    BY <1>1, <2>1 DEF NotifierTable
<1>3. /\ UNCHANGED <<owner, queue, open, recv, cb>>
      /\ \/ UNCHANGED <<ready, done>> /\ (role' = role \/ (role = "NONE" /\ role' = "FAILED"))
         \/ ready' = TRUE /\ role' = "SET" /\ done' = IF ready THEN done ELSE [c \in Classes |-> 0]
  BY DEF MBX_Init, queues
<1>4. Types'
  <2>1. done' \in [Classes -> Nat] /\ ready' \in BOOLEAN /\ role' \in {"NONE", "SET", "FAILED"}
    <3>1. done \in [Classes -> Nat] /\ ready \in BOOLEAN /\ role \in {"NONE", "SET", "FAILED"}
      BY DEF IndInv, Types
    <3>2. [c \in Classes |-> 0] \in [Classes -> Nat]
      OBVIOUS
    <3>3. CASE UNCHANGED <<ready, done>> /\ (role' = role \/ (role = "NONE" /\ role' = "FAILED"))
      BY <3>1, <3>3
    <3>4. CASE ready' = TRUE /\ role' = "SET" /\ done' = IF ready THEN done ELSE [c \in Classes |-> 0]
      <4>1. done' = done \/ done' = [c \in Classes |-> 0]
        BY <3>4
      <4>2. done' \in [Classes -> Nat]
        BY <3>1, <3>2, <4>1
      <4> QED
        BY <3>4, <4>2
    <3> QED
      BY <1>3, <3>3, <3>4
  <2> QED
    BY <1>2, <1>3, <2>1 DEF IndInv, Types, NotifierTable
<1>5. Aimed' /\ Empty' /\ Dormant'
  BY <1>3 DEF IndInv, Aimed, Empty, Dormant
<1>6. Countable' /\ MessageAnnounced'
  <2>1. CASE done' = done
    <3>1. \A c \in Classes : About(c)' = About(c) /\ Following(c)' = Following(c)
      BY <1>3 DEF About, Following
    <3> QED
      BY <1>3, <2>1, <3>1, QuietAnnounced
  <2>2. CASE ~ready /\ done' = [c \in Classes |-> 0]
    BY <1>3, <2>2, ResetAnnounced
  <2>3. ready \in BOOLEAN
    BY DEF IndInv, Types
  <2> QED
    BY <1>3, <2>1, <2>2, <2>3
<1> QED
  BY <1>2, <1>4, <1>5, <1>6 DEF IndInv

\* Receivers.
LEMMA ReceiveStep ==
  ASSUME IndInv, NEW f \in Files, Receive(f)
  PROVE  IndInv' /\ UNCHANGED <<owner, notif, open>>
<1>1. recv \in [Files -> [pc : {"idle", "wait", "fetch"}, class : Classes \cup {NULL}]]
  BY DEF IndInv, Types
<1>2. ASSUME NEW c \in Classes, RecvMsg(f, c) PROVE IndInv' /\ UNCHANGED <<owner, notif, open>>
  <2>1. /\ ready /\ recv[f].pc = "idle" /\ UNCHANGED <<queues, notif, role, ready, done, open, cb>>
        /\ recv' = [recv EXCEPT ![f] = [pc |-> "wait", class |-> c]]
    BY <1>2 DEF RecvMsg
  <2>2. /\ recv'[f] = [pc |-> "wait", class |-> c] /\ \A g \in Files \ {f} : recv'[g] = recv[g]
        /\ recv' \in [Files -> [pc : {"idle", "wait", "fetch"}, class : Classes \cup {NULL}]]
    BY <1>1, <2>1
  <2>3. Types'
    BY <2>1, <2>2 DEF IndInv, Types, queues
  <2>4. Aimed' /\ Empty' /\ Dormant'
    BY <2>1, <2>2 DEF IndInv, Aimed, Empty, Dormant, queues
  <2>5. \A d \in Classes : About(d)' = About(d) /\ Following(d)' = Following(d)
    BY <2>1, <2>2 DEF About, Following
  <2>6. Countable' /\ MessageAnnounced'
    BY <2>1, <2>5, QuietAnnounced DEF queues
  <2> QED
    BY <2>1, <2>3, <2>4, <2>6 DEF IndInv, queues
<1>3. ASSUME Completed(f) \/ TimedOut(f) PROVE IndInv' /\ UNCHANGED <<owner, notif, open>>
  <2>1. /\ recv[f].pc = "wait" /\ recv[f].class \in Classes
        /\ UNCHANGED <<queues, notif, role, ready, open, cb>>
        /\ recv' = [recv EXCEPT ![f].pc = "fetch"]
        /\ \/ done' = done
           \/ done[recv[f].class] > 0 /\ done' = [done EXCEPT ![recv[f].class] = @ - 1]
    BY <1>3 DEF Completed, TimedOut, IndInv, Aimed
  <2>2. /\ recv'[f].pc = "fetch" /\ recv'[f].class = recv[f].class
        /\ \A g \in Files \ {f} : recv'[g] = recv[g]
        /\ recv' \in [Files -> [pc : {"idle", "wait", "fetch"}, class : Classes \cup {NULL}]]
    BY <1>1, <2>1
  <2>3. done' \in [Classes -> Nat]
    <3>1. done \in [Classes -> Nat]
      BY DEF IndInv, Types
    <3> QED
      BY <2>1, <3>1
  <2>4. Types'
    BY <2>1, <2>2, <2>3 DEF IndInv, Types, queues
  <2>5. ready
    BY <2>1 DEF IndInv, Dormant
  <2>6. Aimed' /\ Empty' /\ Dormant'
    BY <2>1, <2>2, <2>5 DEF IndInv, Aimed, Empty, Dormant, queues
  <2>7. Countable' /\ MessageAnnounced'
    BY <2>1, WaitEndsAnnounced DEF queues
  <2> QED
    BY <2>1, <2>4, <2>6, <2>7 DEF IndInv, queues
<1>4. ASSUME Fetch(f) PROVE IndInv' /\ UNCHANGED <<owner, notif, open>>
  <2>1. /\ UNCHANGED <<notif, role, ready, done, open, cb>>
        /\ recv' = [recv EXCEPT ![f] = NoRecv]
    BY <1>4 DEF Fetch
  <2>2. /\ recv'[f] = NoRecv /\ \A g \in Files \ {f} : recv'[g] = recv[g]
        /\ recv' \in [Files -> [pc : {"idle", "wait", "fetch"}, class : Classes \cup {NULL}]]
    BY <1>1, <2>1 DEF NoRecv
  <2>3. /\ owner' = owner /\ queue' \in [Classes -> [Kinds -> Seq(Contents)]]
        /\ \A c \in Classes, k \in Kinds : queue[c][k] = <<>> => queue'[c][k] = <<>>
        /\ Countable' /\ MessageAnnounced'
    BY <1>4, FetchAnnounced
  <2>4. Types'
    BY <2>1, <2>2, <2>3 DEF IndInv, Types
  <2>5. Aimed' /\ Empty' /\ Dormant'
    BY <2>1, <2>2, <2>3 DEF IndInv, Aimed, Empty, Dormant, NoRecv
  <2> QED
    BY <2>1, <2>3, <2>4, <2>5 DEF IndInv
<1> QED
  BY <1>2, <1>3, <1>4 DEF Receive

\* The tasklet.
LEMMA TaskletStep ==
  ASSUME IndInv, MsgRecvCb \/ \E c \in Classes, k \in Kinds : Mail(c, k)
  PROVE  IndInv' /\ UNCHANGED <<owner, notif, open>>
<1> DEFINE Mails == [pc : {"idle", "class", "enabled", "add", "complete"}, class : Classes \cup {NULL},
                     kind : Kinds \cup {NULL}, notif : Notifiers \cup {NULL}]
<1>1. cb \in Mails
  BY DEF IndInv, Types
<1>2. ASSUME UNCHANGED <<queues, notif, role, ready, done, open, recv>>, ready, cb' \in Mails,
             cb.pc # "complete", cb'.pc # "complete",
             cb'.pc # "idle" => cb'.class \in Classes /\ cb'.kind \in Kinds
      PROVE  IndInv' /\ UNCHANGED <<owner, notif, open>>
  <2>1. Types'
    BY <1>2 DEF IndInv, Types, queues
  <2>2. Aimed' /\ Empty' /\ Dormant'
    BY <1>2 DEF IndInv, Aimed, Empty, Dormant, queues
  <2>3. \A c \in Classes : About(c)' = About(c) /\ Following(c)' = Following(c)
    BY <1>2 DEF About, Following
  <2>4. Countable' /\ MessageAnnounced'
    BY <1>2, <2>3, QuietAnnounced DEF queues
  <2> QED
    BY <1>2, <2>1, <2>2, <2>4 DEF IndInv, queues
<1>3. NoMail \in Mails /\ NoMail.pc = "idle"
  BY DEF NoMail
<1>4. cb.pc # "idle" => ready /\ cb.class \in Classes /\ cb.kind \in Kinds
  BY DEF IndInv, Dormant, Aimed
<1>5. ASSUME NEW c \in Classes, NEW k \in Kinds, Mail(c, k)
      PROVE  IndInv' /\ UNCHANGED <<owner, notif, open>>
  <2>1. /\ UNCHANGED <<queues, notif, role, ready, done, open, recv>> /\ ready /\ cb.pc = "idle"
        /\ cb' = [pc |-> "class", class |-> c, kind |-> k, notif |-> NULL]
    BY <1>5 DEF Mail, IndInv, Dormant
  <2>2. cb' \in Mails /\ cb'.pc = "class" /\ cb'.class = c /\ cb'.kind = k
    BY <2>1
  <2> QED
    BY <1>2, <2>1, <2>2
<1>6. ASSUME FindNotifier \/ FindEnabled PROVE IndInv' /\ UNCHANGED <<owner, notif, open>>
  <2>1. UNCHANGED <<queues, notif, role, ready, done, open, recv>> /\ cb.pc \in {"class", "enabled"}
    BY <1>6 DEF FindNotifier, FindEnabled
  <2>2. \/ cb' = NoMail
        \/ cb' = [cb EXCEPT !.pc = "enabled", !.notif = owner[cb.class]]
        \/ cb' = [cb EXCEPT !.pc = "add"]
    BY <1>6 DEF FindNotifier, FindEnabled
  <2>3. owner[cb.class] \in Notifiers \cup {NULL}
    BY <1>4, <2>1 DEF IndInv, Types
  <2>4. /\ cb' \in Mails /\ cb'.pc # "complete"
        /\ cb'.pc # "idle" => cb'.class = cb.class /\ cb'.kind = cb.kind
    BY <1>1, <1>3, <2>2, <2>3
  <2> QED
    BY <1>2, <1>4, <2>1, <2>4
<1>7. ASSUME AddMSG PROVE IndInv' /\ UNCHANGED <<owner, notif, open>>
  <2>1. /\ UNCHANGED <<notif, role, ready, done, open, recv>> /\ cb.pc = "add"
        /\ cb' = [cb EXCEPT !.pc = "complete"]
    BY <1>7 DEF AddMSG
  <2>2. cb' \in Mails /\ cb'.pc = "complete" /\ cb'.class = cb.class /\ cb'.kind = cb.kind
    BY <1>1, <2>1
  <2>3. /\ owner' = owner /\ queue' \in [Classes -> [Kinds -> Seq(Contents)]]
        /\ Empty' /\ Countable' /\ MessageAnnounced'
    BY <1>7, AddAnnounced
  <2>4. Types'
    BY <2>1, <2>2, <2>3 DEF IndInv, Types
  <2>5. Aimed' /\ Dormant'
    BY <1>4, <2>1, <2>2 DEF IndInv, Aimed, Dormant
  <2> QED
    BY <2>1, <2>3, <2>4, <2>5 DEF IndInv
<1>8. ASSUME Complete PROVE IndInv' /\ UNCHANGED <<owner, notif, open>>
  <2>1. UNCHANGED <<queues, notif, role, ready, open, recv>> /\ cb.pc = "complete" /\ cb' = NoMail
    BY <1>8 DEF Complete
  <2>2. done' \in [Classes -> Nat] /\ Countable' /\ MessageAnnounced'
    BY <1>8, CompleteAnnounced
  <2>3. Types'
    BY <1>3, <2>1, <2>2 DEF IndInv, Types, queues
  <2>4. Aimed' /\ Empty' /\ Dormant'
    BY <1>3, <1>4, <2>1 DEF IndInv, Aimed, Empty, Dormant, queues
  <2> QED
    BY <2>1, <2>2, <2>3, <2>4 DEF IndInv, queues
<1> QED
  BY <1>5, <1>6, <1>7, <1>8 DEF MsgRecvCb

\* The kinds of calls of a controlling thread, other than Init.
LEMMA ControlIs ==
  ASSUME IndInv, NEW f \in Files, Control(f), ~MBX_Init(f), ~MBX_FASYNC(f)
  PROVE  /\ UNCHANGED <<role, ready, done, recv, cb>>
         /\ notif' \in NotifierTable /\ open' \subseteq Files
         /\ \E n \in Notifiers :
              /\ QueuesKept(n)
              /\ \/ /\ open \subseteq open' /\ UNCHANGED <<owner, notif>>
                 \/ /\ notif[n].id = f /\ f \in open /\ open' = open
                    /\ \A m \in Notifiers : notif'[m].id = notif[m].id
                 \/ /\ notif[n].id = f
                    /\ open' \in {open, open \ {f}}
                    /\ notif' = [notif EXCEPT ![n] = Unused]
                    /\ \A c \in Classes : owner'[c] # n /\ owner'[c] \in {owner[c], NULL}
                 \/ /\ open' = open \ {f} /\ UNCHANGED <<owner, notif>>
<1> DEFINE Is(n) ==
      /\ QueuesKept(n)
      /\ \/ /\ open \subseteq open' /\ UNCHANGED <<owner, notif>>
         \/ /\ notif[n].id = f /\ f \in open /\ open' = open
            /\ \A m \in Notifiers : notif'[m].id = notif[m].id
         \/ /\ notif[n].id = f
            /\ open' \in {open, open \ {f}}
            /\ notif' = [notif EXCEPT ![n] = Unused]
            /\ \A c \in Classes : owner'[c] # n /\ owner'[c] \in {owner[c], NULL}
         \/ /\ open' = open \ {f} /\ UNCHANGED <<owner, notif>>
    Goal == /\ UNCHANGED <<role, ready, done, recv, cb>>
            /\ notif' \in NotifierTable /\ open' \subseteq Files
            /\ \E n \in Notifiers : Is(n)
<1>1. Types /\ Empty /\ notif \in NotifierTable /\ open \subseteq Files /\ 0 \in Notifiers
  BY NotifierAssumption DEF IndInv, Types, NotifierTable, Notifiers
<1>2. ASSUME Open(f) PROVE Goal
  <2>1. /\ UNCHANGED <<queues, notif, role, ready, done, recv, cb>> /\ open' = open \cup {f}
    BY <1>2 DEF Open
  <2>2. QueuesKept(0)
    BY <1>1, <2>1, QueuesStay
  <2>3. Is(0)
    BY <2>1, <2>2 DEF queues
  <2> QED
    BY <1>1, <2>1, <2>3
<1>3. ASSUME Initialised(f), \A m \in Notifiers : notif'[m].id = notif[m].id, notif' \in NotifierTable,
             UNCHANGED <<role, ready, done, open, recv, cb>>, QueuesKept(Caller(f))
      PROVE  Goal
  <2>1. Caller(f) \in Notifiers /\ notif[Caller(f)].id = f /\ f \in open
    BY <1>3, CallerIs DEF Initialised
  <2>2. Is(Caller(f))
    BY <1>3, <2>1
  <2> QED
    BY <1>1, <1>3, <2>1, <2>2
<1>4. ASSUME NEW b \in BOOLEAN, MBX_Enable(f, b) PROVE Goal
  <2>1. PICK n \in Notifiers : n = Caller(f)
    BY <1>4, CallerIs DEF MBX_Enable, Initialised
  <2>2. /\ UNCHANGED <<queues, role, ready, done, open, recv, cb>> /\ Initialised(f)
        /\ notif' = [notif EXCEPT ![n].enable = b]
    BY <1>4, <2>1 DEF MBX_Enable, Caller
  <2>3. notif' \in NotifierTable /\ \A m \in Notifiers : notif'[m].id = notif[m].id
    BY <1>1, <2>2 DEF NotifierTable
  <2>4. QueuesKept(Caller(f))
    BY <1>1, <2>1, <2>2, QueuesStay
  <2> QED
    BY <1>3, <2>2, <2>3, <2>4
<1>5. ASSUME NEW force \in BOOLEAN, MBX_DeInit(f, force) PROVE Goal
  <2>1. /\ UNCHANGED <<role, ready, done, open, recv, cb>> /\ Initialised(f) /\ DeInit(f, force)
        /\ NotifierOf(f) # {}
    BY <1>5 DEF MBX_DeInit, Initialised
  <2>2. /\ Caller(f) \in Notifiers /\ notif[Caller(f)].id = f /\ QueuesKept(Caller(f))
        /\ notif' \in NotifierTable
        /\ \/ notif' = notif /\ ~force
           \/ /\ notif' = [notif EXCEPT ![Caller(f)] = Unused]
              /\ \A c \in Classes : owner'[c] # Caller(f) /\ owner'[c] \in {owner[c], NULL}
    BY <1>1, <2>1, DeInitIs
  <2>3. CASE notif' = notif
    BY <1>3, <2>1, <2>2, <2>3
  <2>4. CASE notif' # notif
    <3>1. Is(Caller(f))
      BY <2>1, <2>2, <2>4
    <3> QED
      BY <1>1, <2>1, <2>2, <3>1
  <2> QED
    BY <2>3, <2>4
<1>6. ASSUME Release(f) PROVE Goal
  <2>1. UNCHANGED <<role, ready, done, recv, cb>> /\ open' = open \ {f}
    BY <1>6 DEF Release
  <2>2. CASE NotifierOfCut(f) = {}
    <3>1. UNCHANGED <<queues, notif>>
      BY <1>6, <2>2 DEF Release
    <3>2. QueuesKept(0)
      BY <1>1, <3>1, QueuesStay
    <3>3. Is(0)
      BY <2>1, <2>2, <3>1, <3>2 DEF queues
    <3> QED
      BY <1>1, <2>1, <3>1, <3>3
  <2>3. CASE NotifierOfCut(f) # {}
    <3>0. NotifierOf(f) # {}
      BY <2>3 DEF NotifierOfCut
    <3>1. DeInit(f, TRUE)
      BY <1>6, <2>3 DEF Release
    <3>2. /\ Caller(f) \in Notifiers /\ notif[Caller(f)].id = f /\ QueuesKept(Caller(f))
          /\ notif' \in NotifierTable /\ notif' = [notif EXCEPT ![Caller(f)] = Unused]
          /\ \A c \in Classes : owner'[c] # Caller(f) /\ owner'[c] \in {owner[c], NULL}
      BY <1>1, <3>0, <3>1, DeInitIs
    <3>3. Is(Caller(f))
      BY <2>1, <3>2
    <3> QED
      BY <1>1, <2>1, <3>2, <3>3
  <2> QED
    BY <2>2, <2>3
<1>7. ASSUME NEW c \in Classes,
             \/ \E s \in Sizes : RegisterMSG(f, c, s)
             \/ \E force \in BOOLEAN : UnRegisterMSG(f, c, force)
             \/ ClearMSG(f, c)
      PROVE  Goal
  <2>1. Initialised(f) /\ UNCHANGED <<notif, role, ready, done, open, recv, cb>>
    BY <1>7 DEF RegisterMSG, UnRegisterMSG, ClearMSG, Rest
  <2>2. Caller(f) \in Notifiers
    BY <2>1, CallerIs DEF Initialised
  <2>3. QueuesKept(Caller(f))
    BY <1>1, <1>7, <2>2, RegisterKept, UnRegisterKept, ClearKept
    DEF RegisterMSG, UnRegisterMSG, ClearMSG
  <2> QED
    BY <1>1, <1>3, <2>1, <2>3
<1> HIDE DEF Is
<1>8. Goal
  BY <1>2, <1>4, <1>5, <1>6, <1>7 DEF Control
<1> QED
  BY <1>8 DEF Is

-----------------------------------------------------------------------------
\* The inductive invariant holds in every state, whether clients call Init again
\* or not.
THEOREM DriverInvariant == Spec => []IndInv
<1>1. Init => IndInv
  <2> SUFFICES ASSUME Init PROVE IndInv
    OBVIOUS
  <2>1. /\ owner = [c \in Classes |-> NULL] /\ queue = [c \in Classes |-> Q!Nothing]
        /\ done = [c \in Classes |-> 0] /\ cb = NoMail /\ recv = [f \in Files |-> NoRecv]
        /\ role = "NONE" /\ ready = FALSE
    BY DEF Init, Q!Init
  <2>2. queue \in [Classes -> [Kinds -> Seq(Contents)]]
        /\ \A c \in Classes, k \in Kinds : queue[c][k] = <<>>
    BY <2>1, NothingThere
  <2>3. Types
    <3>1. Unused \in [id : Files \cup {NULL}, enable : BOOLEAN]
      BY DEF Unused
    <3>2. NoRecv \in [pc : {"idle", "wait", "fetch"}, class : Classes \cup {NULL}]
      BY DEF NoRecv
    <3>3. NoMail \in [pc : {"idle", "class", "enabled", "add", "complete"}, class : Classes \cup {NULL},
                      kind : Kinds \cup {NULL}, notif : Notifiers \cup {NULL}]
      BY DEF NoMail
    <3>4. owner \in [Classes -> Notifiers \cup {NULL}] /\ done \in [Classes -> Nat]
      BY <2>1
    <3>5. notif \in [Notifiers -> [id : Files \cup {NULL}, enable : BOOLEAN]]
      BY <3>1 DEF Init
    <3>6. recv \in [Files -> [pc : {"idle", "wait", "fetch"}, class : Classes \cup {NULL}]]
      BY <2>1, <3>2
    <3>7. open \subseteq Files /\ ready \in BOOLEAN /\ role \in {"NONE", "SET", "FAILED"}
      BY <2>1 DEF Init
    <3> QED
      BY <2>1, <2>2, <3>3, <3>4, <3>5, <3>6, <3>7 DEF Types
  <2>4. Aimed /\ Empty /\ Dormant
    BY <2>1, <2>2 DEF Aimed, Empty, Dormant, NoRecv, NoMail
  <2>5. \A c \in Classes : Following(c) = {}
    BY <2>1 DEF Following, NoRecv
  <2>6. Countable
    BY <2>5, FS_EmptySet DEF Countable
  <2>7. ASSUME NEW c \in Classes PROVE Announced(c)
    <3>1. Len(queue[c][Asks[c]]) = 0
      BY <2>2, AsksAssumption
    <3> QED
      BY <2>1, <2>3, <2>5, <2>6, <3>1, AnnouncedTypes DEF Announced
  <2> QED
    BY <2>3, <2>4, <2>6, <2>7 DEF IndInv, MessageAnnounced, Announced, About
<1>2. IndInv /\ [Next]_vars => IndInv'
  <2> SUFFICES ASSUME IndInv, [Next]_vars PROVE IndInv'
    OBVIOUS
  <2>1. CASE UNCHANGED vars
    BY <2>1 DEF vars, queues, IndInv, Types, Aimed, Empty, Dormant, Countable, MessageAnnounced, Following
  <2>2. ASSUME NEW f \in Files, MBX_FASYNC(f) PROVE IndInv'
    <3>1. /\ ~ready /\ ready' = TRUE /\ done' = [c \in Classes |-> 0]
          /\ UNCHANGED <<queues, notif, role, open, recv, cb>>
      BY <2>2 DEF MBX_FASYNC
    <3>2. Types' /\ Aimed' /\ Empty' /\ Dormant'
      BY <3>1 DEF IndInv, Types, Aimed, Empty, Dormant, queues
    <3>3. Countable' /\ MessageAnnounced'
      BY <3>1, ResetAnnounced DEF queues
    <3> QED
      BY <3>2, <3>3 DEF IndInv
  <2>3. ASSUME NEW f \in Files, Control(f) PROVE IndInv'
    <3>1. CASE MBX_Init(f)
      BY <3>1, InitStep
    <3>2. CASE MBX_FASYNC(f)
      BY <2>2, <3>2
    <3>3. CASE ~MBX_Init(f) /\ ~MBX_FASYNC(f)
      <4>1. /\ UNCHANGED <<role, ready, done, recv, cb>> /\ notif' \in NotifierTable /\ open' \subseteq Files
            /\ \E n \in Notifiers : QueuesKept(n)
        BY <2>3, <3>3, ControlIs
      <4> QED
        BY <4>1, ControlStep
    <3> QED
      BY <3>1, <3>2, <3>3
  <2> QED
    BY <2>1, <2>3, ReceiveStep, TaskletStep DEF Next
<1> QED
  BY <1>1, <1>2, PTL DEF Spec

\* No queued message is left without an announcement: a receiver that waits will
\* be woken for it, whatever timed out, was refused, cleared or discarded before.
THEOREM MessagesAreAnnounced == Spec => []MessageAnnounced
<1>1. IndInv => MessageAnnounced
  BY DEF IndInv
<1> QED
  BY <1>1, DriverInvariant, PTL

\* No DeInit or close() frees a notifier that classes still belong to, whether
\* close() finds the notifier of its file or not and however often clients
\* initialise.
THEOREM OwnersStayInUse == Spec => []OwnersInUse
<1>1. Init => OwnersInUse
  BY DEF Init, Q!Init, OwnersInUse
<1>2. ASSUME IndInv, OwnersInUse, [Next]_vars PROVE OwnersInUse'
  <2>1. /\ owner \in [Classes -> Notifiers \cup {NULL}] /\ notif \in NotifierTable
        /\ NULL \notin Files /\ NULL \notin Notifiers
    BY <1>2, NullAssumption DEF IndInv, Types, NotifierTable
  <2>2. CASE UNCHANGED <<owner, notif>>
    BY <1>2, <2>2 DEF OwnersInUse
  <2>3. ASSUME NEW f \in Files, MBX_Init(f) PROVE OwnersInUse'
    <3>1. UNCHANGED owner
      BY <2>3 DEF MBX_Init, queues
    <3>2. \A n \in Notifiers : notif[n].id # NULL => notif'[n].id # NULL
      <4>1. CASE notif' = notif
        BY <4>1
      <4>2. ASSUME NEW n \in Notifiers,
                   notif' = [notif EXCEPT ![n] = [id |-> f, enable |-> FALSE]]
            PROVE  \A m \in Notifiers : notif[m].id # NULL => notif'[m].id # NULL
        BY <2>1, <4>2 DEF NotifierTable
      <4> QED
        BY <2>3, <4>1, <4>2, AllocateIs DEF MBX_Init, NotifierOf
    <3> QED
      BY <1>2, <2>1, <3>1, <3>2 DEF OwnersInUse
  <2>4. ASSUME NEW f \in Files, Control(f), ~MBX_Init(f), ~MBX_FASYNC(f) PROVE OwnersInUse'
    <3>1. PICK n \in Notifiers :
            /\ QueuesKept(n)
            /\ \/ /\ open \subseteq open' /\ UNCHANGED <<owner, notif>>
               \/ /\ notif[n].id = f /\ f \in open /\ open' = open
                  /\ \A m \in Notifiers : notif'[m].id = notif[m].id
               \/ /\ notif[n].id = f
                  /\ open' \in {open, open \ {f}}
                  /\ notif' = [notif EXCEPT ![n] = Unused]
                  /\ \A c \in Classes : owner'[c] # n /\ owner'[c] \in {owner[c], NULL}
               \/ /\ open' = open \ {f} /\ UNCHANGED <<owner, notif>>
      BY <1>2, <2>4, ControlIs
    <3>2. CASE /\ notif[n].id = f
               /\ \A m \in Notifiers : notif'[m].id = notif[m].id
      <4>1. \A c \in Classes : owner'[c] \in {owner[c], NULL, n}
        BY <3>1 DEF QueuesKept
      <4> QED
        BY <1>2, <2>1, <3>2, <4>1 DEF OwnersInUse
    <3>3. CASE /\ notif' = [notif EXCEPT ![n] = Unused]
               /\ \A c \in Classes : owner'[c] # n /\ owner'[c] \in {owner[c], NULL}
      <4>1. \A m \in Notifiers \ {n} : notif'[m] = notif[m]
        BY <2>1, <3>3 DEF NotifierTable
      <4> QED
        BY <1>2, <2>1, <3>3, <4>1 DEF OwnersInUse
    <3> QED
      BY <2>2, <3>1, <3>2, <3>3
  <2>5. ASSUME NEW f \in Files, MBX_FASYNC(f) PROVE OwnersInUse'
    BY <2>2, <2>5 DEF MBX_FASYNC, queues
  <2>6. CASE UNCHANGED vars
    BY <2>2, <2>6 DEF vars, queues
  <2> QED
    BY <1>2, <2>2, <2>3, <2>4, <2>5, <2>6, ReceiveStep, TaskletStep DEF Next
<1> QED
  BY <1>1, <1>2, DriverInvariant, PTL DEF Spec
=============================================================================
