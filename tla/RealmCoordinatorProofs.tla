----------------------- MODULE RealmCoordinatorProofs -----------------------
(***************************************************************************)
(* The safety properties of the notifications, for any number of versions  *)
(* and callbacks. First, what the operations on the callbacks of a         *)
(* notifier do to each callback.                                           *)
(***************************************************************************)
EXTENDS RealmCoordinator, TLAPS

(* An operation that leaves a list of callbacks leaves callbacks. *)
LEMMA Updated ==
  ASSUME NEW T, NEW V, NEW n \in CallbacksOf(T, V), NEW L \in Seq(CallbackOf(T, V)),
         NEW i \in Int, NEW k \in Int, NEW h \in BOOLEAN
  PROVE  /\ [n EXCEPT !.list = L] \in CallbacksOf(T, V)
         /\ [n EXCEPT !.list = L, !.have = h] \in CallbacksOf(T, V)
         /\ [n EXCEPT !.count = k, !.list = L] \in CallbacksOf(T, V)
         /\ [n EXCEPT !.index = i, !.list = L] \in CallbacksOf(T, V)
         /\ [n EXCEPT !.list = L, !.index = i, !.count = k, !.have = h]
              \in CallbacksOf(T, V)
  BY DEF CallbacksOf

(* The callback is added at the end. *)
LEMMA Added ==
  ASSUME NEW T, NEW V, NEW n \in CallbacksOf(T, V), NEW t \in T
  PROVE  LET m == add_callback(n, t)
         IN  /\ m \in CallbacksOf(T, V)
             /\ Len(m.list) = Len(n.list) + 1
             /\ \A i \in 1 .. Len(n.list) : m.list[i] = n.list[i]
             /\ m.list[Len(n.list) + 1] = Callback(t)
             /\ m.index = n.index /\ m.count = n.count
             /\ m.have <=> n.have \/ ~Delivering(n)
<1>1. Callback(t) \in CallbackOf(T, V)
  BY DEF Callback, CallbackOf
<1> DEFINE m == add_callback(n, t)
<1>2. /\ n.list \in Seq(CallbackOf(T, V))
      /\ m = [n EXCEPT !.list = Append(n.list, Callback(t)), !.have = Delivering(n) => n.have]
  BY DEF CallbacksOf, add_callback
<1>3. /\ m.list = Append(n.list, Callback(t)) 
      /\ m.index = n.index /\ m.count = n.count
  BY <1>2 DEF CallbacksOf
<1>4. m.have = (Delivering(n) => n.have)
  BY <1>2, Zenon DEF CallbacksOf
<1>5. m.have \in BOOLEAN /\ (m.have <=> n.have \/ ~Delivering(n))
  BY <1>4, Zenon
<1>6. Append(n.list, Callback(t)) \in Seq(CallbackOf(T, V))
  BY <1>1, <1>2
<1>7. m \in CallbacksOf(T, V)
  BY <1>2, <1>6, Zenon DEF CallbacksOf
<1> QED BY <1>1, <1>2, <1>3, <1>5, <1>7

(* RemoveAt, in terms of positions. *)
LEMMA RemovedAt ==
  ASSUME NEW S, NEW s \in Seq(S), NEW p \in 1 .. Len(s)
  PROVE  /\ RemoveAt(s, p) \in Seq(S)
         /\ Len(RemoveAt(s, p)) = Len(s) - 1
         /\ \A i \in 1 .. Len(s) - 1 :
              RemoveAt(s, p)[i] = s[IF i < p THEN i ELSE i + 1]
<1> DEFINE front == SubSeq(s, 1, p - 1)
           back  == SubSeq(s, p + 1, Len(s))
<1>1. /\ front \in Seq(S) /\ Len(front) = p - 1
      /\ \A i \in 1 .. p - 1 : front[i] = s[i]
  OBVIOUS
<1>2. /\ back \in Seq(S) /\ Len(back) = Len(s) - p
      /\ \A i \in 1 .. Len(s) - p : back[i] = s[p + i]
  OBVIOUS
<1> HIDE DEF front, back
<1>3. /\ front \o back \in Seq(S)
      /\ Len(front \o back) = Len(s) - 1
  BY <1>1, <1>2
<1>4. ASSUME NEW i \in 1 .. Len(s) - 1
      PROVE  (front \o back)[i] = s[IF i < p THEN i ELSE i + 1]
  <2>1. CASE i < p
    BY <1>1, <1>2, <2>1
  <2>2. CASE ~(i < p)
    <3>1. i - (p - 1) \in 1 .. Len(s) - p /\ p + (i - (p - 1)) = i + 1
      BY <2>2
    <3>2. (front \o back)[i] = back[i - (p - 1)]
      BY <1>1, <1>2, <2>2
    <3> QED BY <1>2, <2>2, <3>1, <3>2
  <2> QED BY <2>1, <2>2, Zenon
<1> QED BY <1>3, <1>4 DEF RemoveAt, front, back

(* The callbacks after the removed one move up, and an index at or after   *)
(* it moves with them.                                                     *)
LEMMA Removed ==
  ASSUME NEW T, NEW V, NEW n \in CallbacksOf(T, V), NEW t \in Tokens(n)
  PROVE  LET m == remove_callback(n, t)
             p == Position(n, t)
         IN  /\ m \in CallbacksOf(T, V)
             /\ p \in 1 .. Len(n.list)
             /\ Len(m.list) = Len(n.list) - 1
             /\ \A i \in 1 .. Len(m.list) :
                  m.list[i] = n.list[IF i < p THEN i ELSE i + 1]
             /\ m.index = IF n.index >= p - 1 THEN n.index - 1 ELSE n.index
             /\ m.count = n.count - 1
             /\ m.have <=> m.list # << >>
<1> DEFINE m == remove_callback(n, t)
           p == Position(n, t)
           rest == RemoveAt(n.list, p)
<1>1. n.list \in Seq(CallbackOf(T, V)) /\ n.index \in Int /\ n.count \in Int
  BY DEF CallbacksOf
<1>2. p \in 1 .. Len(n.list)
  BY <1>1 DEF Position, Tokens
<1>3. /\ rest \in Seq(CallbackOf(T, V))
      /\ Len(rest) = Len(n.list) - 1
      /\ \A i \in 1 .. Len(rest) : rest[i] = n.list[IF i < p THEN i ELSE i + 1]
  <2> HIDE DEF p
  <2> QED BY <1>1, <1>2, RemovedAt
<1> DEFINE k == IF n.index >= p - 1 THEN n.index - 1 ELSE n.index
<1>4. k = IF Delivering(n) /\ n.index >= p - 1 THEN n.index - 1 ELSE n.index
  BY <1>1, <1>2 DEF Delivering, npos
<1>5. (rest # << >>) \in BOOLEAN /\ k \in Int /\ n.count - 1 \in Int
  BY <1>1
<1> HIDE DEF k, p, rest
<1>6. m = [n EXCEPT !.list = rest, !.index = k, !.count = n.count - 1,
                    !.have = (rest # << >>)]
  BY <1>4, Zenon DEF remove_callback, p, rest
<1> HIDE DEF m
<1>7. m \in CallbacksOf(T, V)
  BY <1>3, <1>5, <1>6, Updated, Zenon
<1>8. m.list = rest /\ m.index = k /\ m.count = n.count - 1
  BY <1>6 DEF CallbacksOf
<1>9. m.have <=> m.list # << >>
  <2>1. m.have = (rest # << >>)
    BY <1>6, Zenon DEF CallbacksOf
  <2> QED BY <1>8, <2>1, Zenon
<1> QED BY <1>2, <1>3, <1>7, <1>8, <1>9 DEF m, k, p, rest

(* Only the flags of the suppressed callback change. *)
LEMMA Suppressed ==
  ASSUME NEW T, NEW V, NEW n \in CallbacksOf(T, V), NEW t \in Tokens(n)
  PROVE  LET m == suppress_next_notification(n, t)
         IN  /\ m \in CallbacksOf(T, V)
             /\ Len(m.list) = Len(n.list)
             /\ \A i \in 1 .. Len(n.list) :
                  LET c == n.list[i]
                      d == m.list[i]
                  IN  /\ d.accumulated = c.accumulated /\ d.to_deliver = c.to_deliver
                      /\ (d.initial_delivered <=> c.initial_delivered)
                      /\ d.told = c.told /\ d.mute = c.mute
                      /\ \/ (d.skip_next <=> c.skip_next) /\ (d.quiet <=> c.quiet)
                         \/ d.skip_next /\ d.quiet
             /\ m.index = n.index /\ m.count = n.count /\ m.have = n.have
<1> DEFINE p == Position(n, t)
           c == [n.list[p] EXCEPT !.skip_next = TRUE, !.quiet = TRUE]
           L == [n.list EXCEPT ![p] = c]
<1>1. n.list \in Seq(CallbackOf(T, V))
  BY DEF CallbacksOf
<1>2. p \in 1 .. Len(n.list)
  BY <1>1 DEF Position, Tokens
<1>3. c \in CallbackOf(T, V)
  <2>1. n.list[p] \in CallbackOf(T, V)
    BY <1>1, <1>2
  <2> HIDE DEF p
  <2> QED BY <2>1 DEF CallbackOf
<1> DEFINE m == suppress_next_notification(n, t)
<1> HIDE DEF c, p
<1>4. m = [n EXCEPT !.list[p] = c] /\ m = [n EXCEPT !.list = L]
  BY DEF suppress_next_notification, CallbacksOf, p, c
<1> HIDE DEF m
<1>5. /\ L \in Seq(CallbackOf(T, V))
      /\ Len(L) = Len(n.list)
      /\ \A i \in 1 .. Len(n.list) : L[i] = IF i = p THEN c ELSE n.list[i]
  BY <1>1, <1>2, <1>3
<1>6. m \in CallbacksOf(T, V)
  BY <1>4, <1>5 DEF CallbacksOf
<1>7. m.list = L /\ m.index = n.index /\ m.count = n.count /\ m.have = n.have
  BY <1>4 DEF CallbacksOf
<1>8. ASSUME NEW i \in 1 .. Len(n.list)
      PROVE  LET d == m.list[i]
                 o == n.list[i]
             IN  /\ d.accumulated = o.accumulated /\ d.to_deliver = o.to_deliver
                 /\ (d.initial_delivered <=> o.initial_delivered)
                 /\ d.told = o.told /\ d.mute = o.mute
                 /\ \/ (d.skip_next <=> o.skip_next) /\ (d.quiet <=> o.quiet)
                    \/ d.skip_next /\ d.quiet
  <2>1. n.list[p] \in CallbackOf(T, V)
    BY <1>1, <1>2
  <2>2. m.list[i] = IF i = p THEN c ELSE n.list[i]
    BY <1>5, <1>7
  <2>3. CASE i = p
    BY <2>1, <2>2, <2>3 DEF c, CallbackOf
  <2>4. CASE i # p
    BY <2>2, <2>4
  <2> QED BY <2>3, <2>4
<1> QED BY <1>5, <1>6, <1>7, <1>8 DEF m

(* Every callback gets the changes, or skips them. *)
LEMMA ChangesAdded ==
  ASSUME NEW T, NEW V, NEW n \in CallbacksOf(T, V), NEW versions \in SUBSET V
  PROVE  LET m == add_changes(n, versions)
         IN  /\ m \in CallbacksOf(T, V)
             /\ Len(m.list) = Len(n.list)
             /\ \A i \in 1 .. Len(n.list) :
                  LET c == n.list[i]
                      d == m.list[i]
                  IN  /\ d.to_deliver = c.to_deliver
                      /\ (d.initial_delivered <=> c.initial_delivered)
                      /\ d.told = c.told /\ d.mute = c.mute /\ (d.quiet <=> c.quiet)
                      /\ ~d.skip_next
                      /\ c.skip_next => d.accumulated = c.accumulated
                      /\ ~c.skip_next => d.accumulated = c.accumulated \cup versions
             /\ m.index = n.index /\ m.count = n.count /\ m.have = n.have
<1> DEFINE changed(c) == IF c.skip_next
                         THEN [c EXCEPT !.skip_next = FALSE]
                         ELSE [c EXCEPT !.accumulated = @ \cup versions]
           L == [i \in DOMAIN n.list |-> changed(n.list[i])]
<1>1. n.list \in Seq(CallbackOf(T, V))
  BY DEF CallbacksOf
<1>2. \A c \in CallbackOf(T, V) : changed(c) \in CallbackOf(T, V)
  BY DEF CallbackOf
<1>8. ASSUME NEW c \in CallbackOf(T, V)
      PROVE  LET d == changed(c)
             IN  /\ d.to_deliver = c.to_deliver
                 /\ (d.initial_delivered <=> c.initial_delivered)
                 /\ d.told = c.told /\ d.mute = c.mute /\ (d.quiet <=> c.quiet)
                 /\ ~d.skip_next
                 /\ c.skip_next => d.accumulated = c.accumulated
                 /\ ~c.skip_next => d.accumulated = c.accumulated \cup versions
  BY DEF CallbackOf
<1> DEFINE m == add_changes(n, versions)
<1>3. m = [n EXCEPT !.list = L]
  BY Zenon DEF add_changes
<1> HIDE DEF changed, m
<1>4. /\ L \in Seq(CallbackOf(T, V))
      /\ Len(L) = Len(n.list)
      /\ \A i \in 1 .. Len(n.list) : L[i] = changed(n.list[i])
  BY <1>1, <1>2
<1> HIDE DEF L
<1>5. m \in CallbacksOf(T, V)
  BY <1>3, <1>4 DEF CallbacksOf
<1>6. m.list = L /\ m.index = n.index /\ m.count = n.count /\ m.have = n.have
  BY <1>3 DEF CallbacksOf
<1>9. \A i \in 1 .. Len(n.list) :
        LET c == n.list[i]
            d == m.list[i]
        IN  /\ d.to_deliver = c.to_deliver
            /\ (d.initial_delivered <=> c.initial_delivered)
            /\ d.told = c.told /\ d.mute = c.mute /\ (d.quiet <=> c.quiet)
            /\ ~d.skip_next
            /\ c.skip_next => d.accumulated = c.accumulated
            /\ ~c.skip_next => d.accumulated = c.accumulated \cup versions
  <2> SUFFICES ASSUME NEW i \in 1 .. Len(n.list)
               PROVE  LET c == n.list[i]
                          d == changed(c)
                      IN  /\ d.to_deliver = c.to_deliver
                          /\ (d.initial_delivered <=> c.initial_delivered)
                          /\ d.told = c.told /\ d.mute = c.mute /\ (d.quiet <=> c.quiet)
                          /\ ~d.skip_next
                          /\ c.skip_next => d.accumulated = c.accumulated
                          /\ ~c.skip_next => d.accumulated = c.accumulated \cup versions
    BY <1>4, <1>6
  <2>1. n.list[i] \in CallbackOf(T, V)
    BY <1>1
  <2> QED BY <1>8, <2>1
<1> QED BY <1>4, <1>5, <1>6, <1>9 DEF m

(* Every callback has what it has accumulated packaged. *)
LEMMA Packaged ==
  ASSUME NEW T, NEW V, NEW n \in CallbacksOf(T, V)
  PROVE  LET m == package_for_delivery(n)
         IN  /\ m \in CallbacksOf(T, V)
             /\ Len(m.list) = Len(n.list)
             /\ \A i \in 1 .. Len(n.list) :
                  LET c == n.list[i]
                      d == m.list[i]
                  IN  /\ d.to_deliver = c.accumulated /\ d.accumulated = {}
                      /\ (d.initial_delivered <=> c.initial_delivered)
                      /\ d.told = c.told /\ d.mute = c.mute /\ (d.quiet <=> c.quiet)
                      /\ (d.skip_next <=> c.skip_next)
             /\ m.index = n.index /\ m.count = Len(n.list) /\ m.have = n.have
<1> DEFINE packaged(c) == [c EXCEPT !.to_deliver = c.accumulated, !.accumulated = {}]
           L == [i \in DOMAIN n.list |-> packaged(n.list[i])]
<1>1. n.list \in Seq(CallbackOf(T, V))
  BY DEF CallbacksOf
<1>2. \A c \in CallbackOf(T, V) : packaged(c) \in CallbackOf(T, V)
  BY DEF CallbackOf
<1>8. ASSUME NEW c \in CallbackOf(T, V)
      PROVE  LET d == packaged(c)
             IN  /\ d.to_deliver = c.accumulated /\ d.accumulated = {}
                 /\ (d.initial_delivered <=> c.initial_delivered)
                 /\ d.told = c.told /\ d.mute = c.mute /\ (d.quiet <=> c.quiet)
                 /\ (d.skip_next <=> c.skip_next)
  BY DEF CallbackOf
<1> DEFINE m == package_for_delivery(n)
<1>3. m = [n EXCEPT !.count = Len(n.list), !.list = L]
  BY Zenon DEF package_for_delivery
<1> HIDE DEF packaged, m
<1>4. /\ L \in Seq(CallbackOf(T, V))
      /\ Len(L) = Len(n.list) /\ Len(n.list) \in Int
      /\ \A i \in 1 .. Len(n.list) : L[i] = packaged(n.list[i])
  BY <1>1, <1>2
<1> HIDE DEF L
<1>5. m \in CallbacksOf(T, V)
  BY <1>3, <1>4 DEF CallbacksOf
<1>6. /\ m.list = L /\ m.index = n.index /\ m.count = Len(n.list)
      /\ m.have = n.have
  BY <1>3 DEF CallbacksOf
<1> QED BY <1>1, <1>4, <1>5, <1>6, <1>8 DEF m

(* The next callback is called for a version. *)
LEMMA CalledNext ==
  ASSUME NEW T, NEW V, NEW n \in CallbacksOf(T, V), NEW v \in {0} \cup V,
         InRange(n), n.index >= npos
  PROVE  LET m == Called(n, v)
             p == n.index + 2
         IN  /\ m \in CallbacksOf(T, V)
             /\ p \in 1 .. Len(n.list)
             /\ Len(m.list) = Len(n.list)
             /\ \A i \in 1 .. Len(n.list) :
                  LET c == n.list[i]
                      d == m.list[i]
                  IN  /\ d.accumulated = c.accumulated /\ d.mute = c.mute
                      /\ (d.quiet <=> c.quiet) /\ (d.skip_next <=> c.skip_next)
                      /\ i # p => /\ (d.initial_delivered <=> c.initial_delivered)
                                  /\ d.to_deliver = c.to_deliver /\ d.told = c.told
                      /\ i = p => /\ d.initial_delivered
                                  /\ d.to_deliver = {} /\ d.told = v
             /\ m.index = n.index + 1 /\ m.count = n.count /\ m.have = n.have
<1> DEFINE p == n.index + 2
           c == [n.list[p] EXCEPT !.initial_delivered = TRUE, !.to_deliver = {},
                                  !.told = v]
           L == [n.list EXCEPT ![p] = c]
<1>1. n.list \in Seq(CallbackOf(T, V)) /\ n.index \in Int
  BY DEF CallbacksOf
<1>2. p \in 1 .. Len(n.list)
  BY <1>1 DEF InRange, npos
<1>3. n.list[p] \in CallbackOf(T, V)
  BY <1>1, <1>2
<1> DEFINE m == Called(n, v)
<1> HIDE DEF p
<1>4. c \in CallbackOf(T, V)
  BY <1>3 DEF CallbackOf
<1>5. m = [n EXCEPT !.index = n.index + 1, !.list[p] = c]
  BY Zenon DEF Called, NextOf, p
<1> HIDE DEF m, c
<1>6. /\ L \in Seq(CallbackOf(T, V))
      /\ Len(L) = Len(n.list)
      /\ \A i \in 1 .. Len(n.list) : L[i] = IF i = p THEN c ELSE n.list[i]
  BY <1>1, <1>2, <1>4
<1>7. n.index + 1 \in Int
  BY <1>1
<1>8. m = [n EXCEPT !.index = n.index + 1, !.list = L]
  BY <1>5 DEF CallbacksOf
<1>9. m \in CallbacksOf(T, V)
  BY <1>6, <1>7, <1>8 DEF CallbacksOf
<1>10. /\ m.list = L /\ m.index = n.index + 1 /\ m.count = n.count
       /\ m.have = n.have
  BY <1>8 DEF CallbacksOf
<1>11. ASSUME NEW i \in 1 .. Len(n.list)
       PROVE  LET o == n.list[i]
                  d == m.list[i]
              IN  /\ d.accumulated = o.accumulated /\ d.mute = o.mute
                  /\ (d.quiet <=> o.quiet) /\ (d.skip_next <=> o.skip_next)
                  /\ i # p => /\ (d.initial_delivered <=> o.initial_delivered)
                              /\ d.to_deliver = o.to_deliver /\ d.told = o.told
                  /\ i = p => /\ d.initial_delivered
                              /\ d.to_deliver = {} /\ d.told = v
  <2>1. m.list[i] = IF i = p THEN c ELSE n.list[i]
    BY <1>6, <1>10
  <2>2. CASE i = p
    BY <1>3, <2>1, <2>2 DEF c, CallbackOf
  <2>3. CASE i # p
    BY <2>1, <2>3
  <2> QED BY <2>2, <2>3
<1> QED BY <1>2, <1>6, <1>9, <1>10, <1>11 DEF m, p

(* m is n with the next callback told of something: what the callbacks hold *)
(* stays, and so does what the others were told.                           *)
TellsOnlyTheNext(n, m) ==
  /\ Len(m.list) = Len(n.list)
  /\ \A i \in 1 .. Len(n.list) :
       /\ m.list[i].accumulated = n.list[i].accumulated
       /\ m.list[i].initial_delivered = n.list[i].initial_delivered
       /\ i # n.index + 2 => m.list[i].told = n.list[i].told
  /\ m.index = n.index + 1 /\ m.count = n.count /\ m.have = n.have

(* The next callback is told of the error: nothing else changes.           *)
LEMMA CalledErr ==
  ASSUME NEW T, NEW V, NEW n \in CallbacksOf(T, V), NEW v \in {0} \cup V,
         InRange(n), n.index >= npos
  PROVE  /\ CalledWithError(n, v) \in CallbacksOf(T, V)
         /\ TellsOnlyTheNext(n, CalledWithError(n, v))
<1> DEFINE p == n.index + 2
           c == [n.list[p] EXCEPT !.told = v]
           L == [n.list EXCEPT ![p] = c]
<1>1. n.list \in Seq(CallbackOf(T, V)) /\ n.index \in Int
  BY DEF CallbacksOf
<1>2. p \in 1 .. Len(n.list)
  BY <1>1 DEF InRange, npos
<1>3. n.list[p] \in CallbackOf(T, V)
  BY <1>1, <1>2
<1> DEFINE m == CalledWithError(n, v)
<1> HIDE DEF p
<1>4. c \in CallbackOf(T, V)
  BY <1>3 DEF CallbackOf
<1>5. m = [n EXCEPT !.index = n.index + 1, !.list[p] = c]
  BY Zenon DEF CalledWithError, NextOf, p
<1> HIDE DEF m, c
<1>6. /\ L \in Seq(CallbackOf(T, V))
      /\ Len(L) = Len(n.list)
      /\ \A i \in 1 .. Len(n.list) : L[i] = IF i = p THEN c ELSE n.list[i]
  BY <1>1, <1>2, <1>4
<1>7. n.index + 1 \in Int
  BY <1>1
<1>8. m = [n EXCEPT !.index = n.index + 1, !.list = L]
  BY <1>5 DEF CallbacksOf
<1>9. m \in CallbacksOf(T, V)
  BY <1>6, <1>7, <1>8 DEF CallbacksOf
<1>10. /\ m.list = L /\ m.index = n.index + 1 /\ m.count = n.count
       /\ m.have = n.have
  BY <1>8 DEF CallbacksOf
<1>11. ASSUME NEW i \in 1 .. Len(n.list)
       PROVE  LET o == n.list[i]
                  d == m.list[i]
              IN  /\ d.accumulated = o.accumulated
                  /\ d.initial_delivered = o.initial_delivered
                  /\ i # p => d.told = o.told
  <2>1. m.list[i] = IF i = p THEN c ELSE n.list[i]
    BY <1>6, <1>10
  <2>2. CASE i = p
    BY <1>3, <2>1, <2>2 DEF c, CallbackOf
  <2>3. CASE i # p
    BY <2>1, <2>3
  <2> QED BY <2>2, <2>3
<1>12. TellsOnlyTheNext(n, m)
  BY <1>6, <1>10, <1>11 DEF TellsOnlyTheNext, p
<1> QED BY <1>9, <1>12 DEF m

-----------------------------------------------------------------------------
(* The coordinator.                                                        *)

Calls == DOMAIN callbacks.list

Cb(i) == callbacks.list[i]

delivering == at \in {"after", "inCallback"}

Calm == NoneOf(Misled)

Orderly == NoneOf(Misled \cup Miscounted)

(* The worker has not failed, and the versions are in order: it goes       *)
(* forward, and never past a commit it is still to stop at.                *)
Ordered ==
  /\ ~Failed
  /\ read <= latest /\ version <= latest /\ rows <= latest /\ target <= latest
  /\ skip # 0 => version < skip /\ skip <= latest
  /\ worker.pc # "asleep" =>
       /\ version <= Goal
       /\ worker.skip <= worker.to
       /\ worker.to <= latest
       /\ skip # 0 => worker.to < skip
       /\ worker.skip # 0 => version < worker.skip
  /\ worker.pc = "asleep" => worker.skip = 0
  /\ IF worker.pc = "handover" THEN worker.changes \subseteq 1 .. Goal
                               ELSE worker.changes = {}

(* Nothing happens to a notifier that is not registered, and nothing but   *)
(* callbacks being added to one that is new.                               *)
Registered ==
  /\ place = "none" => callbacks.list = << >>
  /\ place # "main" => ~has_run /\ skip = 0 /\ worker.pc = "asleep"
  /\ at = "waiting" => place # "none" /\ target # 0 /\ (stage = "writing" => target = latest)

(* The loop over the callbacks stays within them. *)
LoopBounds ==
  /\ callbacks.have <=> callbacks.list # << >>
  /\ Len(callbacks.list) <= next_token
  /\ callbacks.index + 1 <= Len(callbacks.list)
  /\ at \in {"idle", "waiting"} => callbacks.index = npos
  /\ NoneOf(Miscounted) =>
       /\ at # "undefined"
       /\ delivering => /\ callbacks.index < callbacks.count
                        /\ callbacks.count <= Len(callbacks.list)

LoopInside == LoopBounds /\ (delivering => has_run /\ target <= version)

(* What a callback holds is not newer than the notifier. *)
Held ==
  \A i \in Calls :
    /\ Cb(i).accumulated \cup Cb(i).to_deliver \subseteq 1 .. version
    /\ Cb(i).mute \subseteq 1 .. latest
    /\ Cb(i).initial_delivered => has_run /\ Cb(i).told <= version
    /\ Cb(i).quiet => stage = "writing" /\ at # "waiting"
    /\ ~has_run => Cb(i).accumulated = {}

(* The rows compared with are those of the version handed over, and what   *)
(* has been collected leads from them to those of the goal.                *)
RowsCurrent ==
  /\ Calm /\ has_run => worker.changes \subseteq version + 1 .. Goal
  /\ Calm /\ has_run /\ callbacks.have =>
       /\ IF worker.pc = "handover"
          THEN rows = Goal /\ worker.changes = version + 1 .. Goal
          ELSE rows = version
       /\ worker.pc \in {"need", "compare"} => worker.informed \/ Goal = version
  /\ ~has_run /\ worker.pc = "handover" => rows = Goal /\ worker.changes = {}

(* A write transaction starts with everything delivered, unless there is   *)
(* nobody to deliver it to.                                                *)
WriteCaughtUp ==
  Calm /\ (callbacks.have \/ delivering) /\ stage = "writing" /\ at # "waiting" =>
    /\ version = latest /\ read = latest /\ has_run
    /\ \A i \in Calls : Cb(i).accumulated = {}

Heard(i) == Cb(i).initial_delivered \/ delivering

(* A Realm that is ahead of the worker has told its callbacks everything,  *)
(* and the worker does not stop before it.                                 *)
AheadIsTold ==
  Calm =>
    /\ \A i \in Calls : Heard(i) /\ version < read => Cb(i).accumulated = {}
    /\ delivering \/ (\E i \in Calls : Heard(i)) =>
         /\ skip # 0 => read <= skip
         /\ worker.skip # 0 => read <= worker.skip
         /\ worker.pc # "asleep" /\ Goal < read => Goal = version

(* A callback that is to skip changes is to skip those of the next version *)
(* the worker stops at.                                                    *)
SkipsTheNext ==
  Calm =>
    \A i \in Calls :
      /\ Cb(i).skip_next => Cb(i).accumulated = {}
      /\ Cb(i).quiet => Cb(i).skip_next
      /\ Cb(i).skip_next /\ ~Cb(i).quiet =>
           /\ version + 1 \in Cb(i).mute
           /\ version + 1 \in {skip, worker.skip}
      /\ \A v \in Cb(i).mute : v > version => v = version + 1 /\ Cb(i).skip_next

(* Yet to be called in this delivery. *)
ToCall(i) == delivering /\ i \in callbacks.index + 2 .. callbacks.count

(* What is packaged is packaged for callbacks that are yet to be called,   *)
(* and what they are not called for now is in the worker's hands or        *)
(* accumulated.                                                            *)
PackagedToCall ==
  Orderly =>
    \A i \in Calls :
      /\ Cb(i).initial_delivered /\ Cb(i).to_deliver # {} => ToCall(i)
      /\ ToCall(i) => Cb(i).accumulated \cup (worker.changes \ Cb(i).mute)
                        = (target + 1 .. rows) \ Cb(i).mute

WorkingInv ==
  /\ TypeOK /\ Ordered /\ Registered /\ LoopInside /\ Held /\ RowsCurrent
  /\ WriteCaughtUp /\ AheadIsTold /\ SkipsTheNext /\ PackagedToCall /\ NothingLost

(* When the worker fails, nothing has been found out yet, and nothing will *)
(* be. The error is told to callbacks that are counted.                    *)
Untold ==
  \A i \in Calls :
    /\ ~Cb(i).initial_delivered
    /\ Cb(i).accumulated = {}
    /\ delivering /\ NoneOf(Miscounted) /\ Cb(i).told # 0 => i <= callbacks.count

FailedInv ==
  TypeOK /\ Failed /\ place # "none" /\ ~has_run /\ LoopBounds /\ Untold

IInv == WorkingInv \/ FailedInv

(* The versions are numbers. *)
LEMMA Types ==
  ASSUME TypeOK
  PROVE  /\ latest \in Nat /\ read \in Nat /\ target \in Nat /\ version \in Nat
         /\ skip \in Nat /\ rows \in Nat /\ worker.skip \in Nat /\ worker.to \in Nat
         /\ Goal \in Nat
         /\ callbacks \in CallbacksOf(AllTokens, Versions)
         /\ callbacks.list \in Seq(CallbackOf(AllTokens, Versions))
         /\ callbacks.index \in Int /\ callbacks.count \in Int
         /\ Len(callbacks.list) \in Nat /\ Calls = 1 .. Len(callbacks.list)
<1> USE BoundsAssumption
<1>1. {0} \cup Versions \subseteq Nat
  BY DEF Versions
<1>2. /\ callbacks \in CallbacksOf(AllTokens, Versions)
      /\ worker.skip \in {0} \cup Versions /\ worker.to \in {0} \cup Versions
      /\ {target, version, skip, rows} \subseteq {0} \cup Versions
      /\ latest \in Versions /\ read \in Versions
  BY DEF TypeOK, WorkerStates
<1>3. Goal \in Nat
  BY <1>1, <1>2 DEF Goal
<1> HIDE DEF Versions
<1>4. /\ callbacks.list \in Seq(CallbackOf(AllTokens, Versions))
      /\ callbacks.index \in Int /\ callbacks.count \in Int
  BY <1>2 DEF CallbacksOf
<1>5. Len(callbacks.list) \in Nat /\ Calls = 1 .. Len(callbacks.list)
  BY <1>4 DEF Calls
<1> QED BY <1>1, <1>2, <1>3, <1>4, <1>5

(* What has strayed stays so. *)
LEMMA Strayed ==
  ASSUME strayed \subseteq strayed'
  PROVE  /\ Calm' => Calm
         /\ Orderly' => Orderly
         /\ NoneOf(Miscounted)' => NoneOf(Miscounted)
  BY DEF Calm, Orderly, NoneOf, Misled, Miscounted

(* What is orderly is calm, too.                                           *)
LEMMA OrderlyIsCalm == Orderly => Calm
  BY DEF Calm, Orderly, NoneOf

(* Changes that continue those before them. *)
LEMMA Continued ==
  ASSUME NEW a \in Nat, NEW b \in Nat, NEW c \in Nat, a <= b, b <= c, NEW A, NEW M,
         A = (a + 1 .. b) \ M
  PROVE  A \cup ((b + 1 .. c) \ M) = (a + 1 .. c) \ M
  OBVIOUS

(* The initial states satisfy the invariant. *)
LEMMA InitIInv == Init => WorkingInv
<1> SUFFICES ASSUME Init PROVE WorkingInv
  OBVIOUS
<1>1. TypeOK
  <2>1. 1 \in Versions /\ 0 \in 0 .. MaxToken /\ npos \in npos .. MaxToken
    BY BoundsAssumption DEF Versions, npos
  <2>2. NoCallbacks \in CallbacksOf(AllTokens, Versions)
    BY DEF CallbacksOf, NoCallbacks, npos
  <2> QED BY <2>1, <2>2 DEF Init, TypeOK, Asleep, NoCallbacks, WorkerStates
<1>2. callbacks.list = << >> /\ Calls = {} /\ ~callbacks.have /\ callbacks.index = npos
  BY DEF Init, NoCallbacks, Calls
<1>3. Ordered /\ Registered
  BY <1>2 DEF Init, Ordered, Failed, Registered, Asleep, Goal
<1>4. LoopInside /\ Held /\ RowsCurrent
  BY <1>2 DEF Init, LoopInside, LoopBounds, Held, RowsCurrent, delivering, Asleep, npos
<1>5. WriteCaughtUp /\ AheadIsTold /\ SkipsTheNext /\ PackagedToCall
  BY <1>2 DEF Init, WriteCaughtUp, AheadIsTold, SkipsTheNext, PackagedToCall, delivering
<1>6. NothingLost
  BY <1>2 DEF NothingLost, Calls
<1> QED BY <1>1, <1>3, <1>4, <1>5, <1>6 DEF WorkingInv

-----------------------------------------------------------------------------
(* Steps that leave the callbacks alone. *)

(* A commit by another Realm.                                              *)
LEMMA CommitElsewhereIInv == WorkingInv /\ CommitElsewhere => WorkingInv'
<1> SUFFICES ASSUME WorkingInv, CommitElsewhere PROVE WorkingInv'
  OBVIOUS
<1> USE DEF CommitElsewhere, file, realm, notifier
<1>1. TypeOK'
  <2>1. latest' \in Versions
    BY BoundsAssumption DEF WorkingInv, TypeOK, Versions
  <2> QED BY <2>1 DEF WorkingInv, TypeOK
<1>2. Ordered'
  BY Types DEF WorkingInv, Ordered, Failed, Goal
<1>3. Registered' /\ LoopInside' /\ RowsCurrent' /\ NothingLost'
  <2>1. Registered' /\ RowsCurrent'
    BY DEF WorkingInv, Registered, RowsCurrent, Calm, NoneOf, Goal
  <2>2. LoopInside'
    BY DEF WorkingInv, LoopInside, LoopBounds, delivering, NoneOf
  <2>3. UNCHANGED <<callbacks, worker, rows, strayed>>
    OBVIOUS
  <2>4. NothingLost'
    BY <2>3 DEF WorkingInv, NothingLost, Found, NoneOf
  <2> QED BY <2>1, <2>2, <2>4
<1>4. Held'
  <2>1. \A i \in Calls : Cb(i).mute \subseteq 1 .. latest + 1
    BY Types DEF WorkingInv, Held
  <2>2. Calls' = Calls /\ \A i \in Calls : Cb(i)' = Cb(i)
    BY DEF Calls, Cb
  <2>3. UNCHANGED <<version, has_run, stage, at>> /\ latest' = latest + 1
    OBVIOUS
  <2> HIDE DEF CommitElsewhere, file, realm, notifier
  <2> QED BY <2>1, <2>2, <2>3 DEF WorkingInv, Held
<1>5. WriteCaughtUp' /\ AheadIsTold'
  BY DEF WorkingInv, WriteCaughtUp, AheadIsTold, Heard, delivering, Calm, NoneOf, Calls, Cb, Goal
<1>6. SkipsTheNext' /\ PackagedToCall'
  BY DEF WorkingInv, SkipsTheNext, PackagedToCall, ToCall, delivering, Calm, Orderly, NoneOf,
         Calls, Cb
<1> QED BY <1>1, <1>2, <1>3, <1>4, <1>5, <1>6 DEF WorkingInv

(* Steps that change nothing the invariant is about but where the Realm is. *)
LEMMA QuietIInv ==
  ASSUME WorkingInv, TypeOK',
         UNCHANGED <<latest, read, target, notifier, skip, worker, rows>>,
         strayed \subseteq strayed',
         \/ UNCHANGED <<stage, at>>
         \/ at = "inCallback" /\ at' = "after" /\ UNCHANGED stage
         \/ stage = "writing" /\ stage' = "reading" /\ UNCHANGED at
            /\ \A i \in Calls : ~Cb(i).quiet
  PROVE  WorkingInv'
<1> USE DEF notifier
<1> USE Strayed
<1>1. Ordered' /\ Registered' /\ RowsCurrent'
  BY DEF WorkingInv, Ordered, Failed, Registered, RowsCurrent, Goal
<1>2. LoopInside' /\ NothingLost'
  BY DEF WorkingInv, LoopInside, LoopBounds, NothingLost, NoneOf, Found, delivering
<1>3. Held'
  BY DEF WorkingInv, Held, Calls, Cb
<1>4. WriteCaughtUp' /\ AheadIsTold'
  BY DEF WorkingInv, WriteCaughtUp, AheadIsTold, Heard, delivering, Calls, Cb, Goal
<1>5. SkipsTheNext' /\ PackagedToCall'
  BY DEF WorkingInv, SkipsTheNext, PackagedToCall, ToCall, delivering, Calls, Cb
<1> QED BY <1>1, <1>2, <1>3, <1>4, <1>5 DEF WorkingInv

(* The notifier is registered: it has no callbacks yet.                    *)
LEMMA register_notifierIInv == WorkingInv /\ register_notifier => WorkingInv'
<1> SUFFICES ASSUME WorkingInv, register_notifier PROVE WorkingInv'
  OBVIOUS
<1> USE DEF file, realm, notifier
<1>1. /\ callbacks' = callbacks /\ callbacks.list = << >> /\ Calls' = {}
      /\ ~callbacks.have /\ ~has_run /\ skip = 0 /\ worker.pc = "asleep"
      /\ at = "idle" /\ at' = "idle" /\ stage' = "reading"
  BY DEF WorkingInv, register_notifier, Registered, LoopInside, LoopBounds, Calls, Idle
<1>2. TypeOK'
  BY DEF register_notifier, WorkingInv, TypeOK
<1>3. Ordered'
  BY <1>1, Types DEF register_notifier, WorkingInv, Ordered, Failed
<1>4. Registered' /\ RowsCurrent' /\ WriteCaughtUp'
  BY <1>1 DEF register_notifier, Registered, RowsCurrent, WriteCaughtUp
<1>5. LoopInside'
  BY <1>1 DEF register_notifier, WorkingInv, LoopInside, LoopBounds, delivering, NoneOf
<1>6. Held' /\ AheadIsTold' /\ SkipsTheNext' /\ PackagedToCall'
  BY <1>1 DEF Held, AheadIsTold, SkipsTheNext, PackagedToCall, delivering
<1>7. NothingLost'
  BY <1>1 DEF NothingLost, Calls
<1> QED BY <1>2, <1>3, <1>4, <1>5, <1>6, <1>7 DEF WorkingInv

(* begin_transaction and refresh. *)
LEMMA WaitForIInv ==
  ASSUME WorkingInv, Idle, WaitFor(latest), stage = "reading", stage' \in {"reading", "writing"},
         UNCHANGED <<file, signaled, notifier, skip, worker, rows, strayed>>
  PROVE  WorkingInv'
<1> USE DEF file, notifier
<1>1. /\ at = "idle" /\ at' \in {"idle", "waiting"}
      /\ \/ read' = latest /\ place = "none" /\ at' = "idle" /\ target' = target
         \/ read' = read /\ at' = "waiting" /\ target' = latest /\ place # "none"
  BY DEF Idle, WaitFor
<1>2. ~delivering /\ ~delivering'
  BY <1>1 DEF delivering
<1>3. TypeOK'
  <2>1. woken' \in BOOLEAN
    <3>1. woken' = woken \/ woken' = (Ready(latest) => woken)
      BY Zenon DEF WaitFor
    <3>2. woken \in BOOLEAN
      BY DEF WorkingInv, TypeOK
    <3> QED BY <3>1, <3>2, Zenon
  <2>2. read' \in Versions /\ target' \in {0} \cup Versions
    BY <1>1 DEF WorkingInv, TypeOK
  <2> QED BY <1>1, <2>1, <2>2 DEF WorkingInv, TypeOK
<1>4. place = "none" => callbacks.list = << >> /\ Calls = {} /\ ~callbacks.have
  BY DEF WorkingInv, Registered, LoopInside, LoopBounds, Calls
<1>5. Ordered' /\ Registered'
  <2>1. latest # 0
    BY BoundsAssumption DEF WorkingInv, TypeOK, Versions
  <2>2. Ordered'
    BY <1>1, Types DEF WorkingInv, Ordered, Failed, Goal
  <2>3. Registered'
    BY <1>1, <2>1 DEF WorkingInv, Registered
  <2> QED BY <2>2, <2>3
<1>6. LoopInside' /\ RowsCurrent'
  BY <1>1, <1>2 DEF WorkingInv, LoopInside, LoopBounds, RowsCurrent, Calm, NoneOf, Goal
<1>7. Held' /\ WriteCaughtUp'
  BY <1>1, <1>2, <1>4 DEF WorkingInv, Held, WriteCaughtUp, Calls, Cb
<1>8. AheadIsTold'
  BY <1>1, <1>2, <1>4 DEF WorkingInv, AheadIsTold, Heard, Calm, NoneOf, Calls, Cb, Goal
<1>9. SkipsTheNext' /\ PackagedToCall'
  BY <1>2 DEF WorkingInv, SkipsTheNext, PackagedToCall, ToCall, Calm, Orderly, NoneOf, Calls, Cb
<1>10. NothingLost'
  BY DEF WorkingInv, NothingLost, NoneOf, Found
<1> QED BY <1>3, <1>5, <1>6, <1>7, <1>8, <1>9, <1>10 DEF WorkingInv

(* A write transaction begun in a callback: the contract ends here.        *)
LEMMA begin_transactionInCallbackIInv == WorkingInv /\ begin_transactionInCallback => WorkingInv'
<1> SUFFICES ASSUME WorkingInv, begin_transactionInCallback PROVE WorkingInv'
  OBVIOUS
<1> USE DEF begin_transactionInCallback, file, notifier
<1>1. ~Calm' /\ ~Orderly' /\ ~NoneOf(Misled \cup Miscounted)'
  BY DEF Calm, Orderly, NoneOf, Misled
<1>2. NoneOf(Miscounted)' => NoneOf(Miscounted)
  BY DEF NoneOf, Miscounted
<1>3. TypeOK'
  BY DEF WorkingInv, TypeOK, Strays
<1>4. Ordered'
  <2>1. read' <= latest'
    <3>1. latest \in Nat
      BY Types DEF WorkingInv
    <3>2. read' = latest /\ latest' = latest
      OBVIOUS
    <3> HIDE DEF begin_transactionInCallback
    <3> QED BY <3>1, <3>2, SMT
  <2>2. Goal' = Goal
    BY DEF Goal
  <2> QED BY <2>1, <2>2 DEF WorkingInv, Ordered, Failed
<1>5. Registered' /\ Held'
  BY DEF WorkingInv, Registered, Held, Calls, Cb
<1>6. LoopInside'
  BY <1>2 DEF WorkingInv, LoopInside, LoopBounds, delivering
<1>7. /\ RowsCurrent' /\ WriteCaughtUp' /\ AheadIsTold' /\ SkipsTheNext'
      /\ PackagedToCall' /\ NothingLost'
  BY <1>1 DEF WorkingInv, RowsCurrent, WriteCaughtUp, AheadIsTold, SkipsTheNext, PackagedToCall,
              NothingLost, Goal
<1> QED BY <1>3, <1>4, <1>5, <1>6, <1>7 DEF WorkingInv

(* The worker takes the version to skip, and the last one.                 *)
LEMMA pickVersionIInv == WorkingInv /\ pickVersion => WorkingInv'
<1> SUFFICES ASSUME WorkingInv, pickVersion PROVE WorkingInv'
  OBVIOUS
<1> USE DEF file, realm
<1>1. /\ worker.pc = "asleep" /\ place' = "main" /\ skip' = 0
      /\ worker' = [pc |-> "info", skip |-> skip, to |-> latest, informed |-> FALSE,
                    changes |-> {}]
      /\ UNCHANGED <<file, signaled, realm, version, has_run, callbacks, next_token, rows,
                     strayed>>
      /\ woken' = FALSE
  BY DEF pickVersion, Asleep
<1>2. /\ Goal' = IF skip # 0 THEN skip ELSE latest
      /\ worker'.pc = "info" /\ worker'.skip = skip /\ worker'.to = latest
      /\ worker'.changes = {} /\ worker.changes = {} /\ worker.skip = 0
  BY <1>1 DEF Goal, WorkingInv, Ordered, Failed
<1>3. TypeOK'
  <2>1. worker' \in WorkerStates
    BY <1>1 DEF WorkingInv, TypeOK, WorkerStates
  <2> QED BY <1>1, <2>1 DEF WorkingInv, TypeOK
<1>4. Ordered'
  BY <1>1, <1>2, Types DEF WorkingInv, Ordered, Failed
<1>5. Registered' /\ LoopInside'
  BY <1>1, <1>2 DEF pickVersion, WorkingInv, Registered, LoopInside, LoopBounds, delivering, NoneOf
<1>6. Held' /\ RowsCurrent'
  BY <1>1, <1>2 DEF WorkingInv, Held, RowsCurrent, Calm, NoneOf, Calls, Cb
<1>7. WriteCaughtUp'
  BY <1>1, <1>2 DEF WorkingInv, WriteCaughtUp, delivering, Calm, NoneOf, Calls, Cb
<1>8. AheadIsTold'
  <2>1. read <= latest /\ read \in Nat /\ latest \in Nat /\ skip \in Nat
    BY Types DEF WorkingInv, Ordered, Failed
  <2> QED BY <1>1, <1>2, <2>1
          DEF WorkingInv, AheadIsTold, Heard, delivering, Calm, NoneOf, Calls, Cb
<1>9. SkipsTheNext'
  <2>1. version + 1 # 0
    BY Types DEF WorkingInv
  <2> QED BY <1>1, <1>2, <2>1 DEF WorkingInv, SkipsTheNext, Calm, NoneOf, Calls, Cb
<1>10. PackagedToCall'
  BY <1>1, <1>2 DEF WorkingInv, PackagedToCall, ToCall, delivering, Orderly, NoneOf, Calls, Cb
<1>11. NothingLost'
  BY <1>1, <1>2 DEF WorkingInv, NothingLost, NoneOf, Found
<1> QED BY <1>3, <1>4, <1>5, <1>6, <1>7, <1>8, <1>9, <1>10, <1>11 DEF WorkingInv

(* The worker goes on with a run, and compares nothing.                    *)
LEMMA GoesOnIInv ==
  ASSUME WorkingInv, RowsCurrent',
         worker.pc \in {"info", "need"}, worker' \in WorkerStates,
         worker'.pc \in {"need", "compare", "handover"},
         worker'.skip = worker.skip, worker'.to = worker.to, worker'.changes = worker.changes,
         UNCHANGED <<file, woken, signaled, realm, notifier, skip, rows, strayed>>
  PROVE  WorkingInv'
<1> USE DEF file, realm, notifier
<1>1. Goal' = Goal /\ worker.changes = {} /\ worker'.changes = {}
  BY DEF Goal, WorkingInv, Ordered
<1>2. TypeOK'
  BY DEF WorkingInv, TypeOK
<1>3. Ordered'
  BY <1>1 DEF WorkingInv, Ordered, Failed
<1>4. Registered' /\ LoopInside'
  BY DEF WorkingInv, Registered, LoopInside, LoopBounds, delivering, NoneOf
<1>5. Held' /\ WriteCaughtUp'
  BY DEF WorkingInv, Held, WriteCaughtUp, delivering, Calm, NoneOf, Calls, Cb
<1>6. AheadIsTold' /\ SkipsTheNext'
  BY <1>1 DEF WorkingInv, AheadIsTold, Heard, SkipsTheNext, delivering, Calm, NoneOf, Calls, Cb
<1>7. PackagedToCall'
  BY DEF WorkingInv, PackagedToCall, ToCall, delivering, Orderly, NoneOf, Calls, Cb
<1>8. NothingLost'
  BY DEF WorkingInv, NothingLost, NoneOf, Found
<1> QED BY <1>2, <1>3, <1>4, <1>5, <1>6, <1>7, <1>8 DEF WorkingInv

(* It asks for the changes when somebody is there to be told.              *)
LEMMA add_required_change_infoIInv == WorkingInv /\ add_required_change_info => WorkingInv'
<1> SUFFICES ASSUME WorkingInv, add_required_change_info PROVE WorkingInv'
  OBVIOUS
<1>1. /\ worker.pc = "info" /\ worker'.pc = "need"
      /\ worker'.skip = worker.skip /\ worker'.to = worker.to
      /\ worker'.changes = worker.changes
      /\ worker'.informed <=> has_run /\ callbacks.have
      /\ UNCHANGED <<file, woken, signaled, realm, notifier, skip, rows, strayed>>
  BY DEF add_required_change_info, WorkingInv, TypeOK, WorkerStates
<1>2. worker' \in WorkerStates
  <2>1. (has_run /\ callbacks.have) \in BOOLEAN
    BY Zenon
  <2>2. worker \in WorkerStates
    BY DEF WorkingInv, TypeOK
  <2>3. worker' = [worker EXCEPT !.pc = "need", !.informed = has_run /\ callbacks.have]
    BY DEF add_required_change_info
  <2> QED BY <2>1, <2>2, <2>3 DEF WorkerStates
<1>3. RowsCurrent'
  <2>1. Goal' = Goal /\ (Calm' <=> Calm)
    BY <1>1 DEF Goal, Calm, NoneOf
  <2> QED BY <1>1, <2>1 DEF WorkingInv, RowsCurrent, notifier
<1> QED BY <1>1, <1>2, <1>3, GoesOnIInv

(* It goes on to its rows, or keeps those it has when nobody is there.     *)
LEMMA need_to_runIInv == WorkingInv /\ need_to_run => WorkingInv'
<1> SUFFICES ASSUME WorkingInv, need_to_run PROVE WorkingInv'
  OBVIOUS
<1>1. /\ worker.pc = "need" /\ worker'.pc \in {"compare", "handover"}
      /\ ~has_run \/ callbacks.have => worker'.pc = "compare"
      /\ worker'.skip = worker.skip /\ worker'.to = worker.to
      /\ worker'.changes = worker.changes /\ worker'.informed = worker.informed
      /\ worker' \in WorkerStates
      /\ UNCHANGED <<file, woken, signaled, realm, notifier, skip, rows, strayed>>
  BY DEF need_to_run, WorkingInv, TypeOK, WorkerStates
<1>2. RowsCurrent'
  <2>1. Goal' = Goal /\ (Calm' <=> Calm)
    BY <1>1 DEF Goal, Calm, NoneOf
  <2> QED BY <1>1, <2>1 DEF WorkingInv, RowsCurrent, notifier
<1> QED BY <1>1, <1>2, GoesOnIInv

(* The worker compares the rows it has with those of its goal.             *)
LEMMA calculate_changesIInv == WorkingInv /\ calculate_changes => WorkingInv'
<1> SUFFICES ASSUME WorkingInv, calculate_changes PROVE WorkingInv'
  OBVIOUS
<1> USE DEF file, realm, notifier
<1>1. /\ worker.pc = "compare" /\ worker'.pc = "handover"
      /\ worker'.skip = worker.skip /\ worker'.to = worker.to /\ Goal' = Goal
      /\ UNCHANGED <<file, woken, signaled, realm, notifier, skip, strayed>>
  BY DEF calculate_changes, Goal, WorkingInv, TypeOK
<1>2. /\ rows' = Goal /\ worker'.changes \subseteq rows + 1 .. Goal
      /\ has_run /\ callbacks.have /\ worker.informed /\ rows = version
           => worker'.changes = rows + 1 .. Goal
      /\ ~(has_run /\ callbacks.have) => worker'.changes = {}
  BY DEF calculate_changes, WorkingInv, TypeOK, WorkerStates
<1>3. /\ worker.changes = {} /\ version <= Goal /\ rows <= latest /\ Goal <= latest
      /\ worker'.changes \subseteq 1 .. Goal
  <2>1. worker.changes = {} /\ version <= Goal /\ rows <= latest /\ Goal <= latest
    BY <1>1, Types DEF WorkingInv, Ordered, Failed, Goal
  <2>2. rows + 1 .. Goal \subseteq 1 .. Goal
    BY Types DEF WorkingInv
  <2> QED BY <1>2, <2>1, <2>2
<1>4. TypeOK'
  <2>1. rows' \in {0} \cup Versions
    BY <1>2 DEF WorkingInv, TypeOK, Goal, WorkerStates
  <2>2. worker'.changes \subseteq Versions
    <3>1. Goal \in {0} \cup Versions
      BY DEF WorkingInv, TypeOK, Goal, WorkerStates
    <3> QED BY <1>3, <3>1, BoundsAssumption DEF Versions
  <2>3. worker' = [worker EXCEPT !.pc = "handover", !.changes = worker'.changes]
    BY DEF calculate_changes, WorkingInv, TypeOK, WorkerStates
  <2>4. worker' \in WorkerStates
    BY <2>2, <2>3 DEF WorkingInv, TypeOK, WorkerStates
  <2> QED BY <1>1, <2>1, <2>4 DEF WorkingInv, TypeOK
<1>5. Ordered'
  BY <1>1, <1>2, <1>3, Types DEF WorkingInv, Ordered, Failed
<1>6. Registered' /\ LoopInside'
  BY <1>1 DEF WorkingInv, Registered, LoopInside, LoopBounds, delivering, NoneOf
<1>7. Held' /\ WriteCaughtUp'
  BY <1>1 DEF WorkingInv, Held, WriteCaughtUp, delivering, Calm, NoneOf, Calls, Cb
<1>8. RowsCurrent'
  <2>1. ASSUME Calm, has_run, callbacks.have
        PROVE  rows = version /\ worker'.changes = version + 1 .. Goal
    <3>1. rows = version /\ (worker.informed \/ Goal = version)
      BY <1>1, <2>1 DEF WorkingInv, RowsCurrent
    <3>2. CASE worker.informed
      BY <1>2, <2>1, <3>1, <3>2
    <3>3. CASE Goal = version
      <4>1. version + 1 .. Goal = {}
        BY <3>3, Types DEF WorkingInv
      <4> QED BY <1>2, <3>1, <4>1
    <3> QED BY <3>1, <3>2, <3>3
  <2>2. Calm' => Calm
    BY <1>1 DEF Calm, NoneOf
  <2> QED BY <1>1, <1>2, <2>1, <2>2 DEF RowsCurrent
<1>9. AheadIsTold' /\ SkipsTheNext'
  BY <1>1 DEF WorkingInv, AheadIsTold, Heard, SkipsTheNext, delivering, Calm, NoneOf, Calls, Cb
<1>10. ASSUME Calm, has_run, NEW i \in Calls, NEW a \in Nat, a <= version, NEW A,
              A = (a + 1 .. rows) \ Cb(i).mute
       PROVE  A \cup (worker'.changes \ Cb(i).mute) = (a + 1 .. rows') \ Cb(i).mute
  <2>1. callbacks.have
    BY <1>10 DEF WorkingInv, LoopInside, LoopBounds, Calls
  <2>2. rows = version
    BY <1>1, <1>10, <2>1 DEF WorkingInv, RowsCurrent
  <2>3. rows' = Goal /\ worker'.changes = rows + 1 .. Goal
    BY <1>1, <1>2, <1>8, <1>10, <2>1, <2>2 DEF RowsCurrent, Calm, NoneOf
  <2>4. rows \in Nat /\ Goal \in Nat /\ a <= rows /\ rows <= Goal
    BY <1>3, <1>10, <2>2, Types DEF WorkingInv
  <2> QED BY <1>10, <2>3, <2>4, Continued
<1>11. UNCHANGED <<Calm, Orderly, delivering>>
  BY <1>1 DEF Calm, Orderly, delivering, NoneOf
<1>12. PackagedToCall'
  <2> SUFFICES ASSUME Orderly, NEW i \in Calls
               PROVE  /\ Cb(i).initial_delivered /\ Cb(i).to_deliver # {} => ToCall(i)
                      /\ ToCall(i) => Cb(i).accumulated \cup (worker'.changes \ Cb(i).mute)
                                        = (target + 1 .. rows') \ Cb(i).mute
    BY <1>1, <1>11 DEF PackagedToCall, ToCall, Calls, Cb
  <2>1. Cb(i).initial_delivered /\ Cb(i).to_deliver # {} => ToCall(i)
    BY DEF WorkingInv, PackagedToCall
  <2>2. ASSUME ToCall(i)
        PROVE  Cb(i).accumulated \cup (worker'.changes \ Cb(i).mute)
                 = (target + 1 .. rows') \ Cb(i).mute
    <3>1. Cb(i).accumulated = (target + 1 .. rows) \ Cb(i).mute
      BY <1>3, <2>2 DEF WorkingInv, PackagedToCall
    <3>2. Calm /\ has_run /\ target <= version /\ target \in Nat
      BY <2>2, OrderlyIsCalm, Types DEF WorkingInv, LoopInside, LoopBounds, ToCall
    <3> QED BY <1>10, <3>1, <3>2
  <2> QED BY <2>1, <2>2
<1>13. NothingLost'
  <2> SUFFICES ASSUME Orderly, NEW i \in Calls, Cb(i).initial_delivered
               PROVE  /\ Cb(i).accumulated \cup Cb(i).to_deliver
                           \cup (worker'.changes \ Cb(i).mute)
                           = (Cb(i).told + 1 .. rows') \ Cb(i).mute
                      /\ Cb(i).accumulated \cap Cb(i).to_deliver = {}
    BY <1>1 DEF NothingLost, Orderly, NoneOf, Found, Calls, Cb
  <2>1. /\ Cb(i).accumulated \cup Cb(i).to_deliver = (Cb(i).told + 1 .. rows) \ Cb(i).mute
        /\ Cb(i).accumulated \cap Cb(i).to_deliver = {}
    BY <1>3 DEF WorkingInv, NothingLost, Found, Orderly, Calls, Cb
  <2>2. Calm /\ has_run /\ Cb(i).told <= version
    BY OrderlyIsCalm DEF WorkingInv, Held
  <2>3. Cb(i).told \in Nat
    <3>1. Cb(i) \in CallbackOf(AllTokens, Versions)
      BY Types DEF WorkingInv, Cb, Calls
    <3> QED BY <3>1, BoundsAssumption DEF CallbackOf, Versions
  <2> QED BY <1>10, <2>1, <2>2, <2>3
<1> QED BY <1>4, <1>5, <1>6, <1>7, <1>8, <1>9, <1>12, <1>13 DEF WorkingInv

-----------------------------------------------------------------------------
(* Steps that change the callbacks. *)

(* What a callback holds is of the file. *)
LEMMA CallbackTypes ==
  ASSUME TypeOK, NEW i \in Calls
  PROVE  /\ Cb(i) \in CallbackOf(AllTokens, Versions)
         /\ Cb(i).told \in Nat
         /\ callbacks.list # << >>
<1>1. Cb(i) \in CallbackOf(AllTokens, Versions)
  BY Types DEF Cb
<1>2. Cb(i).told \in Nat
  BY <1>1, BoundsAssumption DEF CallbackOf, Versions
<1> QED BY <1>1, <1>2 DEF Calls

(* A callback is added: it comes last, and nothing is held for it.         *)
LEMMA AddCallbackIInv == WorkingInv /\ AddCallback => WorkingInv'
<1> SUFFICES ASSUME WorkingInv, AddCallback PROVE WorkingInv'
  OBVIOUS
<1> USE DEF file, realm
<1>1. /\ at \in {"idle", "inCallback"} /\ stage = "reading" /\ place # "none"
      /\ next_token < MaxToken /\ next_token' = next_token + 1
      /\ callbacks' = add_callback(callbacks, next_token)
      /\ UNCHANGED <<file, signaled, realm, place, version, has_run, skip, worker, rows>>
  BY DEF AddCallback, OnItsThread
<1>2. /\ strayed \subseteq strayed' /\ strayed' \subseteq Strays
      /\ Lapsed => "added to a lapsed notifier" \in strayed'
      /\ HalfWay => "added during a run" \in strayed'
  BY DEF AddCallback, AddedAmiss, WorkingInv, TypeOK, Strays
<1>3. /\ next_token \in AllTokens /\ next_token' \in 0 .. MaxToken
      /\ next_token \in Nat
  BY <1>1, BoundsAssumption DEF WorkingInv, TypeOK, AllTokens
<1>4. PICK k \in Nat : k = Len(callbacks.list) /\ Calls = 1 .. k
  BY Types DEF WorkingInv
<1>5. /\ callbacks' \in CallbacksOf(AllTokens, Versions)
      /\ Len(callbacks'.list) = k + 1
      /\ \A i \in 1 .. k : Cb(i)' = Cb(i)
      /\ Cb(k + 1)' = Callback(next_token)
      /\ callbacks'.index = callbacks.index /\ callbacks'.count = callbacks.count
      /\ callbacks'.have <=> callbacks.have \/ ~Delivering(callbacks)
  <2>1. callbacks \in CallbacksOf(AllTokens, Versions)
    BY Types DEF WorkingInv
  <2>2. /\ callbacks' \in CallbacksOf(AllTokens, Versions)
        /\ Len(callbacks'.list) = Len(callbacks.list) + 1
        /\ \A i \in 1 .. Len(callbacks.list) : callbacks'.list[i] = callbacks.list[i]
        /\ callbacks'.list[Len(callbacks.list) + 1] = Callback(next_token)
        /\ callbacks'.index = callbacks.index /\ callbacks'.count = callbacks.count
        /\ callbacks'.have <=> callbacks.have \/ ~Delivering(callbacks)
    <3> PICK t \in AllTokens : t = next_token
      BY <1>3
    <3> QED BY <1>1, <2>1, Added
  <2> QED BY <1>4, <2>2 DEF Cb
<1>6. Calls' = 1 .. k + 1 /\ callbacks'.list # << >>
  <2>1. callbacks'.list \in Seq(CallbackOf(AllTokens, Versions))
    BY <1>5 DEF CallbacksOf
  <2> QED BY <1>4, <1>5, <2>1 DEF Calls
<1>7. \A i \in Calls' : \/ i \in Calls /\ Cb(i)' = Cb(i)
                        \/ i = k + 1 /\ Cb(i)' = Callback(next_token)
  BY <1>4, <1>5, <1>6
<1>8. TypeOK'
  <2>1. woken' \in BOOLEAN
    <3>1. woken \in BOOLEAN
      BY DEF WorkingInv, TypeOK
    <3>2. woken' = (Delivering(callbacks) => woken)
      BY DEF AddCallback
    <3> QED BY <3>1, <3>2, Zenon
  <2> QED BY <1>1, <1>2, <1>3, <1>5, <2>1 DEF WorkingInv, TypeOK
<1>9. Ordered' /\ Registered'
  BY <1>1 DEF WorkingInv, Ordered, Failed, Registered, Goal
<1>10. callbacks'.have
  <2>1. callbacks.have <=> callbacks.list # << >>
    BY DEF WorkingInv, LoopInside, LoopBounds
  <2>2. callbacks.list = << >> => ~Delivering(callbacks)
    <3>1. callbacks.index \in npos .. MaxToken /\ callbacks.index + 1 <= k
      BY <1>4 DEF WorkingInv, TypeOK, LoopInside, LoopBounds
    <3> QED BY <1>4, <3>1 DEF Delivering, npos
  <2> QED BY <1>5, <2>1, <2>2, Zenon
<1>11. LoopInside'
  <2>1. /\ callbacks.index \in Int /\ callbacks.count \in Int
        /\ k <= next_token /\ callbacks.index + 1 <= k
    BY <1>4, Types DEF WorkingInv, LoopInside, LoopBounds
  <2>2. callbacks'.have <=> callbacks'.list # << >>
    BY <1>6, <1>10
  <2>3. /\ k + 1 <= next_token' /\ callbacks.index + 1 <= k + 1
        /\ callbacks.count <= k => callbacks.count <= k + 1
    BY <1>1, <1>3, <2>1
  <2>4. /\ at \in {"idle", "waiting"} => callbacks.index = npos
        /\ delivering => has_run /\ target <= version
        /\ NoneOf(Miscounted) =>
             /\ at # "undefined"
             /\ delivering => callbacks.index < callbacks.count /\ callbacks.count <= k
    BY <1>4 DEF WorkingInv, LoopInside, LoopBounds
  <2>5. NoneOf(Miscounted)' => NoneOf(Miscounted)
    BY <1>2, Strayed
  <2>6. delivering' = delivering
    BY <1>1 DEF delivering
  <2> QED BY <1>1, <1>5, <2>2, <2>3, <2>4, <2>5, <2>6 DEF LoopInside, LoopBounds
<1>12. Held'
  BY <1>1, <1>7 DEF WorkingInv, Held, Callback
<1>13. RowsCurrent'
  <2>1. Goal' = Goal /\ (Calm' => Calm)
    BY <1>1, <1>2, Strayed DEF Goal
  <2>2. ASSUME Calm', has_run, ~callbacks.have
        PROVE  /\ rows = version
               /\ worker.pc = "handover" => Goal = version
               /\ worker.pc \in {"need", "compare"} => worker.informed \/ Goal = version
    BY <1>2, <2>2 DEF Calm, NoneOf, Misled, Lapsed, HalfWay
  <2>3. ASSUME Calm, has_run, Goal = version
        PROVE  worker.changes = version + 1 .. Goal
    <3>1. version + 1 .. Goal = {}
      BY <2>3, Types DEF WorkingInv
    <3> QED BY <2>3, <3>1 DEF WorkingInv, RowsCurrent
  <2> QED BY <1>1, <2>1, <2>2, <2>3 DEF WorkingInv, RowsCurrent
<1>14. WriteCaughtUp'
  BY <1>1 DEF WriteCaughtUp
<1>15. AheadIsTold'
  <2>1. (delivering' <=> delivering) /\ Goal' = Goal /\ (Calm' => Calm)
    BY <1>1, <1>2, Strayed DEF delivering, Goal
  <2>2. \A i \in Calls' :
          \/ i \in Calls /\ (Heard(i)' <=> Heard(i)) /\ Cb(i)' = Cb(i)
          \/ (Heard(i)' => delivering) /\ Cb(i)'.accumulated = {}
    BY <1>7, <2>1 DEF Heard, Callback
  <2>3. delivering' \/ (\E i \in Calls' : Heard(i)')
          => delivering \/ (\E i \in Calls : Heard(i))
    BY <2>1, <2>2
  <2>4. ASSUME Calm', NEW i \in Calls', Heard(i)', version < read
        PROVE  Cb(i)'.accumulated = {}
    BY <2>1, <2>2, <2>4 DEF WorkingInv, AheadIsTold
  <2>5. Calm' /\ (delivering' \/ (\E i \in Calls' : Heard(i)')) =>
          /\ skip # 0 => read <= skip
          /\ worker.skip # 0 => read <= worker.skip
          /\ worker.pc # "asleep" /\ Goal < read => Goal = version
    BY <2>1, <2>3 DEF WorkingInv, AheadIsTold
  <2> QED BY <1>1, <2>1, <2>4, <2>5 DEF AheadIsTold
<1>16. SkipsTheNext'
  <2> SUFFICES ASSUME Calm', NEW i \in Calls'
               PROVE  /\ (Cb(i).skip_next => Cb(i).accumulated = {})'
                      /\ (Cb(i).quiet => Cb(i).skip_next)'
                      /\ (Cb(i).skip_next /\ ~Cb(i).quiet =>
                            /\ version + 1 \in Cb(i).mute
                            /\ version + 1 \in {skip, worker.skip})'
                      /\ (\A v \in Cb(i).mute :
                            v > version => v = version + 1 /\ Cb(i).skip_next)'
    BY DEF SkipsTheNext
  <2>1. CASE i \in Calls /\ Cb(i)' = Cb(i)
    BY <1>1, <1>2, <2>1, Strayed DEF WorkingInv, SkipsTheNext
  <2>2. CASE Cb(i)' = Callback(next_token)
    BY <2>2 DEF Callback
  <2> QED BY <1>7, <2>1, <2>2
<1>17. PackagedToCall'
  <2> SUFFICES ASSUME Orderly', NEW i \in Calls'
               PROVE  /\ (Cb(i).initial_delivered /\ Cb(i).to_deliver # {} => ToCall(i))'
                      /\ (ToCall(i) => Cb(i).accumulated \cup (worker.changes \ Cb(i).mute)
                                         = (target + 1 .. rows) \ Cb(i).mute)'
    BY DEF PackagedToCall
  <2>1. Orderly
    BY <1>2, Strayed
  <2>2. ToCall(i)' = ToCall(i)
    BY <1>1, <1>5 DEF ToCall, delivering
  <2>3. CASE i \in Calls /\ Cb(i)' = Cb(i)
    BY <1>1, <2>1, <2>2, <2>3 DEF WorkingInv, PackagedToCall
  <2>4. CASE i = k + 1 /\ Cb(i)' = Callback(next_token)
    <3>1. delivering => callbacks.count <= k
      BY <1>4, <2>1 DEF WorkingInv, LoopInside, LoopBounds, Orderly, NoneOf
    <3>2. ~ToCall(i)
      BY <2>4, <3>1, Types DEF WorkingInv, ToCall
    <3> QED BY <2>2, <2>4, <3>2 DEF Callback
  <2> QED BY <1>7, <2>3, <2>4
<1>18. NothingLost'
  <2>1. Orderly' => \A i \in Calls' :
          Cb(i)'.initial_delivered =>
            /\ Cb(i)'.accumulated \cup Cb(i)'.to_deliver
                 \cup (worker.changes \ Cb(i)'.mute) = Found(Cb(i)')
            /\ Cb(i)'.accumulated \cap Cb(i)'.to_deliver = {}
    <3>1. \A i \in Calls' : Cb(i)'.initial_delivered => i \in Calls /\ Cb(i)' = Cb(i)
      BY <1>7 DEF Callback
    <3> QED BY <1>2, <3>1, Strayed DEF WorkingInv, NothingLost, Orderly, Calls, Cb
  <2> QED BY <1>1, <2>1 DEF NothingLost, Found, Orderly, Calls, Cb
<1> QED
  BY <1>8, <1>9, <1>11, <1>12, <1>13, <1>14, <1>15, <1>16, <1>17, <1>18 DEF WorkingInv

(* A callback is removed: those after it move, and so does the loop.       *)
LEMMA RemoveCallbackIInv ==
  ASSUME WorkingInv, NEW t \in Tokens(callbacks), RemoveCallback(t)
  PROVE  WorkingInv'
<1> USE DEF file, realm
<1>1. /\ callbacks' = remove_callback(callbacks, t)
      /\ UNCHANGED <<file, woken, signaled, realm, place, version, has_run, next_token,
                     skip, worker, rows>>
  BY DEF RemoveCallback
<1>2. /\ strayed \subseteq strayed' /\ strayed' \subseteq Strays
      /\ delivering /\ Position(callbacks, t) > callbacks.count
           => "uncounted removed" \in strayed'
  BY DEF RemoveCallback, WorkingInv, TypeOK, Strays, delivering
<1>3. PICK k \in Nat : k = Len(callbacks.list) /\ Calls = 1 .. k
  BY Types DEF WorkingInv
<1> DEFINE old(p, i) == IF i < p THEN i ELSE i + 1
<1>4. PICK p \in 1 .. k :
      /\ p = Position(callbacks, t)
      /\ callbacks' \in CallbacksOf(AllTokens, Versions)
      /\ Len(callbacks'.list) = k - 1
      /\ \A i \in 1 .. k - 1 : Cb(i)' = Cb(old(p, i))
      /\ callbacks'.index = IF callbacks.index >= p - 1 THEN callbacks.index - 1
                                                        ELSE callbacks.index
      /\ callbacks'.count = callbacks.count - 1
      /\ callbacks'.have <=> callbacks'.list # << >>
  <2>1. callbacks \in CallbacksOf(AllTokens, Versions)
    BY Types DEF WorkingInv
  <2> QED BY <1>1, <1>3, <2>1, Removed DEF Cb
<1>0. /\ p \in Nat /\ 1 <= p /\ p <= k /\ p = Position(callbacks, t)
      /\ callbacks'.index = IF callbacks.index >= p - 1 THEN callbacks.index - 1
                                                        ELSE callbacks.index
      /\ callbacks'.count = callbacks.count - 1
  BY <1>4
<1>5. Calls' = 1 .. k - 1 /\ callbacks.list # << >>
  <2>1. callbacks'.list \in Seq(CallbackOf(AllTokens, Versions))
    BY <1>4 DEF CallbacksOf
  <2> QED BY <1>3, <1>4, <2>1 DEF Calls
<1>6. \A i \in Calls' : old(p, i) \in Calls /\ Cb(i)' = Cb(old(p, i))
  BY <1>3, <1>4, <1>5
<1>7. /\ callbacks.index \in Int /\ callbacks.count \in Int
      /\ callbacks.index \in npos .. MaxToken /\ callbacks.index + 1 <= k
      /\ k <= next_token /\ next_token \in Nat
  BY <1>3, Types DEF WorkingInv, TypeOK, LoopInside, LoopBounds
<1>8. /\ callbacks'.index \in npos .. MaxToken
      /\ callbacks'.index + 1 <= k - 1
      /\ callbacks.index = npos => callbacks'.index = npos
      /\ callbacks.index < callbacks.count /\ p <= callbacks.count
           => callbacks'.index < callbacks'.count
      /\ callbacks.count <= k => callbacks'.count <= k - 1
  BY <1>0, <1>7, BoundsAssumption DEF npos
<1>9. TypeOK'
  BY <1>1, <1>2, <1>4, <1>8 DEF WorkingInv, TypeOK
<1>10. Ordered' /\ Registered'
  BY <1>1, <1>5 DEF WorkingInv, Ordered, Failed, Registered, Goal
<1>11. /\ delivering' = delivering /\ Goal' = Goal
       /\ Calm' => Calm
       /\ Orderly' => Orderly
       /\ NoneOf(Miscounted)' => NoneOf(Miscounted) /\ (delivering => p <= callbacks.count)
  <2>1. NoneOf(Miscounted)' => (delivering => p <= callbacks.count)
    <3>1. NoneOf(Miscounted)' => "uncounted removed" \notin strayed'
      BY DEF NoneOf, Miscounted
    <3>2. delivering /\ p > callbacks.count => "uncounted removed" \in strayed'
      BY <1>0, <1>2
    <3>3. delivering /\ NoneOf(Miscounted)' => ~(p > callbacks.count)
      BY <3>1, <3>2
    <3>4. p \in Int /\ callbacks.count \in Int
      BY <1>0, <1>7
    <3> QED BY <3>3, <3>4
  <2> QED BY <1>1, <1>2, <2>1, Strayed DEF delivering, Goal
<1>12. LoopInside'
  <2>1. k - 1 <= next_token'
    BY <1>1, <1>7
  <2> QED BY <1>1, <1>3, <1>4, <1>8, <1>11, <2>1 DEF WorkingInv, LoopInside, LoopBounds
<1>13. Held'
  BY <1>1, <1>6 DEF WorkingInv, Held
<1>14. callbacks.have
  BY <1>5 DEF WorkingInv, LoopInside, LoopBounds
<1>15. RowsCurrent' /\ WriteCaughtUp'
  BY <1>1, <1>6, <1>11, <1>14 DEF WorkingInv, RowsCurrent, WriteCaughtUp
<1>16. AheadIsTold'
  BY <1>1, <1>6, <1>11 DEF WorkingInv, AheadIsTold, Heard
<1>17. SkipsTheNext'
  BY <1>1, <1>6, <1>11 DEF WorkingInv, SkipsTheNext
<1>18. PackagedToCall'
  <2> SUFFICES ASSUME Orderly', NEW i \in Calls'
               PROVE  /\ (Cb(i).initial_delivered /\ Cb(i).to_deliver # {} => ToCall(i))'
                      /\ (ToCall(i) => Cb(i).accumulated \cup (worker.changes \ Cb(i).mute)
                                         = (target + 1 .. rows) \ Cb(i).mute)'
    BY DEF PackagedToCall
  <2>1. Orderly /\ (delivering => p <= callbacks.count)
    BY <1>11 DEF Orderly, NoneOf
  <2>2. ToCall(i)' <=> ToCall(old(p, i))
    <3>1. delivering =>
            (i \in callbacks'.index + 2 .. callbacks'.count
              <=> old(p, i) \in callbacks.index + 2 .. callbacks.count)
      <4>1. i \in Nat /\ (delivering => p <= callbacks.count)
        BY <1>5, <2>1
      <4>2. CASE i < p
        BY <1>0, <1>7, <4>1, <4>2
      <4>3. CASE ~(i < p)
        BY <1>0, <1>7, <4>1, <4>3
      <4> QED BY <4>2, <4>3
    <3> QED BY <1>11, <3>1 DEF ToCall
  <2> QED BY <1>1, <1>6, <2>1, <2>2 DEF WorkingInv, PackagedToCall
<1>19. NothingLost'
  <2>1. Orderly' => \A i \in Calls' :
          Cb(i)'.initial_delivered =>
            /\ Cb(i)'.accumulated \cup Cb(i)'.to_deliver
                 \cup (worker.changes \ Cb(i)'.mute) = Found(Cb(i)')
            /\ Cb(i)'.accumulated \cap Cb(i)'.to_deliver = {}
    BY <1>6, <1>11 DEF WorkingInv, NothingLost, Orderly, Calls, Cb
  <2> QED BY <1>1, <2>1 DEF NothingLost, Found, Orderly, Calls, Cb
<1> QED
  BY <1>9, <1>10, <1>12, <1>13, <1>15, <1>16, <1>17, <1>18, <1>19 DEF WorkingInv

(* Operations that keep the number of callbacks. *)
LEMMA SameCalls ==
  ASSUME TypeOK, callbacks' \in CallbacksOf(AllTokens, Versions),
         Len(callbacks'.list) = Len(callbacks.list)
  PROVE  /\ Calls' = Calls
         /\ callbacks'.list = << >> <=> callbacks.list = << >>
         /\ Len(callbacks'.list) \in Nat
<1>1. /\ callbacks.list \in Seq(CallbackOf(AllTokens, Versions))
      /\ callbacks'.list \in Seq(CallbackOf(AllTokens, Versions))
  BY Types DEF CallbacksOf
<1> QED BY <1>1 DEF Calls

(* A write is kept from a callback that has nothing waiting for it.        *)
LEMMA SuppressNextIInv ==
  ASSUME WorkingInv, NEW t \in Tokens(callbacks), SuppressNext(t)
  PROVE  WorkingInv'
<1> USE DEF file, realm
<1>1. /\ stage = "writing" /\ at \in {"idle", "inCallback"}
      /\ callbacks' = suppress_next_notification(callbacks, t)
      /\ UNCHANGED <<file, woken, signaled, realm, place, version, has_run, next_token,
                     skip, worker, rows, strayed>>
  BY DEF SuppressNext, OnItsThread
<1>2. PICK k \in Nat : k = Len(callbacks.list) /\ Calls = 1 .. k
  BY Types DEF WorkingInv
<1>3. /\ callbacks' \in CallbacksOf(AllTokens, Versions)
      /\ Len(callbacks'.list) = k
      /\ callbacks'.index = callbacks.index /\ callbacks'.count = callbacks.count
      /\ callbacks'.have = callbacks.have
      /\ \A i \in Calls :
        /\ Cb(i)'.accumulated = Cb(i).accumulated /\ Cb(i)'.to_deliver = Cb(i).to_deliver
        /\ (Cb(i)'.initial_delivered <=> Cb(i).initial_delivered)
        /\ Cb(i)'.told = Cb(i).told /\ Cb(i)'.mute = Cb(i).mute
        /\ \/ (Cb(i)'.skip_next <=> Cb(i).skip_next) /\ (Cb(i)'.quiet <=> Cb(i).quiet)
           \/ Cb(i)'.skip_next /\ Cb(i)'.quiet
  <2>1. callbacks \in CallbacksOf(AllTokens, Versions)
    BY Types DEF WorkingInv
  <2>2. callbacks' = suppress_next_notification(callbacks, t)
    BY <1>1
  <2> QED BY <1>2, <2>1, <2>2, Suppressed DEF Cb
<1>4. Calls' = Calls /\ callbacks'.list # << >> /\ callbacks.list # << >>
  <2>1. callbacks.list # << >>
    BY DEF Tokens
  <2>2. TypeOK
    BY DEF WorkingInv
  <2> QED BY <1>2, <1>3, <2>1, <2>2, SameCalls
<1>6. TypeOK'
  BY <1>1, <1>3 DEF WorkingInv, TypeOK
<1>7. Ordered' /\ Registered'
  BY <1>1, <1>4 DEF WorkingInv, Ordered, Failed, Registered, Goal
<1>8. /\ delivering' = delivering /\ Goal' = Goal /\ Calm' = Calm /\ Orderly' = Orderly
      /\ NoneOf(Miscounted)' = NoneOf(Miscounted)
  BY <1>1 DEF delivering, Goal, Calm, Orderly, NoneOf
<1>9. LoopInside'
  BY <1>1, <1>2, <1>3, <1>4, <1>8 DEF WorkingInv, LoopInside, LoopBounds
<1>10. Held'
  BY <1>1, <1>4, <1>3 DEF WorkingInv, Held
<1>11. callbacks.have /\ callbacks'.have
  BY <1>3, <1>4 DEF WorkingInv, LoopInside, LoopBounds
<1>12. RowsCurrent' /\ WriteCaughtUp'
  BY <1>1, <1>3, <1>4, <1>8, <1>11 DEF WorkingInv, RowsCurrent, WriteCaughtUp
<1>13. AheadIsTold'
  BY <1>1, <1>3, <1>4, <1>8 DEF WorkingInv, AheadIsTold, Heard
<1>14. SkipsTheNext'
  <2>1. Calm => \A i \in Calls : Cb(i).accumulated = {}
    BY <1>1, <1>11 DEF WorkingInv, WriteCaughtUp
  <2> QED BY <1>1, <1>3, <1>4, <1>8, <2>1 DEF WorkingInv, SkipsTheNext
<1>15. PackagedToCall'
  BY <1>1, <1>3, <1>4, <1>8 DEF WorkingInv, PackagedToCall, ToCall
<1>16. NothingLost'
  <2>1. Orderly => \A i \in Calls :
          Cb(i)'.initial_delivered =>
            /\ Cb(i)'.accumulated \cup Cb(i)'.to_deliver
                 \cup (worker.changes \ Cb(i)'.mute) = Found(Cb(i)')
            /\ Cb(i)'.accumulated \cap Cb(i)'.to_deliver = {}
    BY <1>3 DEF WorkingInv, NothingLost, Found, Orderly, Calls, Cb
  <2> QED BY <1>1, <1>4, <1>8, <2>1 DEF NothingLost, Found, Orderly, Calls, Cb
<1> QED
  BY <1>6, <1>7, <1>9, <1>10, <1>12, <1>13, <1>14, <1>15, <1>16 DEF WorkingInv

(* A commit records for which version a callback has been suppressed. *)
LEMMA RecordedFacts ==
  ASSUME TypeOK, NEW v \in Versions
  PROVE  LET m == Recorded(v)
         IN  /\ m \in CallbacksOf(AllTokens, Versions)
             /\ Len(m.list) = Len(callbacks.list)
             /\ \A i \in Calls :
                  m.list[i] = [Cb(i) EXCEPT !.quiet = FALSE,
                                            !.mute  = IF Cb(i).quiet THEN @ \cup {v} ELSE @]
             /\ m.index = callbacks.index /\ m.count = callbacks.count
             /\ m.have = callbacks.have
<1> DEFINE recorded(c) == [c EXCEPT !.quiet = FALSE,
                                    !.mute  = IF c.quiet THEN @ \cup {v} ELSE @]
           L == [i \in DOMAIN callbacks.list |-> recorded(callbacks.list[i])]
           m == Recorded(v)
<1>1. callbacks.list \in Seq(CallbackOf(AllTokens, Versions))
  BY Types
<1>2. \A c \in CallbackOf(AllTokens, Versions) :
        recorded(c) \in CallbackOf(AllTokens, Versions)
  BY DEF CallbackOf
<1>3. m = [callbacks EXCEPT !.list = L]
  BY Zenon DEF Recorded
<1> HIDE DEF recorded, m
<1>4. /\ L \in Seq(CallbackOf(AllTokens, Versions))
      /\ Len(L) = Len(callbacks.list)
      /\ \A i \in Calls : L[i] = recorded(callbacks.list[i])
  BY <1>1, <1>2 DEF Calls
<1> HIDE DEF L
<1>5. callbacks \in CallbacksOf(AllTokens, Versions)
  BY Types
<1>6. m \in CallbacksOf(AllTokens, Versions)
  BY <1>3, <1>4, <1>5 DEF CallbacksOf
<1>7. /\ m.list = L /\ m.index = callbacks.index /\ m.count = callbacks.count
      /\ m.have = callbacks.have
  BY <1>3, <1>5 DEF CallbacksOf
<1> QED BY <1>4, <1>6, <1>7 DEF m, recorded, Cb

(* The Realm's own commit: the worker is to stop at it.                    *)
LEMMA commit_writeIInv == WorkingInv /\ commit_write => WorkingInv'
<1> SUFFICES ASSUME WorkingInv, commit_write PROVE WorkingInv'
  OBVIOUS
<1> USE DEF file
<1>1. /\ stage = "writing" /\ at \in {"idle", "inCallback"} /\ stage' = "reading"
      /\ latest < MaxVersion /\ latest' = latest + 1 /\ read' = latest + 1
      /\ others' = others \cup {"here"}
      /\ skip' = IF place = "main" THEN latest + 1 ELSE skip
      /\ callbacks' = Recorded(latest + 1)
      /\ UNCHANGED <<woken, signaled, at, target, place, version, has_run, next_token,
                     worker, rows, strayed>>
  BY DEF commit_write, OnItsThread
<1>2. latest \in Nat /\ latest + 1 \in Versions
  BY <1>1, Types, BoundsAssumption DEF WorkingInv, TypeOK, Versions
<1>3. PICK k \in Nat : k = Len(callbacks.list) /\ Calls = 1 .. k
  BY Types DEF WorkingInv
<1>4. /\ callbacks' \in CallbacksOf(AllTokens, Versions)
      /\ Len(callbacks'.list) = k
      /\ \A i \in Calls :
           Cb(i)' = [Cb(i) EXCEPT !.quiet = FALSE,
                                  !.mute  = IF Cb(i).quiet THEN @ \cup {latest + 1} ELSE @]
      /\ callbacks'.index = callbacks.index /\ callbacks'.count = callbacks.count
      /\ callbacks'.have = callbacks.have
  <2> PICK v \in Versions : v = latest + 1
    BY <1>2
  <2> QED BY <1>1, <1>3, RecordedFacts DEF WorkingInv, Cb
<1>5. Calls' = Calls /\ (callbacks'.list = << >> <=> callbacks.list = << >>)
  <2>2. TypeOK
    BY DEF WorkingInv
  <2> QED BY <1>3, <1>4, <2>2, SameCalls
<1>6. \A i \in Calls :
        /\ Cb(i)'.accumulated = Cb(i).accumulated /\ Cb(i)'.to_deliver = Cb(i).to_deliver
        /\ (Cb(i)'.initial_delivered <=> Cb(i).initial_delivered)
        /\ Cb(i)'.told = Cb(i).told /\ (Cb(i)'.skip_next <=> Cb(i).skip_next)
        /\ ~Cb(i)'.quiet
        /\ Cb(i)'.mute = IF Cb(i).quiet THEN Cb(i).mute \cup {latest + 1} ELSE Cb(i).mute
  <2> SUFFICES ASSUME NEW i \in Calls
               PROVE  /\ Cb(i)'.accumulated = Cb(i).accumulated
                      /\ Cb(i)'.to_deliver = Cb(i).to_deliver
                      /\ (Cb(i)'.initial_delivered <=> Cb(i).initial_delivered)
                      /\ Cb(i)'.told = Cb(i).told /\ (Cb(i)'.skip_next <=> Cb(i).skip_next)
                      /\ ~Cb(i)'.quiet
                      /\ Cb(i)'.mute = IF Cb(i).quiet THEN Cb(i).mute \cup {latest + 1}
                                                      ELSE Cb(i).mute
    OBVIOUS
  <2>1. Cb(i) \in CallbackOf(AllTokens, Versions)
    BY CallbackTypes DEF WorkingInv
  <2> QED BY <1>4, <2>1 DEF CallbackOf
<1>7. TypeOK'
  BY <1>1, <1>2, <1>4 DEF WorkingInv, TypeOK
<1>0. /\ latest' = latest + 1 /\ read' = latest + 1
      /\ skip' = IF place = "main" THEN latest + 1 ELSE skip
      /\ target' = target /\ version' = version /\ worker' = worker /\ rows' = rows
      /\ Goal' = Goal
  BY <1>1 DEF Goal
<1>8. Ordered'
  <2>1. /\ read \in Nat /\ target \in Nat /\ version \in Nat /\ skip \in Nat
        /\ rows \in Nat /\ worker.skip \in Nat /\ worker.to \in Nat /\ Goal \in Nat
    BY Types DEF WorkingInv
  <2>2. Ordered
    BY DEF WorkingInv
  <2>0. /\ version <= latest /\ rows <= latest /\ target <= latest
        /\ skip # 0 => version < skip /\ skip <= latest
    BY <2>2 DEF Ordered, Failed
  <2>3. /\ read' <= latest' /\ version' <= latest' /\ rows' <= latest'
        /\ target' <= latest'
        /\ skip' # 0 => version' < skip' /\ skip' <= latest'
    BY <1>0, <1>2, <2>1, <2>0
  <2>4. worker'.pc # "asleep" =>
          /\ worker'.to <= latest'
          /\ skip' # 0 => worker'.to < skip'
    BY <1>0, <1>2, <2>1, <2>2 DEF Ordered, Failed
  <2> QED BY <1>0, <2>2, <2>3, <2>4 DEF Ordered, Failed
<1>9. Registered'
  BY <1>1, <1>5 DEF WorkingInv, Registered
<1>10. /\ delivering' = delivering /\ Goal' = Goal /\ Calm' = Calm /\ Orderly' = Orderly
       /\ NoneOf(Miscounted)' = NoneOf(Miscounted)
  BY <1>1 DEF delivering, Goal, Calm, Orderly, NoneOf
<1>11. LoopInside'
  <2>1. Len(callbacks'.list) = Len(callbacks.list)
    BY <1>3, <1>4
  <2>2. UNCHANGED <<next_token, at, has_run, target, version>>
    BY <1>1
  <2> QED BY <1>4, <1>5, <1>10, <2>1, <2>2 DEF WorkingInv, LoopInside, LoopBounds
<1>12. Held'
  <2> SUFFICES ASSUME NEW i \in Calls
               PROVE  (/\ Cb(i).accumulated \cup Cb(i).to_deliver \subseteq 1 .. version
                       /\ Cb(i).mute \subseteq 1 .. latest
                       /\ Cb(i).initial_delivered => has_run /\ Cb(i).told <= version
                       /\ Cb(i).quiet => stage = "writing" /\ at # "waiting"
                       /\ ~has_run => Cb(i).accumulated = {})'
    BY <1>5 DEF Held
  <2>1. Cb(i)'.mute \subseteq 1 .. latest + 1
    <3>1. Cb(i).mute \subseteq 1 .. latest
      BY DEF WorkingInv, Held
    <3>2. Cb(i)'.mute \subseteq Cb(i).mute \cup {latest + 1}
      BY <1>6
    <3>3. (1 .. latest) \cup {latest + 1} \subseteq 1 .. latest + 1
      BY <1>2
    <3> QED BY <3>1, <3>2, <3>3
  <2>2. UNCHANGED <<version, has_run>>
    BY <1>1
  <2> QED BY <1>0, <1>6, <2>1, <2>2 DEF WorkingInv, Held
<1>13. RowsCurrent' /\ WriteCaughtUp'
  BY <1>1, <1>4, <1>10 DEF WorkingInv, RowsCurrent, WriteCaughtUp
<1>14. ASSUME Calm, delivering \/ Calls # {}
       PROVE  /\ version = latest /\ read = latest /\ place = "main"
              /\ \A i \in Calls : Cb(i).accumulated = {}
  <2>1. Calls # {} => callbacks.have
    BY DEF WorkingInv, LoopInside, LoopBounds, Calls
  <2> QED BY <1>1, <1>14, <2>1 DEF WorkingInv, WriteCaughtUp, Registered
<1>15. /\ worker.skip <= latest
       /\ worker.skip # 0 => version < worker.skip
       /\ worker.pc # "asleep" => version <= Goal /\ Goal <= latest
       /\ version \in Nat /\ Goal \in Nat /\ skip <= latest
  BY <1>2, Types DEF WorkingInv, Ordered, Failed, Goal
<1>16. AheadIsTold'
  <2>1. ASSUME Calm, delivering \/ Calls # {}
        PROVE  /\ \A i \in Calls : Cb(i)'.accumulated = {}
               /\ read' <= skip' /\ worker.skip = 0
               /\ worker.pc # "asleep" => Goal = version
    <3>1. version = latest /\ skip' = latest + 1 /\ worker.skip \in Nat
      BY <1>0, <1>14, <2>1, Types DEF WorkingInv
    <3>2. worker.skip = 0
      BY <1>2, <1>15, <3>1
    <3>3. worker.pc # "asleep" => Goal = version
      BY <1>2, <1>15, <3>1
    <3>4. read' <= skip'
      <4>1. read' = latest + 1 /\ latest + 1 \in Nat
        BY <1>0, <1>2
      <4> QED BY <3>1, <4>1
    <3> QED BY <1>6, <1>14, <2>1, <3>2, <3>3, <3>4
  <2> QED BY <1>0, <1>5, <1>10, <2>1 DEF AheadIsTold
<1>17. SkipsTheNext'
  <2> SUFFICES ASSUME Calm, NEW i \in Calls
               PROVE  /\ (Cb(i).skip_next => Cb(i).accumulated = {})'
                      /\ (Cb(i).quiet => Cb(i).skip_next)'
                      /\ (Cb(i).skip_next /\ ~Cb(i).quiet =>
                            /\ version + 1 \in Cb(i).mute
                            /\ version + 1 \in {skip, worker.skip})'
                      /\ (\A v \in Cb(i).mute :
                            v > version => v = version + 1 /\ Cb(i).skip_next)'
    BY <1>5, <1>10 DEF SkipsTheNext
  <2>1. version = latest /\ skip' = version + 1 /\ Cb(i).accumulated = {}
    BY <1>1, <1>14
  <2>2. /\ Cb(i).quiet => Cb(i).skip_next
        /\ Cb(i).skip_next => Cb(i).quiet
    <3>1. /\ Cb(i).quiet => Cb(i).skip_next
          /\ Cb(i).skip_next /\ ~Cb(i).quiet => version + 1 \in {skip, worker.skip}
      BY DEF WorkingInv, SkipsTheNext
    <3> QED BY <1>2, <1>15, <2>1, <3>1, Types DEF WorkingInv
  <2>3. \A v \in Cb(i).mute : v <= version
    BY <1>2, <2>1 DEF WorkingInv, Held
  <2>4. Cb(i).quiet \in BOOLEAN /\ Cb(i).skip_next \in BOOLEAN
    BY CallbackTypes DEF WorkingInv, CallbackOf
  <2>5. CASE Cb(i).quiet
    <3>1. Cb(i)'.mute = Cb(i).mute \cup {version + 1} /\ Cb(i)'.skip_next
      BY <1>6, <2>1, <2>2, <2>5
    <3>2. \A v \in Cb(i)'.mute : v > version => v = version + 1
      <4>1. \A v \in Cb(i).mute : v \in Nat
        BY <1>2 DEF WorkingInv, Held
      <4> QED BY <1>15, <2>3, <3>1, <4>1
    <3> QED BY <1>0, <1>6, <2>1, <3>1, <3>2
  <2>6. CASE ~Cb(i).quiet
    <3>1. Cb(i)'.mute = Cb(i).mute /\ ~Cb(i)'.skip_next
      BY <1>6, <2>2, <2>6
    <3>2. \A v \in Cb(i).mute : ~(v > version)
      <4>1. \A v \in Cb(i).mute : v \in Nat
        BY <1>2 DEF WorkingInv, Held
      <4> QED BY <1>15, <2>3, <4>1
    <3> QED BY <1>0, <1>6, <3>1, <3>2
  <2> QED BY <2>5, <2>6
<1>18. latest + 1 \notin 1 .. rows /\ latest + 1 \notin worker.changes
  BY <1>2, <1>15, Types DEF WorkingInv, Ordered, Failed
<1>19. \A i \in Calls, a \in Nat :
         /\ worker.changes \ Cb(i)'.mute = worker.changes \ Cb(i).mute
         /\ (a + 1 .. rows) \ Cb(i)'.mute = (a + 1 .. rows) \ Cb(i).mute
  <2>1. rows \in Nat
    BY Types DEF WorkingInv
  <2>2. \A a \in Nat : latest + 1 \notin a + 1 .. rows
    BY <1>2, <1>18, <2>1
  <2> QED BY <1>6, <1>18, <2>2
<1>20. PackagedToCall'
  <2>1. target \in Nat
    BY Types DEF WorkingInv
  <2>2. \A i \in Calls : ToCall(i)' <=> ToCall(i)
    BY <1>4, <1>10 DEF ToCall
  <2> QED BY <1>1, <1>5, <1>6, <1>10, <1>19, <2>1, <2>2 DEF WorkingInv, PackagedToCall
<1>21. NothingLost'
  <2> SUFFICES ASSUME Orderly, NEW i \in Calls, Cb(i).initial_delivered
               PROVE  /\ Cb(i)'.accumulated \cup Cb(i)'.to_deliver
                           \cup (worker.changes \ Cb(i)'.mute)
                           = (Cb(i)'.told + 1 .. rows) \ Cb(i)'.mute
                      /\ Cb(i)'.accumulated \cap Cb(i)'.to_deliver = {}
    BY <1>1, <1>5, <1>6, <1>10 DEF NothingLost, Found, Orderly, Calls, Cb
  <2>1. Cb(i).told \in Nat
    BY CallbackTypes DEF WorkingInv
  <2>2. /\ Cb(i).accumulated \cup Cb(i).to_deliver \cup (worker.changes \ Cb(i).mute)
             = (Cb(i).told + 1 .. rows) \ Cb(i).mute
        /\ Cb(i).accumulated \cap Cb(i).to_deliver = {}
    BY DEF WorkingInv, NothingLost, Found, Orderly, Calls, Cb
  <2> QED BY <1>6, <1>19, <2>1, <2>2
<1> QED
  BY <1>7, <1>8, <1>9, <1>11, <1>12, <1>13, <1>16, <1>17, <1>20, <1>21 DEF WorkingInv

-----------------------------------------------------------------------------
(* Deliveries. *)

(* What package_for_delivery does to the callbacks. *)
LEMMA PackagedFacts ==
  ASSUME TypeOK, callbacks' = package_for_delivery(callbacks)
  PROVE  /\ callbacks' \in CallbacksOf(AllTokens, Versions)
         /\ Calls' = Calls
         /\ callbacks'.list = << >> <=> callbacks.list = << >>
         /\ Len(callbacks'.list) = Len(callbacks.list)
         /\ callbacks'.index = callbacks.index
         /\ callbacks'.count = Len(callbacks.list)
         /\ callbacks'.have <=> callbacks.have
         /\ \A i \in Calls :
              /\ Cb(i)'.to_deliver = Cb(i).accumulated /\ Cb(i)'.accumulated = {}
              /\ Cb(i)'.initial_delivered <=> Cb(i).initial_delivered
              /\ Cb(i)'.told = Cb(i).told /\ Cb(i)'.mute = Cb(i).mute
              /\ (Cb(i)'.quiet <=> Cb(i).quiet) /\ (Cb(i)'.skip_next <=> Cb(i).skip_next)
<1>1. callbacks \in CallbacksOf(AllTokens, Versions)
  BY Types
<1>2. /\ callbacks' \in CallbacksOf(AllTokens, Versions)
      /\ Len(callbacks'.list) = Len(callbacks.list)
      /\ callbacks'.index = callbacks.index
      /\ callbacks'.count = Len(callbacks.list)
      /\ callbacks'.have <=> callbacks.have
  BY <1>1, Packaged
<1>3. Calls' = Calls /\ (callbacks'.list = << >> <=> callbacks.list = << >>)
  BY <1>2, SameCalls
<1>4. Calls = 1 .. Len(callbacks.list)
  BY Types
<1>5. \A i \in Calls :
        /\ Cb(i)'.to_deliver = Cb(i).accumulated /\ Cb(i)'.accumulated = {}
        /\ Cb(i)'.initial_delivered <=> Cb(i).initial_delivered
        /\ Cb(i)'.told = Cb(i).told /\ Cb(i)'.mute = Cb(i).mute
        /\ (Cb(i)'.quiet <=> Cb(i).quiet) /\ (Cb(i)'.skip_next <=> Cb(i).skip_next)
  BY <1>1, <1>4, Packaged DEF Cb
<1> QED BY <1>2, <1>3, <1>5

(* Changes are handed over when the Realm is at the version of the notifier. *)
LEMMA DeliverIInv ==
  ASSUME WorkingInv, at \in {"idle", "waiting"}, has_run, Deliver, TypeOK',
         read' = version, stage = "writing" => version = latest,
         UNCHANGED <<latest, stage, place, version, has_run, next_token, skip, worker, rows,
                     strayed>>
  PROVE  WorkingInv'
<1>1. /\ callbacks' = package_for_delivery(callbacks)
      /\ target' = version /\ at' = "after"
  BY DEF Deliver
<1>2. TypeOK
  BY DEF WorkingInv
<1>3. /\ Calls' = Calls
      /\ callbacks'.list = << >> <=> callbacks.list = << >>
      /\ Len(callbacks'.list) = Len(callbacks.list)
      /\ callbacks'.index = callbacks.index
      /\ callbacks'.count = Len(callbacks.list)
      /\ callbacks'.have <=> callbacks.have
  BY <1>1, <1>2, PackagedFacts
<1>4. \A i \in Calls :
        /\ Cb(i)'.to_deliver = Cb(i).accumulated /\ Cb(i)'.accumulated = {}
        /\ Cb(i)'.initial_delivered <=> Cb(i).initial_delivered
        /\ Cb(i)'.told = Cb(i).told /\ Cb(i)'.mute = Cb(i).mute
        /\ (Cb(i)'.quiet <=> Cb(i).quiet) /\ (Cb(i)'.skip_next <=> Cb(i).skip_next)
  BY <1>1, <1>2, PackagedFacts
<1>5. /\ ~delivering /\ delivering' /\ Goal' = Goal
      /\ (Calm' <=> Calm) /\ (Orderly' <=> Orderly)
      /\ (NoneOf(Miscounted)' <=> NoneOf(Miscounted))
  BY <1>1 DEF delivering, Goal, Calm, Orderly, NoneOf
<1>6. /\ version \in Nat /\ Goal \in Nat /\ skip \in Nat /\ worker.skip \in Nat
      /\ Len(callbacks.list) \in Nat /\ Calls = 1 .. Len(callbacks.list)
  BY <1>2, Types
<1>7. /\ version <= latest
      /\ skip # 0 => version < skip
      /\ worker.pc # "asleep" => version <= Goal
      /\ worker.skip # 0 => version < worker.skip
  BY DEF WorkingInv, Ordered, Failed
<1>8. Ordered' /\ Registered'
  BY <1>1, <1>3, <1>5, <1>7 DEF WorkingInv, Ordered, Failed, Registered
<1>9. LoopInside'
  <2>1. callbacks.index = -1
    BY DEF WorkingInv, LoopInside, LoopBounds, npos
  <2>2. /\ callbacks'.index + 1 <= Len(callbacks'.list)
        /\ callbacks'.index < callbacks'.count
        /\ callbacks'.count <= Len(callbacks'.list)
        /\ target' <= version'
    BY <1>1, <1>3, <1>6, <2>1
  <2> QED BY <1>1, <1>3, <1>5, <2>2 DEF WorkingInv, LoopInside, LoopBounds
<1>10. Held'
  BY <1>1, <1>3, <1>4 DEF WorkingInv, Held
<1>11. RowsCurrent'
  BY <1>3, <1>5 DEF WorkingInv, RowsCurrent
<1>12. WriteCaughtUp'
  BY <1>3, <1>4 DEF WriteCaughtUp
<1>13. AheadIsTold'
  <2>1. /\ skip # 0 => version <= skip
        /\ worker.skip # 0 => version <= worker.skip
        /\ worker.pc # "asleep" => ~(Goal < version)
    BY <1>6, <1>7
  <2> QED BY <1>3, <1>4, <1>5, <2>1 DEF AheadIsTold
<1>14. SkipsTheNext'
  BY <1>3, <1>4, <1>5 DEF WorkingInv, SkipsTheNext
<1>15. ASSUME Orderly, NEW i \in Calls
       PROVE  worker.changes \ Cb(i).mute = (version + 1 .. rows) \ Cb(i).mute
  <2>1. Calm /\ callbacks.have
    BY <1>15, OrderlyIsCalm DEF WorkingInv, LoopInside, LoopBounds, Calls
  <2>2. worker.pc # "handover" => worker.changes = {}
    BY DEF WorkingInv, Ordered, Failed
  <2>3. version + 1 .. version = {}
    BY <1>6
  <2> QED BY <2>1, <2>2, <2>3 DEF WorkingInv, RowsCurrent
<1>16. PackagedToCall'
  <2>1. \A i \in Calls : ToCall(i)'
    <3>1. callbacks.index + 2 = 1
      BY DEF WorkingInv, LoopInside, LoopBounds, npos
    <3> QED BY <1>3, <1>5, <1>6, <3>1 DEF ToCall
  <2> QED BY <1>1, <1>3, <1>4, <1>5, <1>15, <2>1 DEF PackagedToCall
<1>17. NothingLost'
  <2> SUFFICES ASSUME Orderly, NEW i \in Calls, Cb(i).initial_delivered
               PROVE  /\ Cb(i)'.accumulated \cup Cb(i)'.to_deliver
                           \cup (worker.changes \ Cb(i)'.mute)
                           = (Cb(i)'.told + 1 .. rows) \ Cb(i)'.mute
                      /\ Cb(i)'.accumulated \cap Cb(i)'.to_deliver = {}
    BY <1>3, <1>4, <1>5 DEF NothingLost, Found, Orderly, Calls, Cb
  <2>1. Cb(i).to_deliver = {}
    BY <1>5 DEF WorkingInv, PackagedToCall, ToCall
  <2>2. Cb(i).accumulated \cup Cb(i).to_deliver \cup (worker.changes \ Cb(i).mute)
          = (Cb(i).told + 1 .. rows) \ Cb(i).mute
    BY DEF WorkingInv, NothingLost, Found, Orderly, Calls, Cb
  <2> QED BY <1>4, <2>1, <2>2
<1> QED
  BY <1>8, <1>9, <1>10, <1>11, <1>12, <1>13, <1>14, <1>16, <1>17 DEF WorkingInv

(* The Realm moves on to the last version, and none of the callbacks, if   *)
(* there are any, has ever been called.                                    *)
LEMMA MovesOnIInv ==
  ASSUME WorkingInv, at \in {"idle", "waiting"}, at' = "idle", TypeOK', read' = latest,
         \/ callbacks.list = << >>
         \/ ~has_run /\ stage = "reading" /\ UNCHANGED callbacks,
         UNCHANGED callbacks \/ callbacks' = package_for_delivery(callbacks),
         UNCHANGED <<latest, stage, target, place, version, has_run, next_token, skip,
                     worker, rows, strayed>>
  PROVE  WorkingInv'
<1>1. TypeOK
  BY DEF WorkingInv
<1>2. /\ Calls' = Calls
      /\ callbacks'.list = << >> <=> callbacks.list = << >>
      /\ Len(callbacks'.list) = Len(callbacks.list)
      /\ callbacks'.index = callbacks.index
      /\ callbacks'.have <=> callbacks.have
  BY <1>1, PackagedFacts DEF Calls
<1>3. /\ ~delivering /\ ~delivering' /\ Goal' = Goal
      /\ (Calm' <=> Calm) /\ (Orderly' <=> Orderly)
      /\ (NoneOf(Miscounted)' <=> NoneOf(Miscounted))
  BY DEF delivering, Goal, Calm, Orderly, NoneOf
<1>4. \/ Calls = {}
      \/ ~has_run /\ stage = "reading" /\ \A i \in Calls : Cb(i)' = Cb(i)
  <2>1. ASSUME callbacks.list = << >> PROVE Calls = {}
    <3>1. Calls = DOMAIN << >>
      BY <2>1, Zenon DEF Calls
    <3>2. DOMAIN << >> = {}
      OBVIOUS
    <3> QED BY <3>1, <3>2, Zenon
  <2>2. CASE callbacks.list = << >>
    BY <2>1, <2>2, Zenon
  <2>3. CASE ~has_run /\ stage = "reading" /\ UNCHANGED callbacks
    BY <2>3 DEF Cb
  <2> QED BY <2>2, <2>3
<1>5. \A i \in Calls : ~Cb(i).initial_delivered
  BY <1>4 DEF WorkingInv, Held
<1>6. Ordered'
  <2>1. latest \in Nat
    BY <1>1, Types
  <2>2. read' <= latest'
    BY <2>1
  <2> QED BY <1>3, <2>2 DEF WorkingInv, Ordered, Failed
<1>7. Registered' /\ LoopInside' /\ RowsCurrent'
  BY <1>2, <1>3 DEF WorkingInv, Registered, LoopInside, LoopBounds, RowsCurrent
<1>8. Held' /\ SkipsTheNext'
  BY <1>2, <1>3, <1>4 DEF WorkingInv, Held, SkipsTheNext
<1>9. WriteCaughtUp'
  <2>1. callbacks.list = << >> => ~callbacks'.have
    BY <1>2 DEF WorkingInv, LoopInside, LoopBounds
  <2> QED BY <1>3, <2>1 DEF WriteCaughtUp
<1>10. AheadIsTold'
  <2>1. \A i \in Calls' : ~Heard(i)'
    BY <1>2, <1>3, <1>4, <1>5 DEF Heard
  <2> QED BY <1>3, <2>1 DEF AheadIsTold
<1>11. PackagedToCall'
  <2>1. \A i \in Calls' : ~Cb(i)'.initial_delivered /\ ~ToCall(i)'
    BY <1>2, <1>3, <1>4, <1>5 DEF ToCall
  <2> QED BY <2>1 DEF PackagedToCall
<1>12. NothingLost'
  <2>1. \A i \in Calls' : ~Cb(i)'.initial_delivered
    BY <1>2, <1>4, <1>5
  <2> QED BY <2>1 DEF NothingLost, Calls, Cb
<1> QED BY <1>6, <1>7, <1>8, <1>9, <1>10, <1>11, <1>12 DEF WorkingInv

(* What has been packaged is discarded when the Realm is ahead: there is   *)
(* nothing for a callback that has been called before.                     *)
LEMMA DiscardIInv ==
  ASSUME WorkingInv, at = "idle", stage = "reading", version < read, TypeOK',
         callbacks' = package_for_delivery(callbacks),
         UNCHANGED <<latest, read, stage, at, target, place, version, has_run, next_token,
                     skip, worker, rows, strayed>>
  PROVE  WorkingInv'
<1>1. TypeOK
  BY DEF WorkingInv
<1>2. /\ Calls' = Calls
      /\ callbacks'.list = << >> <=> callbacks.list = << >>
      /\ Len(callbacks'.list) = Len(callbacks.list)
      /\ callbacks'.index = callbacks.index
      /\ callbacks'.have <=> callbacks.have
  BY <1>1, PackagedFacts
<1>3. \A i \in Calls :
        /\ Cb(i)'.to_deliver = Cb(i).accumulated /\ Cb(i)'.accumulated = {}
        /\ Cb(i)'.initial_delivered <=> Cb(i).initial_delivered
        /\ Cb(i)'.told = Cb(i).told /\ Cb(i)'.mute = Cb(i).mute
        /\ (Cb(i)'.quiet <=> Cb(i).quiet) /\ (Cb(i)'.skip_next <=> Cb(i).skip_next)
  BY <1>1, PackagedFacts
<1>4. /\ ~delivering /\ ~delivering' /\ Goal' = Goal
      /\ (Calm' <=> Calm) /\ (Orderly' <=> Orderly)
      /\ (NoneOf(Miscounted)' <=> NoneOf(Miscounted))
  BY DEF delivering, Goal, Calm, Orderly, NoneOf
<1>5. \A i \in Calls : Calm /\ Cb(i).initial_delivered => Cb(i).accumulated = {}
  BY DEF WorkingInv, AheadIsTold, Heard
<1>6. Ordered' /\ Registered' /\ LoopInside' /\ RowsCurrent'
  BY <1>2, <1>4 DEF WorkingInv, Ordered, Failed, Registered, LoopInside, LoopBounds, RowsCurrent
<1>7. Held' /\ WriteCaughtUp'
  BY <1>2, <1>3, <1>4 DEF WorkingInv, Held, WriteCaughtUp
<1>8. AheadIsTold'
  <2>1. \A i \in Calls : Heard(i)' <=> Heard(i)
    BY <1>3, <1>4 DEF Heard
  <2> QED BY <1>2, <1>3, <1>4, <2>1 DEF WorkingInv, AheadIsTold
<1>9. SkipsTheNext'
  BY <1>2, <1>3, <1>4 DEF WorkingInv, SkipsTheNext
<1>10. PackagedToCall'
  <2>1. \A i \in Calls : ~ToCall(i)'
    BY <1>4 DEF ToCall
  <2> QED BY <1>2, <1>3, <1>4, <1>5, <2>1, OrderlyIsCalm DEF PackagedToCall
<1>11. NothingLost'
  <2> SUFFICES ASSUME Orderly, NEW i \in Calls, Cb(i).initial_delivered
               PROVE  /\ Cb(i)'.accumulated \cup Cb(i)'.to_deliver
                           \cup (worker.changes \ Cb(i)'.mute)
                           = (Cb(i)'.told + 1 .. rows) \ Cb(i)'.mute
                      /\ Cb(i)'.accumulated \cap Cb(i)'.to_deliver = {}
    BY <1>2, <1>3, <1>4 DEF NothingLost, Found, Orderly, Calls, Cb
  <2>1. Cb(i).to_deliver = {}
    BY <1>4 DEF WorkingInv, PackagedToCall, ToCall
  <2>2. Cb(i).accumulated \cup Cb(i).to_deliver \cup (worker.changes \ Cb(i).mute)
          = (Cb(i).told + 1 .. rows) \ Cb(i).mute
    BY DEF WorkingInv, NothingLost, Found, Orderly, Calls, Cb
  <2> QED BY <1>3, <2>1, <2>2
<1> QED BY <1>6, <1>7, <1>8, <1>9, <1>10, <1>11 DEF WorkingInv

(* The rest of begin_transaction and refresh, when the wait is over. *)
LEMMA WaitedIInv == WorkingInv /\ Waited => WorkingInv'
<1> SUFFICES ASSUME WorkingInv, Waited PROVE WorkingInv'
  OBVIOUS
<1>1. /\ at = "waiting" /\ (callbacks.have => has_run /\ version >= target)
      /\ UNCHANGED <<latest, others, woken, signaled, stage, place, version, has_run,
                     next_token, skip, worker, rows, strayed>>
  BY DEF Waited, Ready, file
<1>2. /\ TypeOK /\ version \in {0} \cup Versions /\ callbacks.index \in npos .. MaxToken
      /\ latest \in Versions /\ version \in Nat /\ latest \in Nat /\ target \in Nat
      /\ callbacks \in CallbacksOf(AllTokens, Versions)
  BY Types DEF WorkingInv, TypeOK
<1>3. /\ callbacks' = package_for_delivery(callbacks)
           => /\ callbacks' \in CallbacksOf(AllTokens, Versions)
              /\ callbacks'.index = callbacks.index
  BY <1>2, PackagedFacts
<1>4. CASE has_run /\ version >= target
  <2>1. /\ callbacks' = package_for_delivery(callbacks) /\ target' = version
        /\ at' = "after"
        /\ read' = IF stage = "writing" THEN latest ELSE version
    BY <1>4 DEF Waited
  <2>2. stage = "writing" => version = latest
    <3>1. stage = "writing" => target = latest
      BY <1>1 DEF WorkingInv, Registered
    <3>2. version <= latest
      BY DEF WorkingInv, Ordered, Failed
    <3> QED BY <1>2, <1>4, <3>1, <3>2
  <2>3. read' = version
    BY <2>1, <2>2
  <2>4. version \in Versions
    <3>1. target # 0
      BY <1>1 DEF WorkingInv, Registered
    <3>2. version # 0
      BY <1>2, <1>4, <3>1
    <3> QED BY <1>2, <3>2
  <2>5. TypeOK'
    BY <1>1, <1>2, <1>3, <2>1, <2>3, <2>4 DEF TypeOK
  <2> QED BY <1>1, <1>4, <2>1, <2>2, <2>3, <2>5, DeliverIInv DEF Deliver
<1>5. CASE ~(has_run /\ version >= target)
  <2>1. callbacks.list = << >>
    BY <1>1, <1>5 DEF WorkingInv, LoopInside, LoopBounds
  <2>2. /\ at' = "idle" /\ read' = latest /\ UNCHANGED target
        /\ UNCHANGED callbacks \/ callbacks' = package_for_delivery(callbacks)
    BY <1>5 DEF Waited
  <2>3. TypeOK'
    BY <1>1, <1>2, <1>3, <2>2 DEF TypeOK
  <2> QED BY <1>1, <2>1, <2>2, <2>3, MovesOnIInv
<1> QED BY <1>4, <1>5

(* Realm::notify finds the notifier at its own version, or has yet to go   *)
(* to one.                                                                 *)
LEMMA notifyIInv ==
  ASSUME WorkingInv, process_available_async \/ advance_to_ready
  PROVE  WorkingInv'
<1>1. /\ at = "idle" /\ stage = "reading" /\ signaled' = FALSE
      /\ UNCHANGED <<latest, others, woken, stage, place, version, has_run, next_token,
                     skip, worker, rows, strayed>>
  BY DEF process_available_async, advance_to_ready, Take, Idle, file
<1>2. /\ TypeOK /\ version \in {0} \cup Versions /\ callbacks.index \in npos .. MaxToken
      /\ latest \in Versions /\ read \in Versions /\ version \in Nat /\ read \in Nat
      /\ callbacks \in CallbacksOf(AllTokens, Versions) /\ read # 0
  <2>1. \A v \in Versions : v # 0
    BY BoundsAssumption DEF Versions
  <2> QED BY <2>1, Types DEF WorkingInv, TypeOK
<1>3. /\ callbacks' = package_for_delivery(callbacks)
           => /\ callbacks' \in CallbacksOf(AllTokens, Versions)
              /\ callbacks'.index = callbacks.index
  BY <1>2, PackagedFacts
<1>4. CASE has_run /\ version >= read /\ read' = version /\ Deliver
  <2>1. version \in Versions
    BY <1>2, <1>4
  <2>2. TypeOK'
    BY <1>1, <1>2, <1>3, <1>4, <2>1 DEF TypeOK, Deliver
  <2> QED BY <1>1, <1>4, <2>2, DeliverIInv
<1>5. CASE UNCHANGED <<read, at, target, callbacks>>
  <2>1. TypeOK'
    BY <1>1, <1>2, <1>5 DEF TypeOK
  <2> QED BY <1>1, <1>5, <2>1, QuietIInv DEF notifier
<1>6. CASE ~has_run /\ read' = latest /\ UNCHANGED <<at, target, callbacks>>
  <2>1. TypeOK'
    BY <1>1, <1>2, <1>6 DEF TypeOK
  <2> QED BY <1>1, <1>6, <2>1, MovesOnIInv
<1>7. CASE /\ has_run /\ version < read
           /\ callbacks' = package_for_delivery(callbacks)
           /\ UNCHANGED <<read, at, target>>
  <2>1. TypeOK'
    BY <1>1, <1>2, <1>3, <1>7 DEF TypeOK
  <2> QED BY <1>1, <1>7, <2>1, DiscardIInv
<1>8. CASE process_available_async
  <2>1. UNCHANGED read /\ IF has_run /\ version = read THEN Deliver
                                                      ELSE UNCHANGED <<at, target, callbacks>>
    BY <1>8 DEF process_available_async
  <2>2. version = read => version >= read
    BY <1>2
  <2> QED BY <1>4, <1>5, <2>1, <2>2
<1>9. CASE advance_to_ready
  BY <1>4, <1>6, <1>7, <1>9 DEF advance_to_ready
<1> QED BY <1>8, <1>9

(* The loop that calls the callbacks. *)
LEMMA callNextIInv == WorkingInv /\ callNext => WorkingInv'
<1> SUFFICES ASSUME WorkingInv, callNext PROVE WorkingInv'
  OBVIOUS
<1>1. /\ at = "after" /\ delivering /\ has_run /\ target <= version
      /\ UNCHANGED <<latest, others, woken, signaled, read, stage, target, place, version,
                     has_run, next_token, skip, worker, rows, strayed>>
  BY DEF callNext, file, delivering, WorkingInv, LoopInside, LoopBounds
<1>2. PICK k \in Nat : k = Len(callbacks.list) /\ Calls = 1 .. k
  BY Types DEF WorkingInv
<1>3. /\ callbacks.index \in Int /\ callbacks.count \in Int
      /\ callbacks.index \in npos .. MaxToken /\ callbacks.index + 1 <= k
      /\ k <= next_token /\ next_token \in 0 .. MaxToken /\ next_token \in Nat
      /\ callbacks \in CallbacksOf(AllTokens, Versions)
      /\ target \in {0} \cup Versions /\ target \in Nat
  <2>1. next_token \in 0 .. MaxToken
    BY DEF WorkingInv, TypeOK
  <2>2. next_token \in Nat
    BY <2>1, BoundsAssumption
  <2> QED BY <1>2, <2>1, <2>2, Types DEF WorkingInv, TypeOK, LoopInside, LoopBounds
<1>4. /\ -1 <= callbacks.index
      /\ callbacks.count < 0 \/ callbacks.index + 1 < callbacks.count
      /\ NoneOf(Miscounted) => callbacks.index < callbacks.count /\ callbacks.count <= k
  BY <1>1, <1>2, <1>3 DEF callNext, Another, WorkingInv, LoopInside, LoopBounds, npos
<1>5. NoneOf(Miscounted) =>
        callbacks.index + 1 < callbacks.count /\ callbacks.index + 2 <= k
  BY <1>3, <1>4
<1>6. /\ Goal' = Goal /\ (Calm' <=> Calm) /\ (Orderly' <=> Orderly)
      /\ (NoneOf(Miscounted)' <=> NoneOf(Miscounted))
      /\ (Orderly => NoneOf(Miscounted))
  BY <1>1 DEF Goal, Calm, Orderly, NoneOf
<1>7. CASE ~InRange(callbacks)
  <2>1. at' = "undefined" /\ UNCHANGED callbacks
    BY <1>7 DEF callNext
  <2>2. ~NoneOf(Miscounted) /\ ~Orderly
    BY <1>2, <1>5, <1>6, <1>7 DEF InRange
  <2>3. ~delivering' /\ Calls' = Calls /\ \A i \in Calls : Cb(i)' = Cb(i)
    BY <2>1 DEF delivering, Calls, Cb
  <2>4. TypeOK'
    BY <1>1, <2>1 DEF WorkingInv, TypeOK
  <2>5. Ordered' /\ Registered' /\ RowsCurrent' /\ LoopInside'
    BY <1>1, <1>6, <2>1, <2>2, <2>3
    DEF WorkingInv, Ordered, Failed, Registered, RowsCurrent, LoopInside, LoopBounds
  <2>6. Held' /\ SkipsTheNext'
    BY <1>1, <1>6, <2>1, <2>3 DEF WorkingInv, Held, SkipsTheNext
  <2>7. WriteCaughtUp' /\ AheadIsTold'
    BY <1>1, <1>6, <2>1, <2>3 DEF WorkingInv, WriteCaughtUp, AheadIsTold, Heard
  <2>8. PackagedToCall'
    BY <1>6, <2>2 DEF PackagedToCall
  <2>9. NothingLost'
    BY <1>6, <2>2 DEF NothingLost, Orderly
  <2> QED BY <2>4, <2>5, <2>6, <2>7, <2>8, <2>9 DEF WorkingInv
<1>8. CASE InRange(callbacks) /\ NothingFor(NextOf(callbacks))
  <2>1. at' = "after" /\ callbacks' = [callbacks EXCEPT !.index = @ + 1]
    BY <1>1, <1>8 DEF callNext, Passed
  <2>2. /\ callbacks'.list = callbacks.list /\ callbacks'.index = callbacks.index + 1
        /\ callbacks'.count = callbacks.count /\ (callbacks'.have <=> callbacks.have)
        /\ callbacks' \in CallbacksOf(AllTokens, Versions)
    BY <1>3, <2>1 DEF CallbacksOf
  <2>3. delivering' /\ Calls' = Calls /\ \A i \in Calls : Cb(i)' = Cb(i)
    BY <2>1, <2>2 DEF delivering, Calls, Cb
  <2>4. callbacks.index + 2 <= k
    BY <1>2, <1>8 DEF InRange
  <2>5. callbacks'.index \in npos .. MaxToken /\ callbacks'.index + 1 <= k
    BY <1>3, <1>4, <2>2, <2>4, BoundsAssumption DEF npos
  <2>6. TypeOK'
    BY <1>1, <2>1, <2>2, <2>5 DEF WorkingInv, TypeOK
  <2>7. Ordered' /\ Registered' /\ RowsCurrent'
    BY <1>1, <1>6, <2>1, <2>2, <2>3 DEF WorkingInv, Ordered, Failed, Registered, RowsCurrent
  <2>8. LoopInside'
    BY <1>1, <1>2, <1>4, <1>5, <1>6, <2>1, <2>2, <2>5 DEF WorkingInv, LoopInside, LoopBounds
  <2>9. Held' /\ SkipsTheNext'
    BY <1>1, <1>6, <2>1, <2>3 DEF WorkingInv, Held, SkipsTheNext
  <2>10. WriteCaughtUp' /\ AheadIsTold'
    BY <1>1, <1>6, <2>1, <2>2, <2>3 DEF WorkingInv, WriteCaughtUp, AheadIsTold, Heard
  <2>11. PackagedToCall'
    <3> SUFFICES ASSUME Orderly, NEW i \in Calls
                 PROVE  /\ Cb(i).initial_delivered /\ Cb(i).to_deliver # {} => ToCall(i)'
                        /\ ToCall(i)' =>
                             Cb(i).accumulated \cup (worker.changes \ Cb(i).mute)
                               = (target + 1 .. rows) \ Cb(i).mute
      BY <1>1, <1>6, <2>3 DEF PackagedToCall
    <3>1. i = callbacks.index + 2 => Cb(i).to_deliver = {}
      BY <1>8 DEF NothingFor, NextOf, Cb
    <3>2. ToCall(i)' <=> ToCall(i) /\ i # callbacks.index + 2
      BY <1>1, <1>2, <1>3, <2>2, <2>3 DEF ToCall
    <3> QED BY <3>1, <3>2 DEF WorkingInv, PackagedToCall
  <2>12. NothingLost'
    BY <1>1, <1>6, <2>2 DEF WorkingInv, NothingLost, Found, Orderly
  <2> QED BY <2>6, <2>7, <2>8, <2>9, <2>10, <2>11, <2>12 DEF WorkingInv
<1>9. CASE InRange(callbacks) /\ ~NothingFor(NextOf(callbacks))
  <2>1. at' = "inCallback" /\ callbacks' = Called(callbacks, target)
    BY <1>9 DEF callNext
  <2>2. /\ callbacks' \in CallbacksOf(AllTokens, Versions)
        /\ Len(callbacks'.list) = Len(callbacks.list)
        /\ callbacks'.index = callbacks.index + 1
        /\ callbacks'.count = callbacks.count /\ (callbacks'.have <=> callbacks.have)
        /\ callbacks.index + 2 \in Calls
    BY <1>2, <1>3, <1>4, <1>9, <2>1, CalledNext DEF npos
  <2>3. \A i \in Calls :
          /\ Cb(i)'.accumulated = Cb(i).accumulated /\ Cb(i)'.mute = Cb(i).mute
          /\ (Cb(i)'.quiet <=> Cb(i).quiet) /\ (Cb(i)'.skip_next <=> Cb(i).skip_next)
          /\ i # callbacks.index + 2 =>
               /\ Cb(i)'.initial_delivered <=> Cb(i).initial_delivered
               /\ Cb(i)'.to_deliver = Cb(i).to_deliver /\ Cb(i)'.told = Cb(i).told
          /\ i = callbacks.index + 2 =>
               /\ Cb(i)'.initial_delivered
               /\ Cb(i)'.to_deliver = {} /\ Cb(i)'.told = target
    <3> DEFINE m == Called(callbacks, target)
    <3>1. /\ callbacks \in CallbacksOf(AllTokens, Versions) /\ target \in {0} \cup Versions
          /\ InRange(callbacks) /\ callbacks.index >= npos
      BY <1>3, <1>4, <1>9 DEF npos
    <3>2. \A i \in 1 .. Len(callbacks.list) :
            /\ m.list[i].accumulated = callbacks.list[i].accumulated
            /\ m.list[i].mute = callbacks.list[i].mute
            /\ m.list[i].quiet <=> callbacks.list[i].quiet
            /\ m.list[i].skip_next <=> callbacks.list[i].skip_next
      BY <3>1, CalledNext
    <3>3. ASSUME NEW i \in 1 .. Len(callbacks.list), i # callbacks.index + 2
          PROVE  /\ m.list[i].initial_delivered <=> callbacks.list[i].initial_delivered
                 /\ m.list[i].to_deliver = callbacks.list[i].to_deliver
                 /\ m.list[i].told = callbacks.list[i].told
      <4>1. m.list[i].initial_delivered <=> callbacks.list[i].initial_delivered
        BY <3>1, <3>3, CalledNext
      <4>2. m.list[i].to_deliver = callbacks.list[i].to_deliver
        BY <3>1, <3>3, CalledNext
      <4>3. m.list[i].told = callbacks.list[i].told
        BY <3>1, <3>3, CalledNext
      <4> QED BY <4>1, <4>2, <4>3
    <3>4. \A i \in 1 .. Len(callbacks.list) : i = callbacks.index + 2 =>
            /\ m.list[i].initial_delivered
            /\ m.list[i].to_deliver = {} /\ m.list[i].told = target
      BY <3>1, CalledNext
    <3> HIDE DEF m
    <3>5. callbacks' = m
      BY <2>1 DEF m
    <3> QED BY <1>2, <3>2, <3>3, <3>4, <3>5 DEF Cb
  <2>4. Calls' = Calls /\ (callbacks'.list = << >> <=> callbacks.list = << >>)
    <3>1. TypeOK
      BY DEF WorkingInv
    <3> QED BY <2>2, <3>1, SameCalls
  <2>5. delivering'
    BY <2>1 DEF delivering
  <2>6. callbacks.index + 2 <= k
    BY <1>2, <1>9 DEF InRange
  <2>7. callbacks'.index \in npos .. MaxToken /\ callbacks'.index + 1 <= k
    BY <1>3, <1>4, <2>2, <2>6, BoundsAssumption DEF npos
  <2>8. TypeOK'
    BY <1>1, <2>1, <2>2, <2>7 DEF WorkingInv, TypeOK
  <2>9. Ordered' /\ Registered' /\ RowsCurrent'
    BY <1>1, <1>6, <2>1, <2>2, <2>4 DEF WorkingInv, Ordered, Failed, Registered, RowsCurrent
  <2>10. LoopInside'
    BY <1>1, <1>2, <1>4, <1>5, <1>6, <2>1, <2>2, <2>4, <2>7 DEF WorkingInv, LoopInside, LoopBounds
  <2>11. Held'
    <3> SUFFICES ASSUME NEW i \in Calls
                 PROVE  (/\ Cb(i).accumulated \cup Cb(i).to_deliver \subseteq 1 .. version
                         /\ Cb(i).mute \subseteq 1 .. latest
                         /\ Cb(i).initial_delivered => has_run /\ Cb(i).told <= version
                         /\ Cb(i).quiet => stage = "writing" /\ at # "waiting"
                         /\ ~has_run => Cb(i).accumulated = {})'
      BY <2>4 DEF Held
    <3>1. /\ Cb(i).accumulated \cup Cb(i).to_deliver \subseteq 1 .. version
          /\ Cb(i).mute \subseteq 1 .. latest
          /\ Cb(i).initial_delivered => has_run /\ Cb(i).told <= version
          /\ Cb(i).quiet => stage = "writing" /\ at # "waiting"
          /\ ~has_run => Cb(i).accumulated = {}
      BY DEF WorkingInv, Held
    <3>2. CASE i = callbacks.index + 2
      BY <1>1, <2>1, <2>3, <3>1, <3>2
    <3>3. CASE i # callbacks.index + 2
      BY <1>1, <2>1, <2>3, <3>1, <3>3
    <3> QED BY <3>2, <3>3
  <2>12. SkipsTheNext'
    BY <1>1, <1>6, <2>3, <2>4 DEF WorkingInv, SkipsTheNext
  <2>13. WriteCaughtUp'
    BY <1>1, <1>6, <2>2, <2>3, <2>4 DEF WorkingInv, WriteCaughtUp
  <2>14. AheadIsTold'
    BY <1>1, <1>6, <2>3, <2>4, <2>5 DEF WorkingInv, AheadIsTold, Heard
  <2>15. PackagedToCall'
    <3> SUFFICES ASSUME Orderly, NEW i \in Calls
                 PROVE  /\ Cb(i)'.initial_delivered /\ Cb(i)'.to_deliver # {} => ToCall(i)'
                        /\ ToCall(i)' =>
                             Cb(i).accumulated \cup (worker.changes \ Cb(i).mute)
                               = (target + 1 .. rows) \ Cb(i).mute
      BY <1>1, <1>6, <2>3, <2>4 DEF PackagedToCall
    <3>1. ToCall(i)' <=> ToCall(i) /\ i # callbacks.index + 2
      BY <1>1, <1>2, <1>3, <2>2, <2>5 DEF ToCall
    <3> QED BY <2>3, <3>1 DEF WorkingInv, PackagedToCall
  <2>16. NothingLost'
    <3> SUFFICES ASSUME Orderly, NEW i \in Calls, Cb(i)'.initial_delivered
                 PROVE  /\ Cb(i).accumulated \cup Cb(i)'.to_deliver
                             \cup (worker.changes \ Cb(i).mute)
                             = (Cb(i)'.told + 1 .. rows) \ Cb(i).mute
                        /\ Cb(i).accumulated \cap Cb(i)'.to_deliver = {}
      BY <1>1, <1>6, <2>3, <2>4 DEF NothingLost, Found, Orderly, Calls, Cb
    <3>1. CASE i = callbacks.index + 2
      <4>1. ToCall(i)
        BY <1>1, <1>3, <1>5, <1>6, <3>1 DEF ToCall
      <4> QED BY <2>3, <3>1, <4>1 DEF WorkingInv, PackagedToCall
    <3>2. CASE i # callbacks.index + 2
      BY <2>3, <3>2 DEF WorkingInv, NothingLost, Found, Orderly, Calls, Cb
    <3> QED BY <3>1, <3>2
  <2> QED
    BY <2>8, <2>9, <2>10, <2>11, <2>12, <2>13, <2>14, <2>15, <2>16 DEF WorkingInv
<1> QED BY <1>7, <1>8, <1>9

(* The loop is over: nothing is packaged any more.                         *)
LEMMA finishIInv == WorkingInv /\ finish => WorkingInv'
<1> SUFFICES ASSUME WorkingInv, finish PROVE WorkingInv'
  OBVIOUS
<1>1. /\ at = "after" /\ delivering /\ at' = "idle" /\ ~delivering'
      /\ callbacks' = [callbacks EXCEPT !.index = npos]
      /\ UNCHANGED <<latest, others, woken, signaled, read, stage, target, place, version,
                     has_run, next_token, skip, worker, rows, strayed>>
  BY DEF finish, file, delivering, Finished
<1>2. /\ callbacks.index \in Int /\ callbacks.count \in Int
      /\ callbacks \in CallbacksOf(AllTokens, Versions)
      /\ Len(callbacks.list) \in Nat
      /\ ~(callbacks.index + 1 < callbacks.count)
      /\ npos \in Int
  BY Types DEF WorkingInv, finish, Another, npos
<1>3. /\ callbacks'.list = callbacks.list /\ callbacks'.index = npos
      /\ callbacks'.count = callbacks.count /\ (callbacks'.have <=> callbacks.have)
      /\ callbacks' \in CallbacksOf(AllTokens, Versions)
  BY <1>1, <1>2 DEF CallbacksOf
<1>4. Calls' = Calls /\ \A i \in Calls : Cb(i)' = Cb(i)
  BY <1>3 DEF Calls, Cb
<1>5. /\ Goal' = Goal /\ (Calm' <=> Calm) /\ (Orderly' <=> Orderly)
      /\ (NoneOf(Miscounted)' <=> NoneOf(Miscounted))
  BY <1>1 DEF Goal, Calm, Orderly, NoneOf
<1>6. callbacks'.index \in npos .. MaxToken /\ callbacks'.index + 1 <= Len(callbacks'.list)
  BY <1>2, <1>3, BoundsAssumption DEF npos
<1>7. TypeOK'
  BY <1>1, <1>3, <1>6 DEF WorkingInv, TypeOK
<1>8. Ordered' /\ Registered' /\ RowsCurrent'
  BY <1>1, <1>3, <1>5 DEF WorkingInv, Ordered, Failed, Registered, RowsCurrent
<1>9. LoopInside'
  BY <1>1, <1>3, <1>5, <1>6 DEF WorkingInv, LoopInside, LoopBounds
<1>10. Held' /\ SkipsTheNext'
  BY <1>1, <1>4, <1>5 DEF WorkingInv, Held, SkipsTheNext
<1>11. WriteCaughtUp' /\ AheadIsTold'
  BY <1>1, <1>3, <1>4, <1>5 DEF WorkingInv, WriteCaughtUp, AheadIsTold, Heard
<1>12. PackagedToCall'
  <2>1. \A i \in Calls : ~ToCall(i) /\ ~ToCall(i)'
    <3>1. callbacks.index + 2 .. callbacks.count = {}
      BY <1>2
    <3> QED BY <1>1, <3>1 DEF ToCall
  <2> QED BY <1>4, <1>5, <2>1 DEF WorkingInv, PackagedToCall
<1>13. NothingLost'
  BY <1>1, <1>3, <1>5 DEF WorkingInv, NothingLost, Found, Orderly
<1> QED BY <1>7, <1>8, <1>9, <1>10, <1>11, <1>12, <1>13 DEF WorkingInv

-----------------------------------------------------------------------------
(* The worker hands over what it has found out. *)

(* What has been found is accumulated, or skipped by those that are to.    *)
LEMMA prepare_handoverIInv == WorkingInv /\ prepare_handover => WorkingInv'
<1> SUFFICES ASSUME WorkingInv, prepare_handover PROVE WorkingInv'
  OBVIOUS
<1>1. /\ worker.pc = "handover" /\ version' = Goal /\ has_run' = TRUE
      /\ callbacks' = add_changes(callbacks, worker.changes)
      /\ UNCHANGED <<latest, others, woken, read, stage, at, target, place, next_token,
                     skip, rows>>
  BY DEF prepare_handover, file, realm
<1>2. /\ \/ signaled' = signaled /\ worker.skip # 0
            /\ worker' = [worker EXCEPT !.pc = "info", !.skip = 0,
                                             !.informed = FALSE, !.changes = {}]
         \/ signaled' = TRUE /\ worker.skip = 0 /\ worker' = Asleep
  BY DEF prepare_handover
<1>3. /\ strayed \subseteq strayed' /\ strayed' \subseteq Strays
      /\ SkippedTooEarly => "skipped too early" \in strayed'
  BY DEF prepare_handover, WorkingInv, TypeOK, Strays
<1>4. /\ TypeOK /\ callbacks \in CallbacksOf(AllTokens, Versions)
      /\ worker.changes \in SUBSET Versions /\ Goal \in {0} \cup Versions
      /\ worker \in WorkerStates
  BY Types DEF WorkingInv, TypeOK, Goal, WorkerStates
<1>5. /\ worker'.skip = 0 /\ worker'.changes = {} /\ worker'.pc \in {"info", "asleep"}
      /\ worker'.pc = "info" => worker.skip # 0 /\ worker'.to = worker.to
      /\ worker' \in WorkerStates
  <2>1. CASE worker.skip # 0 /\ worker' = [worker EXCEPT !.pc = "info", !.skip = 0,
                                                          !.informed = FALSE, !.changes = {}]
    BY <1>4, <2>1 DEF WorkerStates
  <2>2. CASE worker' = Asleep
    BY <2>2 DEF Asleep, WorkerStates
  <2> QED BY <1>2, <2>1, <2>2
<1>6. /\ version \in Nat /\ Goal \in Nat /\ skip \in Nat /\ worker.skip \in Nat
      /\ worker.to \in Nat /\ latest \in Nat /\ target \in Nat /\ rows \in Nat
      /\ read \in Nat /\ Len(callbacks.list) \in Nat /\ Calls = 1 .. Len(callbacks.list)
  BY <1>4, Types
<1>7. /\ version <= Goal /\ Goal <= worker.to /\ worker.to <= latest
      /\ skip # 0 => worker.to < skip /\ skip <= latest
      /\ worker.skip # 0 => version < worker.skip /\ Goal = worker.skip
      /\ worker.changes \subseteq 1 .. Goal
  BY <1>1, <1>6 DEF WorkingInv, Ordered, Failed, Goal
<1>8. /\ callbacks' \in CallbacksOf(AllTokens, Versions)
      /\ Len(callbacks'.list) = Len(callbacks.list)
      /\ callbacks'.index = callbacks.index /\ callbacks'.count = callbacks.count
      /\ callbacks'.have <=> callbacks.have
  BY <1>1, <1>4, ChangesAdded
<1>9. \A i \in Calls :
        /\ Cb(i)'.to_deliver = Cb(i).to_deliver
        /\ Cb(i)'.initial_delivered <=> Cb(i).initial_delivered
        /\ Cb(i)'.told = Cb(i).told /\ Cb(i)'.mute = Cb(i).mute
        /\ (Cb(i)'.quiet <=> Cb(i).quiet) /\ ~Cb(i)'.skip_next
        /\ Cb(i).skip_next => Cb(i)'.accumulated = Cb(i).accumulated
        /\ ~Cb(i).skip_next => Cb(i)'.accumulated = Cb(i).accumulated \cup worker.changes
  BY <1>1, <1>4, <1>6, ChangesAdded DEF Cb
<1>10. Calls' = Calls /\ (callbacks'.list = << >> <=> callbacks.list = << >>)
  BY <1>4, <1>8, SameCalls
<1>11. /\ (delivering' <=> delivering)
       /\ (Calm' => Calm) /\ (Orderly' => Orderly) /\ (Orderly' => Calm')
       /\ (NoneOf(Miscounted)' => NoneOf(Miscounted))
       /\ (Calm' => ~SkippedTooEarly)
       /\ worker'.pc = "info" => Goal' = worker.to
  <2>1. delivering' <=> delivering
    BY <1>1 DEF delivering
  <2>2. /\ (Calm' => Calm) /\ (Orderly' => Orderly)
        /\ (NoneOf(Miscounted)' => NoneOf(Miscounted))
    BY <1>3, Strayed
  <2>3. Orderly' => Calm'
    BY OrderlyIsCalm, PTL
  <2>4. Calm' => ~SkippedTooEarly
    BY <1>3 DEF Calm, NoneOf, Misled
  <2>5. worker'.pc = "info" => Goal' = worker.to
    BY <1>5 DEF Goal
  <2> QED BY <2>1, <2>2, <2>3, <2>4, <2>5
<1>12. TypeOK'
  <2>1. /\ latest' \in Versions /\ read' \in Versions /\ others' \subseteq {"elsewhere", "here"}
        /\ stage' \in {"reading", "writing"}
        /\ at' \in {"idle", "waiting", "after", "inCallback", "undefined"}
        /\ place' \in {"none", "new", "main"} /\ next_token' \in 0 .. MaxToken
        /\ {target', version', skip', rows'} \subseteq {0} \cup Versions
    BY <1>1, <1>4 DEF TypeOK
  <2>2. {woken', signaled', has_run'} \subseteq BOOLEAN
    BY <1>1, <1>2, <1>4 DEF TypeOK
  <2>3. callbacks'.index \in npos .. MaxToken
    BY <1>4, <1>8 DEF TypeOK
  <2> QED BY <1>3, <1>5, <1>8, <2>1, <2>2, <2>3 DEF TypeOK
<1>13. Ordered'
  <2>1. read' <= latest' /\ rows' <= latest' /\ target' <= latest' /\ version' <= latest'
    BY <1>1, <1>6, <1>7 DEF WorkingInv, Ordered, Failed
  <2>2. skip' # 0 => version' < skip' /\ skip' <= latest'
    BY <1>1, <1>6, <1>7
  <2>3. worker'.pc # "asleep" =>
          /\ version' <= Goal'
          /\ worker'.skip <= worker'.to
          /\ worker'.to <= latest'
          /\ skip' # 0 => worker'.to < skip'
    BY <1>1, <1>5, <1>6, <1>7, <1>11
  <2> QED BY <1>5, <2>1, <2>2, <2>3 DEF Ordered, Failed
<1>14. Registered'
  BY <1>1, <1>10 DEF WorkingInv, Registered
<1>15. LoopInside'
  <2>1. delivering => target <= version'
    BY <1>1, <1>6, <1>7 DEF WorkingInv, LoopInside, LoopBounds
  <2> QED BY <1>1, <1>8, <1>10, <1>11, <2>1 DEF WorkingInv, LoopInside, LoopBounds
<1>16. Held'
  <2> SUFFICES ASSUME NEW i \in Calls
               PROVE  /\ Cb(i)'.accumulated \cup Cb(i)'.to_deliver \subseteq 1 .. Goal
                      /\ Cb(i)'.mute \subseteq 1 .. latest
                      /\ Cb(i)'.initial_delivered => Cb(i)'.told <= Goal
                      /\ Cb(i)'.quiet => stage = "writing" /\ at # "waiting"
    BY <1>1, <1>10 DEF Held
  <2>1. /\ Cb(i).accumulated \cup Cb(i).to_deliver \subseteq 1 .. version
        /\ Cb(i).mute \subseteq 1 .. latest
        /\ Cb(i).initial_delivered => Cb(i).told <= version
        /\ Cb(i).quiet => stage = "writing" /\ at # "waiting"
    BY DEF WorkingInv, Held
  <2>2. Cb(i).told \in Nat
    BY <1>4, CallbackTypes
  <2>3. 1 .. version \subseteq 1 .. Goal
    BY <1>6, <1>7
  <2>4. Cb(i)'.accumulated \subseteq Cb(i).accumulated \cup worker.changes
    BY <1>9
  <2>5. Cb(i)'.initial_delivered => Cb(i)'.told <= Goal
    BY <1>6, <1>7, <1>9, <2>1, <2>2
  <2> QED BY <1>7, <1>9, <2>1, <2>3, <2>4, <2>5
<1>17. ASSUME Calm, callbacks.have
       PROVE  /\ rows = Goal
              /\ has_run => worker.changes = version + 1 .. Goal
  BY <1>1, <1>17 DEF WorkingInv, RowsCurrent
<1>18. RowsCurrent'
  BY <1>1, <1>5, <1>8, <1>11, <1>17 DEF RowsCurrent
<1>19. \A i \in Calls : callbacks.have
  BY DEF WorkingInv, LoopInside, LoopBounds, Calls
<1>20. WriteCaughtUp'
  <2> SUFFICES ASSUME Calm, callbacks.have \/ delivering, stage = "writing", at # "waiting"
               PROVE  /\ Goal = latest /\ read = latest
                      /\ \A i \in Calls : Cb(i)'.accumulated = {}
    BY <1>1, <1>8, <1>10, <1>11 DEF WriteCaughtUp
  <2>1. /\ version = latest /\ read = latest /\ has_run
        /\ \A i \in Calls : Cb(i).accumulated = {}
    BY DEF WorkingInv, WriteCaughtUp
  <2>2. Goal = latest
    BY <1>6, <1>7, <2>1
  <2>3. ASSUME NEW i \in Calls PROVE worker.changes = {}
    <3>1. version + 1 .. Goal = {}
      BY <1>6, <2>1, <2>2
    <3> QED BY <1>17, <1>19, <2>1, <3>1
  <2> QED BY <1>9, <2>1, <2>2, <2>3
<1>21. AheadIsTold'
  <2> SUFFICES ASSUME Calm
               PROVE  /\ \A i \in Calls : Heard(i) /\ Goal < read => Cb(i)'.accumulated = {}
                      /\ delivering \/ (\E i \in Calls : Heard(i)) =>
                           /\ skip # 0 => read <= skip
                           /\ worker'.pc # "asleep" /\ Goal' < read => Goal' = Goal
    <3>1. \A i \in Calls : Heard(i)' <=> Heard(i)
      BY <1>9, <1>11 DEF Heard
    <3> QED BY <1>1, <1>5, <1>10, <1>11, <3>1 DEF AheadIsTold
  <2>1. ASSUME NEW i \in Calls, Heard(i), Goal < read PROVE Cb(i)'.accumulated = {}
    <3>1. Goal = version
      BY <1>1, <2>1 DEF WorkingInv, AheadIsTold
    <3>2. Cb(i).accumulated = {}
      BY <2>1, <3>1 DEF WorkingInv, AheadIsTold
    <3>3. has_run
      BY <2>1 DEF WorkingInv, Held, LoopInside, LoopBounds, Heard
    <3>4. version + 1 .. Goal = {}
      BY <1>6, <3>1
    <3>5. worker.changes = {}
      BY <1>17, <1>19, <3>3, <3>4
    <3> QED BY <1>9, <3>2, <3>5
  <2>2. ASSUME delivering \/ (\E i \in Calls : Heard(i))
        PROVE  /\ skip # 0 => read <= skip
               /\ worker'.pc # "asleep" => ~(Goal' < read)
    <3>1. /\ skip # 0 => read <= skip
          /\ worker.skip # 0 => read <= worker.skip
      BY <2>2 DEF WorkingInv, AheadIsTold
    <3>2. worker'.pc # "asleep" => Goal' = worker.to /\ worker.skip # 0
      BY <1>5, <1>11
    <3> QED BY <1>6, <1>7, <3>1, <3>2
  <2> QED BY <2>1, <2>2
<1>22. ASSUME Calm', NEW i \in Calls
       PROVE  /\ ~Cb(i).quiet
              /\ \A v \in Cb(i).mute : ~(v > Goal)
              /\ \A v \in Cb(i).mute : v \in Nat
  <2>1. Calm /\ ~SkippedTooEarly
    BY <1>11, <1>22
  <2>2. Cb(i).skip_next => ~Cb(i).quiet /\ \A v \in Cb(i).mute : ~(v > Goal)
    BY <2>1 DEF SkippedTooEarly, Calls, Cb
  <2>3. /\ Cb(i).quiet => Cb(i).skip_next
        /\ \A v \in Cb(i).mute : v > version => Cb(i).skip_next
    BY <2>1 DEF WorkingInv, SkipsTheNext
  <2>4. \A v \in Cb(i).mute : v \in Nat
    BY <1>6 DEF WorkingInv, Held
  <2>5. \A v \in Cb(i).mute : v > Goal => v > version
    BY <1>6, <1>7, <2>4
  <2> QED BY <2>2, <2>3, <2>4, <2>5
<1>23. SkipsTheNext'
  BY <1>1, <1>9, <1>10, <1>22 DEF SkipsTheNext
<1>24. ASSUME Calm', has_run, NEW i \in Calls
       PROVE  /\ Cb(i)'.accumulated = Cb(i).accumulated \cup (worker.changes \ Cb(i).mute)
              /\ worker.changes = version + 1 .. Goal
  <2>1. /\ worker.changes = version + 1 .. Goal
        /\ Calm
    BY <1>11, <1>17, <1>19, <1>24
  <2>2. /\ Cb(i).skip_next /\ ~Cb(i).quiet =>
             /\ version + 1 \in Cb(i).mute
             /\ version + 1 \in {skip, worker.skip}
        /\ \A v \in Cb(i).mute : v > version => Cb(i).skip_next
    BY <2>1 DEF WorkingInv, SkipsTheNext
  <2>3. CASE Cb(i).skip_next
    <3>1. version + 1 \in Cb(i).mute /\ version + 1 \in {skip, worker.skip}
      BY <1>22, <1>24, <2>2, <2>3
    <3>2. version + 1 <= Goal
      BY <1>6, <1>22, <1>24, <3>1
    <3>3. version + 1 # skip
      BY <1>6, <1>7, <3>2
    <3>4. Goal = version + 1
      BY <1>6, <1>7, <3>1, <3>3
    <3>5. worker.changes \subseteq Cb(i).mute
      BY <1>6, <2>1, <3>1, <3>4
    <3> QED BY <1>9, <2>1, <2>3, <3>5
  <2>4. CASE ~Cb(i).skip_next
    <3>1. \A v \in worker.changes : v > version
      BY <1>6, <2>1
    <3>2. worker.changes \cap Cb(i).mute = {}
      BY <2>2, <2>4, <3>1
    <3> QED BY <1>9, <2>1, <2>4, <3>2
  <2> QED BY <2>3, <2>4
<1>25. PackagedToCall'
  <2> SUFFICES ASSUME Orderly', NEW i \in Calls
               PROVE  /\ Cb(i).initial_delivered /\ Cb(i).to_deliver # {} => ToCall(i)
                      /\ ToCall(i) => Cb(i)'.accumulated = (target + 1 .. rows) \ Cb(i).mute
    <3>1. \A i \in Calls : ToCall(i)' <=> ToCall(i)
      BY <1>8, <1>11 DEF ToCall
    <3> QED BY <1>1, <1>5, <1>9, <1>10, <3>1 DEF PackagedToCall
  <2>1. Orderly /\ Calm'
    BY <1>11
  <2>2. ToCall(i) => has_run
    BY DEF WorkingInv, LoopInside, LoopBounds, ToCall
  <2> QED BY <1>24, <2>1, <2>2 DEF WorkingInv, PackagedToCall
<1>26. NothingLost'
  <2> SUFFICES ASSUME Orderly', NEW i \in Calls, Cb(i).initial_delivered
               PROVE  /\ Cb(i)'.accumulated \cup Cb(i).to_deliver
                           = (Cb(i).told + 1 .. rows) \ Cb(i).mute
                      /\ Cb(i)'.accumulated \cap Cb(i).to_deliver = {}
    BY <1>1, <1>5, <1>9, <1>10 DEF NothingLost, Found, Orderly, Calls, Cb
  <2>1. /\ Cb(i).accumulated \cup Cb(i).to_deliver \cup (worker.changes \ Cb(i).mute)
             = (Cb(i).told + 1 .. rows) \ Cb(i).mute
        /\ Cb(i).accumulated \cap Cb(i).to_deliver = {}
    BY <1>11 DEF WorkingInv, NothingLost, Found, Orderly, Calls, Cb
  <2>2. has_run /\ Cb(i).to_deliver \subseteq 1 .. version
    BY DEF WorkingInv, Held
  <2>3. /\ Cb(i)'.accumulated = Cb(i).accumulated \cup (worker.changes \ Cb(i).mute)
        /\ worker.changes = version + 1 .. Goal
    BY <1>11, <1>24, <2>2
  <2>4. worker.changes \cap Cb(i).to_deliver = {}
    <3>1. (version + 1 .. Goal) \cap (1 .. version) = {}
      BY <1>6
    <3> QED BY <2>2, <2>3, <3>1
  <2> QED BY <2>1, <2>3, <2>4
<1> QED
  BY <1>12, <1>13, <1>14, <1>15, <1>16, <1>18, <1>20, <1>21, <1>23, <1>25, <1>26 DEF WorkingInv


-----------------------------------------------------------------------------
(* The worker has failed. *)

(* The error arises before anything has been found out. *)
LEMMA FailsFailedInv ==
  ASSUME WorkingInv, pin_versionFails \/ open_helper_shared_groupFails
  PROVE  FailedInv'
<1> USE DEF file, realm
<1>1. /\ ~has_run /\ worker' = Broken /\ Failed' /\ place' \in {"new", "main"}
      /\ UNCHANGED <<file, realm, has_run, callbacks, next_token, skip, rows>>
      /\ strayed \subseteq strayed' /\ strayed' \subseteq Strays
      /\ {woken', signaled'} \subseteq BOOLEAN /\ version' \in {0} \cup Versions
  BY DEF pin_versionFails, open_helper_shared_groupFails, WorkingInv, Registered, TypeOK,
         Failed, Broken, Asleep, Strays
<1>2. TypeOK'
  <2>1. Broken \in WorkerStates
    BY DEF Broken, Asleep, WorkerStates
  <2> QED BY <1>1, <2>1 DEF WorkingInv, TypeOK
<1>3. LoopBounds'
  BY <1>1, Strayed DEF WorkingInv, LoopInside, LoopBounds, delivering
<1>4. Untold'
  <2>1. ~delivering'
    BY <1>1 DEF WorkingInv, LoopInside, delivering
  <2>2. \A i \in Calls : ~Cb(i).initial_delivered /\ Cb(i).accumulated = {}
    BY <1>1 DEF WorkingInv, Held
  <2> QED BY <1>1, <2>1, <2>2 DEF Untold, Calls, Cb
<1> QED BY <1>1, <1>2, <1>3, <1>4 DEF FailedInv

(* Steps that keep the number of callbacks and what they hold.             *)
LEMMA FailedSame ==
  ASSUME FailedInv, TypeOK', UNCHANGED <<next_token, has_run, worker>>, place' # "none",
         Len(callbacks'.list) = Len(callbacks.list), callbacks'.have <=> callbacks.have,
         callbacks'.index + 1 <= Len(callbacks.list),
         at' \in {"idle", "waiting"} => callbacks'.index = npos,
         NoneOf(Miscounted)' =>
           /\ at' # "undefined"
           /\ delivering' => /\ callbacks'.index < callbacks'.count
                             /\ callbacks'.count <= Len(callbacks.list),
         \A i \in Calls :
           /\ Cb(i)'.initial_delivered <=> Cb(i).initial_delivered
           /\ Cb(i)'.accumulated = Cb(i).accumulated
           /\ delivering' /\ NoneOf(Miscounted)' /\ Cb(i)'.told # 0 => i <= callbacks'.count
  PROVE  FailedInv'
<1>1. Calls' = Calls /\ (callbacks'.list = << >> <=> callbacks.list = << >>)
  BY SameCalls, Types DEF FailedInv, TypeOK
<1>2. LoopBounds'
  BY <1>1 DEF FailedInv, LoopBounds
<1>3. Untold'
  BY <1>1 DEF FailedInv, Untold
<1> QED BY <1>2, <1>3 DEF FailedInv, Failed

(* Steps that leave the callbacks alone, and the loop over them.           *)
LEMMA FailedQuiet ==
  ASSUME FailedInv, TypeOK', UNCHANGED <<callbacks, next_token, has_run, worker>>,
         place' # "none", strayed \subseteq strayed',
         at' = at \/ (at = "waiting" /\ at' = "idle")
  PROVE  FailedInv'
<1>1. delivering' <=> delivering
  BY DEF delivering
<1>2. NoneOf(Miscounted)' => NoneOf(Miscounted)
  BY Strayed
<1>3. \A i \in Calls : Cb(i)' = Cb(i)
  BY DEF Cb
<1>4. LoopBounds /\ Untold
  BY DEF FailedInv
<1> QED BY <1>1, <1>2, <1>3, <1>4, FailedSame DEF LoopBounds, Untold

(* A callback is added.                                                    *)
LEMMA FailedAdd == FailedInv /\ AddCallback => FailedInv'
<1> SUFFICES ASSUME FailedInv, AddCallback PROVE FailedInv'
  OBVIOUS
<1> USE DEF file, realm
<1>1. /\ next_token < MaxToken /\ next_token' = next_token + 1
      /\ callbacks' = add_callback(callbacks, next_token)
      /\ UNCHANGED <<file, signaled, realm, place, version, has_run, skip, worker, rows>>
      /\ strayed \subseteq strayed' /\ strayed' \subseteq Strays
  BY DEF AddCallback, AddedAmiss, FailedInv, TypeOK, Strays
<1>2. /\ next_token \in AllTokens /\ next_token' \in 0 .. MaxToken /\ next_token \in Nat
  BY <1>1, BoundsAssumption DEF FailedInv, TypeOK, AllTokens
<1>3. PICK k \in Nat : k = Len(callbacks.list) /\ Calls = 1 .. k
  BY Types DEF FailedInv
<1>4. /\ callbacks' \in CallbacksOf(AllTokens, Versions)
      /\ Len(callbacks'.list) = k + 1
      /\ \A i \in 1 .. k : Cb(i)' = Cb(i)
      /\ Cb(k + 1)' = Callback(next_token)
      /\ callbacks'.index = callbacks.index /\ callbacks'.count = callbacks.count
      /\ callbacks'.have <=> callbacks.have \/ ~Delivering(callbacks)
  <2>1. callbacks \in CallbacksOf(AllTokens, Versions)
    BY Types DEF FailedInv
  <2> PICK t \in AllTokens : t = next_token
    BY <1>2
  <2> QED BY <1>1, <1>3, <2>1, Added DEF Cb
<1>5. Calls' = 1 .. k + 1 /\ callbacks'.list # << >>
  <2>1. callbacks'.list \in Seq(CallbackOf(AllTokens, Versions))
    BY <1>4 DEF CallbacksOf
  <2> QED BY <1>3, <1>4, <2>1 DEF Calls
<1>6. TypeOK'
  <2>1. woken' \in BOOLEAN
    <3>1. woken \in BOOLEAN
      BY DEF FailedInv, TypeOK
    <3>2. woken' = (Delivering(callbacks) => woken)
      BY DEF AddCallback
    <3> QED BY <3>1, <3>2, Zenon
  <2> QED BY <1>1, <1>2, <1>4, <2>1 DEF FailedInv, TypeOK
<1>7. /\ callbacks.index \in npos .. MaxToken /\ callbacks.index + 1 <= k
      /\ callbacks.count \in Int /\ callbacks.index \in Int /\ k <= next_token
      /\ callbacks.have <=> callbacks.list # << >>
  BY <1>3, Types DEF FailedInv, TypeOK, LoopBounds
<1>8. callbacks'.have
  <2>1. callbacks.list = << >> => ~Delivering(callbacks)
    BY <1>3, <1>7 DEF Delivering, npos
  <2> QED BY <1>4, <1>7, <2>1, Zenon
<1>9. /\ NoneOf(Miscounted)' => NoneOf(Miscounted)
      /\ delivering' <=> delivering
  BY <1>1, Strayed DEF delivering
<1>10. LoopBounds'
  <2>1. /\ k + 1 <= next_token' /\ callbacks.index + 1 <= k + 1
        /\ callbacks.count <= k => callbacks.count <= k + 1
    BY <1>1, <1>2, <1>7
  <2>2. /\ at \in {"idle", "waiting"} => callbacks.index = npos
        /\ NoneOf(Miscounted) =>
             /\ at # "undefined"
             /\ delivering => callbacks.index < callbacks.count /\ callbacks.count <= k
    BY <1>3 DEF FailedInv, LoopBounds
  <2> QED BY <1>1, <1>4, <1>5, <1>8, <1>9, <2>1, <2>2 DEF LoopBounds
<1>11. Untold'
  <2>1. /\ ~Callback(next_token).initial_delivered
        /\ Callback(next_token).accumulated = {} /\ Callback(next_token).told = 0
    BY DEF Callback
  <2>2. \A i \in Calls' : \/ i \in Calls /\ Cb(i)' = Cb(i)
                          \/ Cb(i)' = Callback(next_token)
    BY <1>3, <1>4, <1>5
  <2> QED BY <1>4, <1>9, <2>1, <2>2 DEF FailedInv, Untold
<1> QED BY <1>1, <1>6, <1>10, <1>11 DEF FailedInv, Failed

(* A callback is removed, by somebody or after it has been told of the     *)
(* error.                                                                  *)
LEMMA FailedRemove ==
  ASSUME FailedInv, NEW t \in Tokens(callbacks),
         callbacks' = remove_callback(callbacks, t),
         at' = at \/ (at = "inCallback" /\ at' = "after"),
         delivering /\ NoneOf(Miscounted)' => Position(callbacks, t) <= callbacks.count,
         UNCHANGED <<latest, others, woken, signaled, read, stage, target, place, version,
                     has_run, next_token, skip, worker, rows>>,
         strayed \subseteq strayed', strayed' \subseteq Strays
  PROVE  FailedInv'
<1>1. PICK k \in Nat : k = Len(callbacks.list) /\ Calls = 1 .. k
  BY Types DEF FailedInv
<1> DEFINE old(p, i) == IF i < p THEN i ELSE i + 1
<1>2. PICK p \in 1 .. k :
      /\ p = Position(callbacks, t)
      /\ callbacks' \in CallbacksOf(AllTokens, Versions)
      /\ Len(callbacks'.list) = k - 1
      /\ \A i \in 1 .. k - 1 : Cb(i)' = Cb(old(p, i))
      /\ callbacks'.index = IF callbacks.index >= p - 1 THEN callbacks.index - 1
                                                        ELSE callbacks.index
      /\ callbacks'.count = callbacks.count - 1
      /\ callbacks'.have <=> callbacks'.list # << >>
  <2>1. callbacks \in CallbacksOf(AllTokens, Versions)
    BY Types DEF FailedInv
  <2> QED BY <1>1, <2>1, Removed DEF Cb
<1>3. Calls' = 1 .. k - 1
  <2>1. callbacks'.list \in Seq(CallbackOf(AllTokens, Versions))
    BY <1>2 DEF CallbacksOf
  <2> QED BY <1>2, <2>1 DEF Calls
<1>4. /\ callbacks.index \in Int /\ callbacks.count \in Int
      /\ callbacks.index \in npos .. MaxToken /\ callbacks.index + 1 <= k
      /\ k <= next_token /\ next_token \in Nat
  BY <1>1, Types DEF FailedInv, TypeOK, LoopBounds
<1>5. /\ p \in Nat /\ 1 <= p /\ p <= k
      /\ callbacks'.index = IF callbacks.index >= p - 1 THEN callbacks.index - 1
                                                        ELSE callbacks.index
      /\ callbacks'.count = callbacks.count - 1
  BY <1>2
<1>6. /\ callbacks'.index \in npos .. MaxToken
      /\ callbacks'.index + 1 <= k - 1
      /\ callbacks.index = npos => callbacks'.index = npos
      /\ callbacks.index < callbacks.count /\ p <= callbacks.count
           => callbacks'.index < callbacks'.count
      /\ callbacks.count <= k => callbacks'.count <= k - 1
  BY <1>4, <1>5, BoundsAssumption DEF npos
<1>7. TypeOK'
  BY <1>2, <1>6 DEF FailedInv, TypeOK
<1>8. /\ NoneOf(Miscounted)' => NoneOf(Miscounted)
      /\ delivering' <=> delivering
      /\ at' \in {"idle", "waiting"} => at \in {"idle", "waiting"}
      /\ at' = "undefined" => at = "undefined"
  BY Strayed DEF delivering
<1>9. delivering /\ NoneOf(Miscounted)' => p <= callbacks.count
  BY <1>2
<1>10. LoopBounds'
  <2>1. /\ at \in {"idle", "waiting"} => callbacks.index = npos
        /\ NoneOf(Miscounted) =>
             /\ at # "undefined"
             /\ delivering => callbacks.index < callbacks.count /\ callbacks.count <= k
    BY <1>1 DEF FailedInv, LoopBounds
  <2>2. k - 1 <= next_token'
    BY <1>4
  <2> QED BY <1>2, <1>6, <1>8, <1>9, <2>1, <2>2 DEF LoopBounds
<1>11. Untold'
  <2> SUFFICES ASSUME NEW i \in 1 .. k - 1
               PROVE  /\ ~Cb(i)'.initial_delivered
                      /\ Cb(i)'.accumulated = {}
                      /\ delivering' /\ NoneOf(Miscounted)' /\ Cb(i)'.told # 0
                           => i <= callbacks'.count
    BY <1>3 DEF Untold
  <2>1. old(p, i) \in Calls /\ Cb(i)' = Cb(old(p, i))
    BY <1>1, <1>2
  <2>2. p <= callbacks.count /\ old(p, i) <= callbacks.count => i <= callbacks.count - 1
    BY <1>4, <1>5
  <2> HIDE DEF old
  <2> QED BY <1>2, <1>8, <1>9, <2>1, <2>2 DEF FailedInv, Untold
<1> QED BY <1>7, <1>10, <1>11 DEF FailedInv, Failed

(* A callback is suppressed, or a commit recorded for those that are.      *)
LEMMA FailedMarks ==
  ASSUME FailedInv,
         commit_write \/ \E t \in Tokens(callbacks) : SuppressNext(t)
  PROVE  FailedInv'
<1> USE DEF file, realm
<1>1. UNCHANGED <<at, place, has_run, next_token, worker, strayed>>
  BY DEF commit_write, SuppressNext
<1>2. callbacks \in CallbacksOf(AllTokens, Versions) /\ Calls = 1 .. Len(callbacks.list)
  BY Types DEF FailedInv
<1>3. /\ callbacks' \in CallbacksOf(AllTokens, Versions)
      /\ Len(callbacks'.list) = Len(callbacks.list)
      /\ callbacks'.index = callbacks.index /\ callbacks'.count = callbacks.count
      /\ callbacks'.have <=> callbacks.have
      /\ \A i \in Calls : /\ Cb(i)'.initial_delivered <=> Cb(i).initial_delivered
                          /\ Cb(i)'.accumulated = Cb(i).accumulated
                          /\ Cb(i)'.told = Cb(i).told
  <2>1. CASE commit_write
    <3> PICK v \in Versions : v = latest + 1
      BY <2>1, BoundsAssumption DEF commit_write, FailedInv, TypeOK, Versions
    <3>1. /\ Recorded(v) \in CallbacksOf(AllTokens, Versions)
          /\ Len(Recorded(v).list) = Len(callbacks.list)
          /\ \A i \in Calls :
               Recorded(v).list[i] = [Cb(i) EXCEPT !.quiet = FALSE,
                                       !.mute = IF Cb(i).quiet THEN @ \cup {v} ELSE @]
          /\ Recorded(v).index = callbacks.index /\ Recorded(v).count = callbacks.count
          /\ Recorded(v).have = callbacks.have
      BY RecordedFacts DEF FailedInv
    <3>2. callbacks' = Recorded(v)
      BY <2>1 DEF commit_write
    <3>3. \A i \in Calls : Cb(i) \in CallbackOf(AllTokens, Versions)
      BY CallbackTypes DEF FailedInv
    <3>4. ASSUME NEW i \in Calls
          PROVE  /\ Cb(i)'.initial_delivered <=> Cb(i).initial_delivered
                 /\ Cb(i)'.accumulated = Cb(i).accumulated
                 /\ Cb(i)'.told = Cb(i).told
      <4>1. Cb(i)' = [Cb(i) EXCEPT !.quiet = FALSE,
                                   !.mute = IF Cb(i).quiet THEN @ \cup {v} ELSE @]
        BY <3>1, <3>2 DEF Cb
      <4> QED BY <3>3, <4>1 DEF CallbackOf
    <3> QED BY <3>1, <3>2, <3>4
  <2>2. CASE \E t \in Tokens(callbacks) : SuppressNext(t)
    <3>1. PICK t \in Tokens(callbacks) : callbacks' = suppress_next_notification(callbacks, t)
      BY <2>2 DEF SuppressNext
    <3> QED BY <1>2, <3>1, Suppressed DEF Cb
  <2> QED BY <2>1, <2>2
<1>4. TypeOK'
  <2>1. CASE commit_write
    <3>1. /\ latest' = latest + 1 /\ read' = latest + 1 /\ skip' \in {skip, latest + 1}
          /\ latest < MaxVersion /\ stage' = "reading" /\ others' = others \cup {"here"}
          /\ UNCHANGED <<woken, signaled, target, version, rows>>
      BY <2>1 DEF commit_write
    <3>2. latest + 1 \in Versions
      BY <3>1, BoundsAssumption DEF FailedInv, TypeOK, Versions
    <3> QED BY <1>1, <1>3, <3>1, <3>2 DEF FailedInv, TypeOK
  <2>2. CASE \E t \in Tokens(callbacks) : SuppressNext(t)
    <3>1. UNCHANGED <<latest, others, woken, signaled, read, stage, target, version, skip, rows>>
      BY <2>2 DEF SuppressNext
    <3> QED BY <1>1, <1>3, <3>1 DEF FailedInv, TypeOK
  <2> QED BY <2>1, <2>2
<1>5. LoopBounds /\ Untold /\ place # "none"
  BY DEF FailedInv
<1>6. delivering' = delivering /\ NoneOf(Miscounted)' = NoneOf(Miscounted)
  BY <1>1 DEF delivering, NoneOf
<1>7. /\ callbacks'.index + 1 <= Len(callbacks.list)
      /\ at' \in {"idle", "waiting"} => callbacks'.index = npos
      /\ NoneOf(Miscounted)' =>
           /\ at' # "undefined"
           /\ delivering' => /\ callbacks'.index < callbacks'.count
                             /\ callbacks'.count <= Len(callbacks.list)
  BY <1>1, <1>3, <1>5, <1>6 DEF LoopBounds
<1>8. \A i \in Calls :
        delivering' /\ NoneOf(Miscounted)' /\ Cb(i)'.told # 0 => i <= callbacks'.count
  BY <1>3, <1>5, <1>6 DEF Untold
<1> QED BY <1>1, <1>3, <1>4, <1>5, <1>7, <1>8, FailedSame

(* The error is delivered to all callbacks there are.                      *)
LEMMA FailedDeliver ==
  ASSUME FailedInv, begin_transactionWithError \/ refreshWithError \/ notifyWithError
  PROVE  FailedInv'
<1> USE DEF file
<1>1. /\ at = "idle" /\ at' = "after" /\ read' = latest /\ target' = latest
      /\ callbacks' = [callbacks EXCEPT !.count = Len(callbacks.list)]
      /\ UNCHANGED <<file, woken, place, version, has_run, next_token, skip, worker, rows,
                     strayed>>
      /\ stage' \in {"reading", "writing"} /\ signaled' \in BOOLEAN
  BY DEF begin_transactionWithError, refreshWithError, notifyWithError, DeliverError, Take,
         Idle, Counted, FailedInv, TypeOK
<1>2. /\ callbacks \in CallbacksOf(AllTokens, Versions) /\ Len(callbacks.list) \in Nat
      /\ Calls = 1 .. Len(callbacks.list)
  BY Types DEF FailedInv
<1>3. /\ callbacks'.list = callbacks.list /\ callbacks'.index = callbacks.index
      /\ callbacks'.count = Len(callbacks.list) /\ callbacks'.have = callbacks.have
      /\ callbacks' \in CallbacksOf(AllTokens, Versions)
  BY <1>1, <1>2 DEF CallbacksOf
<1>4. TypeOK'
  BY <1>1, <1>3 DEF FailedInv, TypeOK
<1>5. LoopBounds /\ Untold /\ place # "none" /\ callbacks.index = npos
  BY <1>1 DEF FailedInv, LoopBounds
<1>6. /\ callbacks'.index + 1 <= Len(callbacks.list)
      /\ callbacks'.index < callbacks'.count
  BY <1>2, <1>3, <1>5 DEF npos
<1>7. \A i \in Calls : Cb(i)' = Cb(i) /\ i <= callbacks'.count
  BY <1>2, <1>3 DEF Cb
<1> QED BY <1>1, <1>2, <1>3, <1>4, <1>5, <1>6, <1>7, FailedSame

(* The next one is told.                                                   *)
LEMMA errorNextFailedInv == FailedInv /\ errorNext => FailedInv'
<1> SUFFICES ASSUME FailedInv, errorNext PROVE FailedInv'
  OBVIOUS
<1> USE DEF file
<1>1. /\ at = "after" /\ delivering /\ Another(callbacks)
      /\ UNCHANGED <<file, woken, signaled, read, stage, target, place, version, has_run,
                     next_token, skip, worker, rows, strayed>>
  BY DEF errorNext, delivering
<1>2. PICK k \in Nat : k = Len(callbacks.list) /\ Calls = 1 .. k
  BY Types DEF FailedInv
<1>3. /\ callbacks \in CallbacksOf(AllTokens, Versions) /\ callbacks.count \in Int
      /\ callbacks.index \in npos .. MaxToken /\ callbacks.index + 1 <= k
      /\ k <= next_token /\ next_token \in 0 .. MaxToken /\ target \in {0} \cup Versions
      /\ callbacks.index \in Int
  BY <1>2, Types DEF FailedInv, TypeOK, LoopBounds
<1>4. NoneOf(Miscounted) => /\ callbacks.index < callbacks.count /\ callbacks.count <= k
                            /\ callbacks.index + 2 <= callbacks.count
  <2>1. NoneOf(Miscounted) => callbacks.index < callbacks.count /\ callbacks.count <= k
    BY <1>1, <1>2 DEF FailedInv, LoopBounds
  <2> QED BY <1>1, <1>3, <2>1 DEF Another, npos
<1>5. (NoneOf(Miscounted)' <=> NoneOf(Miscounted)) /\ Untold /\ place # "none"
  BY <1>1 DEF NoneOf, FailedInv
<1>6. CASE ~InRange(callbacks)
  <2>1. ~NoneOf(Miscounted)
    BY <1>2, <1>3, <1>4, <1>6 DEF InRange
  <2>2. at' = "undefined" /\ UNCHANGED callbacks
    BY <1>6 DEF errorNext
  <2>3. TypeOK'
    BY <1>1, <2>2 DEF FailedInv, TypeOK
  <2>4. \A i \in Calls : Cb(i)' = Cb(i)
    BY <2>2 DEF Cb
  <2> QED BY <1>1, <1>2, <1>3, <1>5, <2>1, <2>2, <2>3, <2>4, FailedSame
<1>7. CASE InRange(callbacks)
  <2> DEFINE m == CalledWithError(callbacks, target)
  <2>1. callbacks' = m /\ at' = "inCallback"
    BY <1>7 DEF errorNext
  <2>2. /\ callbacks \in CallbacksOf(AllTokens, Versions) /\ target \in {0} \cup Versions
        /\ InRange(callbacks) /\ callbacks.index >= npos
    BY <1>3, <1>7 DEF npos
  <2>3. /\ m \in CallbacksOf(AllTokens, Versions)
        /\ Len(m.list) = k
        /\ \A i \in 1 .. k :
             /\ m.list[i].accumulated = callbacks.list[i].accumulated
             /\ m.list[i].initial_delivered <=> callbacks.list[i].initial_delivered
             /\ i # callbacks.index + 2 => m.list[i].told = callbacks.list[i].told
        /\ m.index = callbacks.index + 1 /\ m.count = callbacks.count
        /\ m.have = callbacks.have
    <3>1. m \in CallbacksOf(AllTokens, Versions) /\ TellsOnlyTheNext(callbacks, m)
      BY <2>2, CalledErr
    <3> HIDE DEF m
    <3> QED BY <1>2, <3>1 DEF TellsOnlyTheNext
  <2> HIDE DEF m
  <2>4. callbacks'.index \in npos .. MaxToken /\ callbacks'.index + 1 <= k
    BY <1>2, <1>3, <1>7, <2>1, <2>3, BoundsAssumption DEF npos, InRange
  <2>5. TypeOK'
    BY <1>1, <2>1, <2>3, <2>4 DEF FailedInv, TypeOK
  <2>6. delivering'
    BY <2>1 DEF delivering
  <2>7. NoneOf(Miscounted)' => callbacks'.index < callbacks'.count /\ callbacks'.count <= k
    BY <1>3, <1>4, <1>5, <2>1, <2>3
  <2>8. ASSUME NEW i \in Calls
        PROVE  /\ Cb(i)'.initial_delivered <=> Cb(i).initial_delivered
               /\ Cb(i)'.accumulated = Cb(i).accumulated
               /\ NoneOf(Miscounted)' /\ Cb(i)'.told # 0 => i <= callbacks'.count
    <3>1. /\ Cb(i)'.initial_delivered <=> Cb(i).initial_delivered
          /\ Cb(i)'.accumulated = Cb(i).accumulated
          /\ i # callbacks.index + 2 => Cb(i)'.told = Cb(i).told
      BY <1>2, <2>1, <2>3 DEF Cb
    <3>2. CASE i = callbacks.index + 2
      BY <1>4, <1>5, <2>1, <2>3, <3>1, <3>2
    <3>3. CASE i # callbacks.index + 2
      BY <1>1, <1>5, <2>1, <2>3, <3>1, <3>3 DEF Untold
    <3> QED BY <3>2, <3>3
  <2>9. Len(callbacks'.list) = Len(callbacks.list) /\ (callbacks'.have <=> callbacks.have)
    BY <1>2, <2>1, <2>3
  <2> QED BY <1>1, <1>2, <1>5, <2>1, <2>4, <2>5, <2>6, <2>7, <2>8, <2>9, FailedSame
<1> QED BY <1>6, <1>7

(* It returns, and is removed: it is among those that are counted.         *)
LEMMA errorReturnsFailedInv == FailedInv /\ errorReturns => FailedInv'
<1> SUFFICES ASSUME FailedInv, errorReturns PROVE FailedInv'
  OBVIOUS
<1> USE DEF file
<1>1. /\ at = "inCallback" /\ at' = "after" /\ delivering /\ delivering'
      /\ UNCHANGED <<file, woken, signaled, read, stage, target, place, version, has_run,
                     next_token, skip, worker, rows, strayed>>
  BY DEF errorReturns, delivering
<1>2. TypeOK /\ LoopBounds /\ Untold /\ place # "none" /\ strayed \subseteq Strays
  BY DEF FailedInv, TypeOK
<1>3. (NoneOf(Miscounted)' <=> NoneOf(Miscounted))
  BY <1>1 DEF NoneOf
<1>4. CASE Blamed = {}
  <2>1. UNCHANGED callbacks
    BY <1>4 DEF errorReturns
  <2>2. TypeOK'
    BY <1>1, <1>2, <2>1 DEF TypeOK
  <2>3. \A i \in Calls : Cb(i)' = Cb(i)
    BY <2>1 DEF Cb
  <2> QED BY <1>1, <1>2, <1>3, <2>1, <2>2, <2>3, FailedSame DEF LoopBounds, Untold
<1>5. CASE Blamed # {}
  <2>1. PICK t \in Blamed : callbacks' = remove_callback(callbacks, t)
    BY <1>5 DEF errorReturns
  <2>2. t \in Tokens(callbacks) /\ callbacks.list[Position(callbacks, t)].told # 0
    BY DEF Blamed
  <2>3. Position(callbacks, t) \in Calls
    BY <2>2 DEF Position, Tokens, Calls
  <2>4. NoneOf(Miscounted) => Position(callbacks, t) <= callbacks.count
    BY <1>1, <1>2, <2>2, <2>3 DEF Untold, Cb
  <2> QED BY <1>1, <1>2, <1>3, <2>1, <2>2, <2>4, FailedRemove
<1> QED BY <1>4, <1>5

(* Every callback has been told.                                           *)
LEMMA finishFailedInv == FailedInv /\ finish => FailedInv'
<1> SUFFICES ASSUME FailedInv, finish PROVE FailedInv'
  OBVIOUS
<1> USE DEF file
<1>1. /\ at' = "idle" /\ callbacks' = [callbacks EXCEPT !.index = npos]
      /\ UNCHANGED <<file, woken, signaled, read, stage, target, place, version, has_run,
                     next_token, skip, worker, rows, strayed>>
  BY DEF finish, Finished
<1>2. callbacks \in CallbacksOf(AllTokens, Versions) /\ Len(callbacks.list) \in Nat
  BY Types DEF FailedInv
<1>3. /\ callbacks'.list = callbacks.list /\ callbacks'.index = npos
      /\ callbacks'.count = callbacks.count /\ callbacks'.have = callbacks.have
      /\ callbacks' \in CallbacksOf(AllTokens, Versions)
  BY <1>1, <1>2 DEF CallbacksOf, npos
<1>4. TypeOK'
  BY <1>1, <1>3, BoundsAssumption DEF FailedInv, TypeOK, npos
<1>5. ~delivering' /\ at' # "undefined" /\ place # "none"
  BY <1>1 DEF delivering, FailedInv
<1>6. \A i \in Calls : Cb(i)' = Cb(i)
  BY <1>3 DEF Cb
<1>7. callbacks'.index + 1 <= Len(callbacks.list)
  BY <1>2, <1>3 DEF npos
<1> QED BY <1>1, <1>3, <1>4, <1>5, <1>6, <1>7, FailedSame

-----------------------------------------------------------------------------
(* Every step of a worker that has not failed preserves the invariant.     *)
LEMMA WorkingNext == WorkingInv /\ [Next]_vars => IInv'
<1> SUFFICES ASSUME WorkingInv, [Next]_vars PROVE IInv'
  OBVIOUS
<1>1. TypeOK
  BY DEF WorkingInv
<1>2. CASE CommitElsewhere
  BY <1>2, CommitElsewhereIInv DEF IInv
<1>3. ASSUME notify_others \/ notifyInWrite \/ on_changeAlone \/ Undefined \/ UNCHANGED vars
      PROVE  WorkingInv'
  <2>1. UNCHANGED <<stage, at>>
    BY <1>3 DEF notify_others, notifyInWrite, on_changeAlone, Undefined, Take, vars, realm
  <2>2. UNCHANGED <<latest, read, target, notifier, skip, worker, rows, strayed>>
    BY <1>3 DEF notify_others, notifyInWrite, on_changeAlone, Undefined, Take, vars, file,
               realm, notifier
  <2>3. /\ woken' \in BOOLEAN /\ signaled' \in BOOLEAN
        /\ others' \subseteq {"elsewhere", "here"}
    BY <1>1, <1>3 DEF notify_others, notifyInWrite, on_changeAlone, Undefined, Take, vars, file,
                    TypeOK
  <2>4. TypeOK'
    BY <1>1, <2>1, <2>2, <2>3 DEF TypeOK, notifier
  <2> QED BY <2>1, <2>2, <2>4, QuietIInv
<1>4. CASE register_notifier
  BY <1>4, register_notifierIInv DEF IInv
<1>5. CASE AddCallback
  BY <1>5, AddCallbackIInv DEF IInv
<1>6. ASSUME NEW t \in Tokens(callbacks), RemoveCallback(t) \/ SuppressNext(t)
      PROVE  WorkingInv'
  BY <1>6, RemoveCallbackIInv, SuppressNextIInv
<1>7. CASE begin_transaction \/ refresh
  BY <1>7, WaitForIInv DEF begin_transaction, refresh, IInv
<1>8. CASE begin_transactionInCallback
  BY <1>8, begin_transactionInCallbackIInv DEF IInv
<1>9. CASE Waited
  BY <1>9, WaitedIInv DEF IInv
<1>10. CASE commit_write
  BY <1>10, commit_writeIInv DEF IInv
<1>11. CASE cancel_transaction
  <2>1. /\ stage = "writing" /\ stage' = "reading" /\ UNCHANGED at
        /\ \A i \in Calls : ~Cb(i).quiet
    BY <1>11 DEF cancel_transaction, Calls, Cb
  <2>2. UNCHANGED <<latest, others, woken, signaled, read, target, notifier, skip, worker,
                    rows, strayed>>
    BY <1>11 DEF cancel_transaction, file
  <2>3. TypeOK'
    BY <1>1, <2>1, <2>2 DEF TypeOK, notifier
  <2> QED BY <2>1, <2>2, <2>3, QuietIInv DEF IInv
<1>12. CASE process_available_async \/ advance_to_ready
  BY <1>12, notifyIInv DEF IInv
<1>13. CASE callNext
  BY <1>13, callNextIInv DEF IInv
<1>14. CASE callbackReturns
  <2>1. at = "inCallback" /\ at' = "after" /\ UNCHANGED stage
    BY <1>14 DEF callbackReturns
  <2>2. UNCHANGED <<latest, others, woken, signaled, read, target, notifier, skip, worker,
                    rows, strayed>>
    BY <1>14 DEF callbackReturns, file
  <2>3. TypeOK'
    BY <1>1, <2>1, <2>2 DEF TypeOK, notifier
  <2> QED BY <2>1, <2>2, <2>3, QuietIInv DEF IInv
<1>15. CASE finish
  BY <1>15, finishIInv DEF IInv
<1>16. CASE pickVersion
  BY <1>16, pickVersionIInv DEF IInv
<1>17. CASE add_required_change_info \/ need_to_run \/ calculate_changes
  BY <1>17, add_required_change_infoIInv, need_to_runIInv, calculate_changesIInv DEF IInv
<1>18. CASE prepare_handover
  BY <1>18, prepare_handoverIInv DEF IInv
<1>19. CASE pin_versionFails \/ open_helper_shared_groupFails
  BY <1>19, FailsFailedInv DEF IInv
<1>20. ~(\/ begin_transactionWithError \/ refreshWithError \/ notifyWithError
         \/ errorNext \/ errorReturns \/ on_changeFailed)
  BY DEF WorkingInv, Ordered, begin_transactionWithError, refreshWithError, notifyWithError,
         errorNext, errorReturns, on_changeFailed
<1>21. ASSUME WorkingInv' PROVE IInv'
  BY <1>21 DEF IInv
<1> QED
  BY <1>2, <1>3, <1>4, <1>5, <1>6, <1>7, <1>8, <1>9, <1>10, <1>11, <1>12, <1>13, <1>14, <1>15,
     <1>16, <1>17, <1>18, <1>19, <1>20, <1>21 DEF Next

(* And every step after it has.                                            *)
LEMMA FailedNext == FailedInv /\ [Next]_vars => FailedInv'
<1> SUFFICES ASSUME FailedInv, [Next]_vars PROVE FailedInv'
  OBVIOUS
<1>1. TypeOK /\ Failed /\ place # "none" /\ ~has_run /\ worker.pc = "failed"
  BY DEF FailedInv, Failed
<1>2. ASSUME \/ CommitElsewhere \/ notify_others \/ notifyInWrite \/ on_changeFailed
             \/ begin_transactionInCallback \/ cancel_transaction \/ Undefined
             \/ UNCHANGED vars
      PROVE  FailedInv'
  <2> USE DEF CommitElsewhere, notify_others, notifyInWrite, on_changeFailed, Take,
              begin_transactionInCallback, cancel_transaction, Undefined, vars, file, realm,
              notifier
  <2>1. /\ UNCHANGED <<at, target, version, has_run, callbacks, next_token, skip, worker, rows>>
        /\ strayed \subseteq strayed' /\ strayed' \subseteq Strays
        /\ place' \in {place, "main"}
    BY <1>1, <1>2 DEF TypeOK, Strays
  <2>2. latest' \in Versions /\ read' \in Versions
    <3>1. CASE CommitElsewhere
      <4> HIDE DEF CommitElsewhere
      <4>1. latest' = latest + 1 /\ latest < MaxVersion /\ read' = read
        BY <3>1 DEF CommitElsewhere
      <4> QED BY <1>1, <4>1, BoundsAssumption DEF TypeOK, Versions
    <3>2. CASE ~CommitElsewhere
      BY <1>1, <1>2, <3>2 DEF TypeOK
    <3> QED BY <3>1, <3>2
  <2>3. /\ woken' \in BOOLEAN /\ signaled' \in BOOLEAN /\ stage' \in {"reading", "writing"}
        /\ others' \subseteq {"elsewhere", "here"}
    BY <1>1, <1>2 DEF TypeOK
  <2> HIDE DEF CommitElsewhere, notify_others, notifyInWrite, on_changeFailed, Take,
              begin_transactionInCallback, cancel_transaction, Undefined, vars, file, realm,
              notifier
  <2>4. TypeOK'
    BY <1>1, <2>1, <2>2, <2>3 DEF TypeOK
  <2>5. place' # "none"
    BY <1>1, <2>1
  <2>6. UNCHANGED <<callbacks, next_token, has_run, worker>> /\ UNCHANGED at
    BY <2>1
  <2>7. strayed \subseteq strayed'
    BY <2>1
  <2> QED BY <2>4, <2>5, <2>6, <2>7, FailedQuiet
<1>3. CASE Waited
  <2>1. /\ at = "waiting" /\ at' = "idle" /\ read' = latest
        /\ UNCHANGED <<target, callbacks, latest, others, woken, signaled, stage, place,
                       version, has_run, next_token, skip, worker, rows, strayed>>
    BY <1>1, <1>3 DEF Waited, file
  <2>2. TypeOK'
    BY <1>1, <2>1 DEF TypeOK
  <2> QED BY <1>1, <2>1, <2>2, FailedQuiet
<1>4. CASE AddCallback
  BY <1>4, FailedAdd
<1>5. ASSUME NEW t \in Tokens(callbacks), RemoveCallback(t)
      PROVE  FailedInv'
  <2>1. /\ callbacks' = remove_callback(callbacks, t) /\ UNCHANGED at
        /\ UNCHANGED <<latest, others, woken, signaled, read, stage, target, place, version,
                       has_run, next_token, skip, worker, rows>>
    BY <1>5 DEF RemoveCallback, realm, file
  <2>2. /\ strayed \subseteq strayed' /\ strayed' \subseteq Strays
        /\ delivering /\ Position(callbacks, t) > callbacks.count
             => "uncounted removed" \in strayed'
    BY <1>1, <1>5 DEF RemoveCallback, TypeOK, Strays, delivering
  <2>3. Position(callbacks, t) \in Int /\ callbacks.count \in Int
    <3>1. Position(callbacks, t) \in Calls
      BY DEF Position, Tokens, Calls
    <3> QED BY <1>1, <3>1, Types
  <2>4. delivering /\ NoneOf(Miscounted)' => Position(callbacks, t) <= callbacks.count
    <3>1. NoneOf(Miscounted)' => "uncounted removed" \notin strayed'
      BY DEF NoneOf, Miscounted
    <3>2. delivering /\ NoneOf(Miscounted)' => ~(Position(callbacks, t) > callbacks.count)
      BY <2>2, <3>1
    <3> QED BY <2>3, <3>2
  <2>5. UNCHANGED at
    BY <2>1
  <2>6. strayed \subseteq strayed' /\ strayed' \subseteq Strays
    BY <2>2
  <2> QED BY <2>1, <2>4, <2>5, <2>6, FailedRemove
<1>6. CASE commit_write \/ \E t \in Tokens(callbacks) : SuppressNext(t)
  BY <1>6, FailedMarks
<1>7. CASE begin_transactionWithError \/ refreshWithError \/ notifyWithError
  BY <1>7, FailedDeliver
<1>8. CASE errorNext
  BY <1>8, errorNextFailedInv
<1>9. CASE errorReturns
  BY <1>9, errorReturnsFailedInv
<1>10. CASE finish
  BY <1>10, finishFailedInv
<1>11. ~(\/ register_notifier \/ pin_versionFails \/ begin_transaction \/ refresh
         \/ process_available_async \/ advance_to_ready \/ callNext \/ callbackReturns
         \/ on_changeAlone \/ pickVersion
         \/ add_required_change_info \/ need_to_run \/ calculate_changes
         \/ prepare_handover \/ open_helper_shared_groupFails)
  BY <1>1 DEF register_notifier, pin_versionFails, begin_transaction, refresh,
              process_available_async, advance_to_ready, callNext, callbackReturns,
              on_changeAlone, pickVersion, add_required_change_info, need_to_run,
              calculate_changes, prepare_handover, open_helper_shared_groupFails
<1> QED BY <1>2, <1>3, <1>4, <1>5, <1>6, <1>7, <1>8, <1>9, <1>10, <1>11 DEF Next

(* The invariant of RealmCoordinator.tla's specification: fairness is not  *)
(* needed.                                                                 *)
LEMMA Invariance == Spec => []IInv
<1>1. Init => IInv
  BY InitIInv DEF IInv
<1>2. IInv /\ [Next]_vars => IInv'
  BY WorkingNext, FailedNext DEF IInv
<1> QED BY <1>1, <1>2, PTL DEF Spec

(* Every variable keeps its type: the versions and the callbacks those of  *)
(* the file and of the notifier.                                           *)
THEOREM TypeCorrect == Spec => []TypeOK
<1>1. IInv => TypeOK
  BY DEF IInv, WorkingInv, FailedInv
<1> QED BY <1>1, Invariance, PTL

(* However commits, the worker and the run loop take turns, no change the  *)
(* worker has found is lost or told twice on its way through add_changes,  *)
(* package_for_delivery and after_advance to a callback.                   *)
THEOREM NothingLostHolds == Spec => []NothingLost
<1>1. IInv => NothingLost
  BY DEF IInv, WorkingInv, FailedInv, Untold, NothingLost, Calls, Cb
<1> QED BY <1>1, Invariance, PTL

(* When after_advance has finished, every callback that changes had been   *)
(* packaged for has been called with them.                                 *)
THEOREM DeliveredWholeHolds == Spec => []DeliveredWhole
<1>1. IInv => DeliveredWhole
  <2> SUFFICES ASSUME IInv, Orderly, at = "idle", NEW i \in Calls, Cb(i).initial_delivered
               PROVE  Cb(i).to_deliver = {}
    BY DEF DeliveredWhole, Orderly, Calls, Cb
  <2>1. ~ToCall(i)
    BY DEF ToCall, delivering
  <2> QED BY <2>1 DEF IInv, WorkingInv, PackagedToCall, FailedInv, Untold
<1> QED BY <1>1, Invariance, PTL

(* for_each_callback reads m_callbacks within its bounds, whatever the     *)
(* callbacks add and remove meanwhile, but for the case excepted.          *)
THEOREM LoopStaysInsideHolds == Spec => []LoopStaysInside
<1>1. IInv => LoopStaysInside
  BY DEF IInv, WorkingInv, FailedInv, LoopInside, LoopBounds, LoopStaysInside
<1> QED BY <1>1, Invariance, PTL

(* The debug assertion of add_changes holds: what a callback that skips    *)
(* the next changes has waiting is nothing.                                *)
THEOREM SkipsOnlyItsOwnHolds == Spec => []SkipsOnlyItsOwn
<1>1. IInv => SkipsOnlyItsOwn
  BY DEF IInv, WorkingInv, SkipsTheNext, FailedInv, Untold, SkipsOnlyItsOwn, Calm, Calls, Cb
<1> QED BY <1>1, Invariance, PTL
=============================================================================
