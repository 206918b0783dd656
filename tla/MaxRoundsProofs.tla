-------------------------- MODULE MaxRoundsProofs --------------------------
(* Proofs about the rounds of the game, for any clients, numbers and       *)
(* positions.                                                              *)
EXTENDS MaxRounds, SequenceTheorems, WellFoundedInduction, TLAPS

-----------------------------------------------------------------------------
(* Least and largest numbers.                                              *)

Less == {ss \in Nat \X Nat : ss[1] < ss[2]}

LEMMA LeastNumber ==
    ASSUME NEW T \in SUBSET Nat, T # {}
    PROVE  \E n \in T : \A k \in T : n <= k
  <1>1. IsWellFoundedOn(Less, Nat)
    BY NatLessThanWellFounded DEF OpToRel, Less
  <1>2. PICK n \in T : \A k \in T : ~ (<<k, n>> \in Less)
    BY <1>1, WFMin, Zenon
  <1>3. ASSUME NEW k \in T
        PROVE  n <= k
    <2>1. <<k, n>> \notin Less
      BY <1>2
    <2> QED
      BY <2>1 DEF Less
  <1> QED
    BY <1>3

\* The loop over the first k numbers leaves their largest, or -1.
LEMMA LargestNumber ==
    ASSUME NEW N \in Nat, NEW f \in [1 .. N -> Int], NEW k \in 0 .. N
    PROVE  \E max \in {f[i] : i \in 1 .. k} \cup {-1} :
             \A value \in {f[i] : i \in 1 .. k} \cup {-1} : value <= max
  <1> DEFINE V(n) == {f[i] : i \in 1 .. n} \cup {-1}
             Has(n) == \E max \in V(n) : \A value \in V(n) : value <= max
             T == {n \in 0 .. N : ~ Has(n)}
  <1> SUFFICES ASSUME T # {}
               PROVE  FALSE
    OBVIOUS
  <1>1. PICK n \in T : \A j \in T : n <= j
    <2>1. T \in SUBSET Nat
      OBVIOUS
    <2> HIDE DEF T
    <2> QED
      BY <2>1, LeastNumber
  <1>2. Has(0)
    OBVIOUS
  <1>3. n \in 1 .. N /\ n - 1 \in 0 .. N
    BY <1>1, <1>2
  <1>4. Has(n - 1)
    <2>1. n - 1 \notin T
      <3> HIDE DEF T
      <3> QED
        BY <1>1, <1>3
    <2> QED
      BY <1>3, <2>1
  <1>5. PICK max \in V(n - 1) : \A value \in V(n - 1) : value <= max
    BY <1>4
  <1>6. V(n) = V(n - 1) \cup {f[n]} /\ max \in Int /\ f[n] \in Int /\ V(n - 1) \subseteq Int
    BY <1>3
  <1> HIDE DEF V
  <1>7. CASE f[n] <= max
    BY <1>1, <1>5, <1>6, <1>7
  <1>8. CASE max < f[n]
    BY <1>1, <1>5, <1>6, <1>8
  <1> QED
    BY <1>6, <1>7, <1>8

\* The number that is announced.
LEMMA MaxNumberFacts ==
    ASSUME TypeOK, NEW given \in [1 .. MAX_CLIENTS -> Int]
    PROVE  /\ MaxNumber(given) \in Int
           /\ \A i \in Slots : given[i] <= MaxNumber(given)
           /\ MaxNumber(given) # -1 => \E i \in Slots : given[i] = MaxNumber(given)
  <1> DEFINE values == {given[i] : i \in Slots} \cup {-1}
             max == CHOOSE m \in values : \A value \in values : value <= m
  <1>1. MAX_CLIENTS \in Nat /\ Len(clients) \in 0 .. MAX_CLIENTS
    BY MaxAssumption DEF TypeOK
  <1>2. \E m \in values : \A value \in values : value <= m
    BY <1>1, LargestNumber DEF Slots
  <1>3. values \subseteq Int
    BY <1>1 DEF Slots
  <1>4. max = MaxNumber(given)
    BY DEF MaxNumber
  <1>5. /\ \A i \in Slots : given[i] \in values
        /\ \A m \in values : m # -1 => \E i \in Slots : given[i] = m
    OBVIOUS
  <1> HIDE DEF values
  <1>6. max \in values /\ \A value \in values : value <= max
    BY <1>2
  <1> QED
    BY <1>3, <1>4, <1>5, <1>6

\* The client whose address is announced.
LEMMA MaxClientFacts ==
    ASSUME TypeOK, NEW given \in [1 .. MAX_CLIENTS -> Int]
    PROVE  /\ MaxClient(given) \in Clients \cup {Nobody}
           /\ MaxClient(given) # Nobody =>
                \E i \in Open : /\ clients[i] = MaxClient(given)
                                /\ given[i] = MaxNumber(given) /\ given[i] # -1
  <1> DEFINE found == {i \in Slots : given[i] = MaxNumber(given) /\ given[i] # -1}
             first == CHOOSE i \in found : \A j \in found : i <= j
  <1>1. MaxClient(given) = IF found = {} \/ clients[first] = Closed THEN Nobody
                           ELSE clients[first]
    BY DEF MaxClient
  <1>2. ASSUME found # {}
        PROVE  first \in found
    <2>1. found \in SUBSET Nat
      BY DEF Slots, TypeOK
    <2> HIDE DEF found
    <2>2. \E i \in found : \A j \in found : i <= j
      BY <2>1, <1>2, LeastNumber
    <2> QED
      BY <2>2
  <1>3. \A i \in Slots : clients[i] \in Clients \cup {Closed}
    BY DEF Slots, TypeOK
  <1> QED
    BY <1>1, <1>2, <1>3 DEF Open

-----------------------------------------------------------------------------
(* Queues and lines.                                                       *)

LEMMA AppendFacts ==
    ASSUME NEW S, NEW s \in Seq(S), NEW e \in S
    PROVE  /\ Append(s, e) \in Seq(S)
           /\ Len(Append(s, e)) = Len(s) + 1
           /\ \A k \in 1 .. Len(s) : Append(s, e)[k] = s[k]
           /\ Append(s, e)[Len(s) + 1] = e
           /\ Append(s, e) # <<>>
  OBVIOUS

LEMMA TailFacts ==
    ASSUME NEW S, NEW s \in Seq(S), s # <<>>
    PROVE  /\ Tail(s) \in Seq(S)
           /\ Len(Tail(s)) = Len(s) - 1
           /\ \A k \in 1 .. Len(s) - 1 : Tail(s)[k] = s[k + 1]
           /\ Head(s) = s[1]
           /\ s[1] \in S
           /\ 1 \in 1 .. Len(s)
  OBVIOUS

LEMMA RestFacts ==
    ASSUME NEW S, NEW s \in Seq(S), NEW n \in 1 .. Len(s)
    PROVE  /\ SubSeq(s, n + 1, Len(s)) \in Seq(S)
           /\ \A k \in 1 .. Len(SubSeq(s, n + 1, Len(s))) :
                SubSeq(s, n + 1, Len(s))[k] = s[k + n] /\ k + n \in 1 .. Len(s)
  OBVIOUS

LEMMA LineAndEnd ==
    ASSUME NEW n, NEW e
    PROVE  Append(<<n>>, e) = <<n, e>>
  <1> DEFINE s == Append(<<n>>, e)
  <1>1. <<n>> \in Seq({n, e}) /\ Len(<<n>>) = 1
    OBVIOUS
  <1>2. s \in Seq({n, e}) /\ Len(s) = 2 /\ s[1] = n /\ s[2] = e
    BY <1>1, AppendFacts
  <1> HIDE DEF s
  <1>3. s = <<n, e>>
    BY <1>2
  <1> QED
    BY <1>3 DEF s

\* What is left of the outbox of a patient client when its number is received.
LEMMA RestOfOne ==
    ASSUME NEW n, NEW e, n # e,
           NEW s \in {<<n>>, <<n, e>>},
           NEW k \in 1 .. Len(s), \A j \in 1 .. k : s[j] # e
    PROVE  SubSeq(s, k + 1, Len(s)) = IF s = <<n>> THEN <<>> ELSE <<e>>
  <1>1. k = 1
    OBVIOUS
  <1>2. CASE s = <<n>>
    BY <1>1, <1>2
  <1>3. CASE s = <<n, e>>
    <2> DEFINE rest == SubSeq(s, 2, 2)
    <2>1. s \in Seq({n, e}) /\ Len(s) = 2 /\ s[2] = e
      BY <1>3
    <2>2. rest \in Seq({n, e}) /\ Len(rest) = 1 /\ rest[1] = e
      BY <2>1
    <2> HIDE DEF rest
    <2>3. rest = <<e>>
      BY <2>2
    <2>4. s # <<n>>
      BY <1>3
    <2> QED
      BY <1>1, <1>3, <2>1, <2>3, <2>4 DEF rest
  <1> QED
    BY <1>2, <1>3

\* A number that is received: of a patient client, the one it typed for this round.
LEMMA Received ==
    ASSUME IInv, NEW i \in 1 .. MAX_CLIENTS, NEW num \in Numbers, Receives(i, num)
    PROVE  /\ i \in Open /\ clients[i] \in Clients /\ running
           /\ clients[i] \in Members(round_number) /\ Typed(clients[i], round_number, num)
           /\ \A d \in Clients \ Patient : \A k \in 1 .. Len(outbox'[d]) :
                outbox'[d][k] \in said[d] \cup {Fin}
           /\ outbox' \in [Clients -> Seq(Numbers \cup {Fin})]
           /\ \A d \in Clients : d # clients[i] => outbox'[d] = outbox[d]
           /\ num \in Int
           /\ ready' = ready \ {i}
           /\ clients[i] \in Patient =>
                /\ num = Given(clients[i], round_number) /\ num # Nothing /\ numbers[i] = -1
                /\ \/ outbox[clients[i]] = <<num>> /\ outbox'[clients[i]] = <<>>
                   \/ outbox[clients[i]] = <<num, Fin>> /\ outbox'[clients[i]] = <<Fin>>
  <1> DEFINE c == clients[i]
  <1>1. running /\ i \in ready /\ i # 0
    BY DEF Receives, Reaches
  <1>2. i \in Open /\ outbox[c] # <<>>
    BY <1>1 DEF IInv, ReadyIsThere
  <1>3. c \in Clients
    BY <1>2 DEF IInv, TypeOK, Open, Slots
  <1>4. outbox[c] \in Seq(Numbers \cup {Fin}) /\ outbox \in [Clients -> Seq(Numbers \cup {Fin})]
    BY <1>3 DEF IInv, TypeOK
  <1>5. PICK n \in 1 .. Len(outbox[c]) :
           /\ \A k \in 1 .. n : outbox[c][k] # Fin
           /\ outbox' = [outbox EXCEPT ![c] = SubSeq(@, n + 1, Len(@))]
    BY DEF Receives
  <1>6. SubSeq(outbox[c], n + 1, Len(outbox[c])) \in Seq(Numbers \cup {Fin})
    BY <1>4, RestFacts
  <1>7. num = Head(outbox[c]) /\ ready' = ready \ {i}
    BY DEF Receives
  <1>8. num \in Int /\ num # Fin
    BY MaxAssumption
  <1>9. ASSUME c \in Patient
        PROVE  /\ num = Given(c, round_number) /\ num # Nothing /\ numbers[i] = -1
               /\ outbox[c] \in {<<num>>, <<num, Fin>>}
    <2>1. i \in Answering
      BY <1>2, <1>9 DEF Answering
    <2>2. outbox[c] \notin {<<>>, <<Fin>>}
      BY <1>2, <1>7, <1>8
    <2>3. /\ Given(c, round_number) # Nothing /\ numbers[i] = -1
          /\ outbox[c] \in {<<Given(c, round_number)>>, <<Given(c, round_number), Fin>>}
      BY <1>1, <2>1, <2>2 DEF IInv, MembersInPlace, InPlace
    <2> QED
      BY <1>7, <2>3
  <1>10. ASSUME c \in Patient
         PROVE  outbox'[c] = IF outbox[c] = <<num>> THEN <<>> ELSE <<Fin>>
    BY <1>3, <1>4, <1>5, <1>8, <1>9, <1>10, RestOfOne
  <1>11. c \in Members(round_number)
    BY <1>2 DEF IInv, CountedWereTyped
  <1>12. ASSUME NEW d \in Clients \ Patient
         PROVE  /\ \A k \in 1 .. Len(outbox'[d]) : outbox'[d][k] \in said[d] \cup {Fin}
                /\ d = c => num \in said[d]
    <2>1. \A k \in 1 .. Len(outbox[d]) : outbox[d][k] \in said[d] \cup {Fin}
      BY DEF IInv, CountedWereTyped
    <2>2. CASE d # c
      BY <1>4, <1>5, <2>1, <2>2
    <2>3. CASE d = c
      <3>1. num = outbox[c][1] /\ 1 \in 1 .. Len(outbox[c])
        BY <1>2, <1>4, <1>7, TailFacts
      <3>2. /\ outbox'[c] = SubSeq(outbox[c], n + 1, Len(outbox[c]))
            /\ \A k \in 1 .. Len(outbox'[c]) :
                 outbox'[c][k] = outbox[c][k + n] /\ k + n \in 1 .. Len(outbox[c])
        <4>1. outbox'[c] = SubSeq(outbox[c], n + 1, Len(outbox[c]))
          BY <1>3, <1>4, <1>5
        <4> QED
          BY <1>4, <4>1, RestFacts
      <3> QED
        BY <1>8, <2>1, <2>3, <3>1, <3>2
    <2> QED
      BY <2>2, <2>3
  <1>13. Typed(c, round_number, num)
    BY <1>3, <1>9, <1>12 DEF Typed
  <1> QED
    BY <1>1, <1>2, <1>3, <1>4, <1>5, <1>6, <1>7, <1>8, <1>9, <1>10, <1>11, <1>12, <1>13

\* The positions that the loop has still to come to.
LEMMA StillReady ==
    ASSUME IInv, NEW i \in 1 .. MAX_CLIENTS, NEW num \in Numbers, Receives(i, num),
           UNCHANGED <<clients, backlog>>
    PROVE  ReadyIsThere'
  <1>1. /\ running /\ ready' = ready \ {i} /\ i \in Open
        /\ \A d \in Clients : d # clients[i] => outbox'[d] = outbox[d]
    BY Received
  <1>2. ASSUME NEW j \in ready \ {i}, j # 0
        PROVE  j \in Open /\ outbox'[clients[j]] # <<>>
    <2>1. j \in Open /\ outbox[clients[j]] # <<>>
      BY <1>1, <1>2 DEF IInv, ReadyIsThere
    <2>2. clients[j] # clients[i] /\ clients[j] \in Clients
      <3>1. clients[j] # clients[i]
        BY <1>1, <1>2, <2>1 DEF IInv, OnePlace
      <3>2. clients \in Seq(Clients \cup {Closed})
        BY DEF IInv, TypeOK
      <3>3. j \in 1 .. Len(clients) /\ clients[j] # Closed
        BY <2>1 DEF Open, Slots
      <3> QED
        BY <3>1, <3>2, <3>3
    <2> QED
      BY <1>1, <2>1, <2>2
  <1>3. 0 \in ready => backlog # <<>>
    BY <1>1 DEF IInv, ReadyIsThere
  <1> QED
    BY <1>1, <1>2, <1>3 DEF ReadyIsThere, Open, Slots

\* What has been typed and counted, where nothing is counted.
LEMMA CountedStay ==
    ASSUME IInv, UNCHANGED <<numbers, round_number, joined, typed, said>>,
           Slots' = Slots, \A i \in Slots : clients'[i] \in {clients[i], Closed},
           \A c \in Clients \ Patient : \A k \in 1 .. Len(outbox'[c]) :
             outbox'[c][k] \in said[c] \cup {Fin}
    PROVE  CountedWereTyped'
  <1>1. \A i \in Open' : clients'[i] \in Members(round_number)'
    BY DEF IInv, CountedWereTyped, Open, Members
  <1>2. ASSUME NEW i \in Slots, numbers[i] # -1
        PROVE  \E c \in Members(round_number)' :
                 Typed(c, round_number, numbers[i])' /\ clients'[i] \in {c, Closed}
    <2>1. PICK c \in Members(round_number) :
             Typed(c, round_number, numbers[i]) /\ clients[i] \in {c, Closed}
      BY <1>2 DEF IInv, CountedWereTyped
    <2>2. c \in Members(round_number)' /\ Typed(c, round_number, numbers[i])'
      BY <2>1 DEF Members, Typed, Given
    <2>3. clients'[i] \in {c, Closed}
      BY <2>1
    <2> QED
      BY <2>2, <2>3
  <1> QED
    BY <1>1, <1>2 DEF CountedWereTyped

-----------------------------------------------------------------------------
(* Each action keeps the invariant: the clients first.                     *)

LEMMA StartsRight == Init => IInv
  <1> SUFFICES ASSUME Init
               PROVE  IInv
    OBVIOUS
  <1>1. TypeOK
    BY MaxAssumption DEF Init, TypeOK
  <1>2. Len(clients) = 0 /\ Len(backlog) = 0 /\ Slots = {} /\ Open = {} /\ Answering = {}
    BY DEF Init, Slots, Open, Answering
  <1>3. OnePlace
    BY <1>2 DEF OnePlace, Init
  <1>4. NobodyIsEarly
    BY MaxAssumption DEF NobodyIsEarly, Init
  <1>5. ReadyIsThere /\ MembersInPlace /\ LeaversInPlace
    BY <1>2, MaxAssumption DEF ReadyIsThere, MembersInPlace, LeaversInPlace, Init
  <1>6. LargestIsAnnounced /\ SomeNumberIsMissing
    BY DEF LargestIsAnnounced, SomeNumberIsMissing, Init
  <1>7. CountedWereTyped
    BY <1>2 DEF CountedWereTyped, Init
  <1> QED
    BY <1>1, <1>3, <1>4, <1>5, <1>6, <1>7 DEF IInv

LEMMA Stuttering ==
    ASSUME IInv, UNCHANGED vars
    PROVE  IInv'
  <1>1. UNCHANGED <<server, backlog, outbox, phase, asked, joined, typed, said>>
    BY DEF vars
  <1>2. Slots' = Slots /\ Open' = Open /\ Answering' = Answering /\ Left' = Left
    BY <1>1 DEF server, Slots, Open, Answering, Left
  <1>3. TypeOK'
    BY <1>1 DEF IInv, TypeOK, server
  <1>4. OnePlace' /\ NobodyIsEarly'
    BY <1>1, <1>2 DEF IInv, OnePlace, NobodyIsEarly, server
  <1>5. running' => ReadyIsThere' /\ MembersInPlace' /\ LeaversInPlace'
    BY <1>1, <1>2 DEF IInv, ReadyIsThere, MembersInPlace, InPlace, LeaversInPlace, Given, Counts,
                      server
  <1>6. LargestIsAnnounced' /\ SomeNumberIsMissing'
    BY <1>1, <1>2 DEF IInv, LargestIsAnnounced, Members, Typed, Given, SomeNumberIsMissing, server
  <1>7. CountedWereTyped'
    BY <1>1, <1>2, CountedStay DEF IInv, CountedWereTyped, server
  <1> QED
    BY <1>3, <1>4, <1>5, <1>6, <1>7 DEF IInv

LEMMA ConnectKeeps ==
    ASSUME IInv, NEW c \in Clients, Connect(c)
    PROVE  IInv'
  <1>1. /\ running /\ phase[c] = "outside"
        /\ phase' = [phase EXCEPT ![c] = "connected"]
        /\ backlog' = Append(backlog, c)
        /\ UNCHANGED <<server, outbox, asked, joined, typed, said>>
    BY DEF Connect
  <1>2. backlog \in Seq(Clients) /\ phase \in [Clients -> {"outside", "connected", "left"}]
    BY DEF IInv, TypeOK
  <1>3. /\ backlog' \in Seq(Clients) /\ Len(backlog') = Len(backlog) + 1
        /\ \A k \in 1 .. Len(backlog) : backlog'[k] = backlog[k]
        /\ backlog'[Len(backlog) + 1] = c
        /\ backlog' # <<>>
    BY <1>1, <1>2, AppendFacts
  <1>4. TypeOK'
    BY <1>1, <1>2, <1>3 DEF IInv, TypeOK, server
  <1>5. Slots' = Slots /\ Open' = Open /\ Answering' = Answering /\ Left' = Left
    BY <1>1 DEF server, Slots, Open, Answering, Left
  <1>6. OnePlace'
    <2>1. /\ joined[c] = 0
          /\ \A i \in Slots : clients[i] # c
          /\ \A j \in 1 .. Len(backlog) : backlog[j] # c
      BY <1>1 DEF IInv, OnePlace
    <2>2. /\ Len(backlog) \in Nat
          /\ \A d \in Clients : d # c => phase'[d] = phase[d]
          /\ phase'[c] # "outside"
      BY <1>1, <1>2
    <2>3. \A i, j \in Open' : clients'[i] = clients'[j] => i = j
      BY <1>1, <1>5 DEF IInv, OnePlace, server
    <2>4. \A k \in 1 .. Len(backlog') : k = Len(backlog) + 1 \/ k \in 1 .. Len(backlog)
      BY <1>3, <2>2
    <2>5. \A i, j \in 1 .. Len(backlog') : backlog'[i] = backlog'[j] => i = j
      BY <1>3, <2>1, <2>4 DEF IInv, OnePlace
    <2>6. \A j \in 1 .. Len(backlog') :
            joined'[backlog'[j]] = 0 /\ \A i \in Slots' : clients'[i] # backlog'[j]
      BY <1>1, <1>3, <1>5, <2>1, <2>4 DEF IInv, OnePlace, server
    <2>7. ASSUME NEW d \in Clients, phase'[d] = "outside"
          PROVE  /\ joined'[d] = 0
                 /\ \A i \in Slots' : clients'[i] # d
                 /\ \A j \in 1 .. Len(backlog') : backlog'[j] # d
      <3>1. d # c /\ phase[d] = "outside"
        BY <2>2, <2>7
      <3>2. /\ joined[d] = 0 /\ \A i \in Slots : clients[i] # d
            /\ \A j \in 1 .. Len(backlog) : backlog[j] # d
        BY <3>1 DEF IInv, OnePlace
      <3> QED
        BY <1>1, <1>3, <1>5, <2>4, <3>1, <3>2 DEF server
    <2> QED
      BY <2>3, <2>5, <2>6, <2>7 DEF OnePlace
  <1>7. NobodyIsEarly'
    <2>1. announced'.round < round_number'
      BY <1>1 DEF IInv, NobodyIsEarly, server
    <2>2. \A d \in Clients : /\ joined'[d] <= asked'[d] /\ asked'[d] <= round_number'
                             /\ phase'[d] = "connected" => running'
      BY <1>1 DEF IInv, NobodyIsEarly, server
    <2>3. ASSUME NEW d \in Patient
          PROVE  /\ \A r \in 1 .. MaxRound : asked'[d] < r => typed'[d][r] = Nothing
                 /\ asked'[d] > 0 => joined'[d] > 0
                 /\ joined'[d] = 0 => outbox'[d] \in {<<>>, <<Fin>>}
                 /\ phase'[d] = "outside" => outbox'[d] = <<>>
                 /\ phase'[d] = "connected" => \A k \in 1 .. Len(outbox'[d]) : outbox'[d][k] # Fin
      <3>1. d \in Clients /\ (d = c \/ phase'[d] = phase[d])
        BY <1>1, <1>2, MaxAssumption
      <3>2. c \in Patient => outbox[c] = <<>>
        BY <1>1 DEF IInv, NobodyIsEarly
      <3> QED
        BY <1>1, <1>2, <3>1, <3>2 DEF IInv, NobodyIsEarly
    <2> QED
      BY <2>1, <2>2, <2>3 DEF NobodyIsEarly
  <1>8. ReadyIsThere' /\ MembersInPlace'
    BY <1>1, <1>3, <1>5 DEF IInv, ReadyIsThere, MembersInPlace, InPlace, Given, Counts,
                            server
  <1>9. LeaversInPlace'
    <2>1. joined[c] = 0
      BY <1>1 DEF IInv, OnePlace
    <2>2. \A d \in Clients : d # c => phase'[d] = phase[d]
      BY <1>1, <1>2
    <2> QED
      BY <1>1, <1>5, <2>1, <2>2, MaxAssumption DEF IInv, LeaversInPlace, Given, Counts, server
  <1>10. LargestIsAnnounced' /\ SomeNumberIsMissing'
    BY <1>1, <1>5 DEF IInv, LargestIsAnnounced, Members, Typed, Given, SomeNumberIsMissing, server
  <1>11. CountedWereTyped'
    BY <1>1, <1>5, CountedStay DEF IInv, CountedWereTyped, server
  <1> QED
    BY <1>1, <1>4, <1>6, <1>7, <1>8, <1>9, <1>10, <1>11 DEF IInv

LEMMA LeaveKeeps ==
    ASSUME IInv, NEW c \in Clients, Leave(c)
    PROVE  IInv'
  <1>1. /\ phase[c] = "connected"
        /\ phase' = [phase EXCEPT ![c] = "left"]
        /\ outbox' = [outbox EXCEPT ![c] = Append(@, Fin)]
        /\ UNCHANGED <<server, backlog, asked, joined, typed, said>>
    BY DEF Leave
  <1>2. /\ phase \in [Clients -> {"outside", "connected", "left"}]
        /\ outbox \in [Clients -> Seq(Numbers \cup {Fin})]
    BY DEF IInv, TypeOK
  <1>3. /\ \A d \in Clients : d # c => outbox'[d] = outbox[d] /\ phase'[d] = phase[d]
        /\ outbox'[c] = Append(outbox[c], Fin) /\ phase'[c] = "left"
        /\ outbox'[c] \in Seq(Numbers \cup {Fin}) /\ outbox'[c] # <<>>
    <2>1. /\ \A d \in Clients : d # c => outbox'[d] = outbox[d] /\ phase'[d] = phase[d]
          /\ outbox'[c] = Append(outbox[c], Fin) /\ phase'[c] = "left"
      BY <1>1, <1>2
    <2>2. outbox[c] \in Seq(Numbers \cup {Fin})
      BY <1>2
    <2> QED
      BY <2>1, <2>2, AppendFacts
  <1>4. TypeOK'
    BY <1>1, <1>2, <1>3 DEF IInv, TypeOK, server
  <1>5. Slots' = Slots /\ Open' = Open /\ Answering' = Answering /\ Left' = Left
    BY <1>1 DEF server, Slots, Open, Answering, Left
  <1>6. OnePlace'
    BY <1>1, <1>2, <1>5 DEF IInv, OnePlace, server
  <1>7. ASSUME c \in Patient
        PROVE  /\ outbox[c] = <<>> => outbox'[c] = <<Fin>>
               /\ outbox[c] # <<Fin>>
               /\ \A n : outbox[c] # <<n, Fin>>
               /\ \A n : outbox[c] = <<n>> => outbox'[c] = <<n, Fin>>
    <2>1. \A k \in 1 .. Len(outbox[c]) : outbox[c][k] # Fin
      BY <1>1, <1>7 DEF IInv, NobodyIsEarly
    <2>2. outbox[c] = <<>> => outbox'[c] = <<Fin>>
      BY <1>3
    <2>3. outbox[c] # <<Fin>>
      <3> SUFFICES ASSUME outbox[c] = <<Fin>>
                   PROVE  FALSE
        OBVIOUS
      <3>1. Len(outbox[c]) = 1 /\ outbox[c][1] = Fin
        OBVIOUS
      <3> QED
        BY <2>1, <3>1
    <2>4. ASSUME NEW n
          PROVE  outbox[c] # <<n, Fin>>
      <3> SUFFICES ASSUME outbox[c] = <<n, Fin>>
                   PROVE  FALSE
        OBVIOUS
      <3>1. Len(outbox[c]) = 2 /\ outbox[c][2] = Fin
        OBVIOUS
      <3> QED
        BY <2>1, <3>1
    <2>5. ASSUME NEW n, outbox[c] = <<n>>
          PROVE  outbox'[c] = <<n, Fin>>
      <3>1. Append(<<n>>, Fin) = <<n, Fin>>
        BY LineAndEnd
      <3> QED
        BY <1>3, <2>5, <3>1
    <2> QED
      BY <2>2, <2>3, <2>4, <2>5
  <1>8. NobodyIsEarly'
    <2>1. \A d \in Patient : joined'[d] = 0 => outbox'[d] \in {<<>>, <<Fin>>}
      BY <1>1, <1>3, <1>7, MaxAssumption DEF IInv, NobodyIsEarly
    <2>2. ASSUME NEW d \in Clients, phase'[d] \in {"outside", "connected"}
          PROVE  phase'[d] = phase[d] /\ outbox'[d] = outbox[d]
      BY <1>3, <2>2
    <2>3. \A d \in Clients : /\ joined'[d] <= asked'[d] /\ asked'[d] <= round_number'
                             /\ phase'[d] = "connected" => running'
      BY <1>1, <2>2 DEF IInv, NobodyIsEarly, server
    <2>4. ASSUME NEW d \in Patient
          PROVE  /\ \A r \in 1 .. MaxRound : asked'[d] < r => typed'[d][r] = Nothing
                 /\ asked'[d] > 0 => joined'[d] > 0
                 /\ phase'[d] = "outside" => outbox'[d] = <<>>
                 /\ phase'[d] = "connected" => \A k \in 1 .. Len(outbox'[d]) : outbox'[d][k] # Fin
      <3>1. d \in Clients
        BY MaxAssumption
      <3>2. \A r \in 1 .. MaxRound : asked'[d] < r => typed'[d][r] = Nothing
        BY <1>1 DEF IInv, NobodyIsEarly
      <3>3. asked'[d] > 0 => joined'[d] > 0
        BY <1>1 DEF IInv, NobodyIsEarly
      <3>4. phase'[d] = "outside" => outbox'[d] = <<>>
        BY <2>2, <3>1 DEF IInv, NobodyIsEarly
      <3>5. ASSUME phase'[d] = "connected"
            PROVE  \A k \in 1 .. Len(outbox'[d]) : outbox'[d][k] # Fin
        <4>1. phase[d] = "connected" /\ outbox'[d] = outbox[d]
          BY <2>2, <3>1, <3>5
        <4> QED
          BY <4>1 DEF IInv, NobodyIsEarly
      <3> QED
        BY <3>2, <3>3, <3>4, <3>5
    <2> QED
      BY <1>1, <2>1, <2>3, <2>4 DEF IInv, NobodyIsEarly, server
  <1>9. running => ReadyIsThere'
    <2>1. \A d \in Clients : outbox[d] # <<>> => outbox'[d] # <<>>
      BY <1>3
    <2>2. \A i \in Open : clients[i] \in Clients
      BY DEF IInv, TypeOK, Open, Slots
    <2> QED
      BY <1>1, <1>5, <2>1, <2>2 DEF IInv, ReadyIsThere, server
  <1>10. running => MembersInPlace'
    <2> SUFFICES ASSUME running, NEW i \in Answering
                 PROVE  InPlace(clients[i], i)'
      BY <1>1, <1>5 DEF MembersInPlace, server
    <2> DEFINE d == clients[i]
               n == Given(d, round_number)
    <2>1. InPlace(d, i)
      BY DEF IInv, MembersInPlace
    <2>2. d \in Patient /\ d \in Clients
      BY MaxAssumption DEF Answering
    <2>3. clients' = clients /\ n' = n /\ Counts(i, n)' = Counts(i, n)
      BY <1>1 DEF server, Given, Counts
    <2>4. CASE d # c
      BY <1>1, <1>3, <2>1, <2>2, <2>3, <2>4 DEF InPlace, server
    <2>5. CASE d = c
      <3>1. /\ joined'[d] > 0 /\ asked'[d] = round_number'
            /\ \/ outbox[d] \in {<<>>, <<Fin>>} /\ Counts(i, n)
               \/ n # Nothing /\ outbox[d] \in {<<n>>, <<n, Fin>>} /\ numbers[i] = -1
        BY <1>1, <2>1 DEF InPlace, server
      <3>2. \/ outbox'[d] = <<Fin>> /\ Counts(i, n)
            \/ n # Nothing /\ outbox'[d] = <<n, Fin>> /\ numbers[i] = -1
        <4> HIDE DEF n
        <4> QED
          BY <1>7, <2>2, <2>5, <3>1
      <3> QED
        BY <1>1, <2>3, <3>1, <3>2 DEF InPlace, server
    <2> QED
      BY <2>4, <2>5
  <1>11. running => LeaversInPlace'
    <2>1. \A d \in Clients : phase[d] = "left" => phase'[d] = "left"
      BY <1>3
    <2> QED
      BY <1>1, <1>5, <2>1, MaxAssumption DEF IInv, LeaversInPlace, Given, Counts, server
  <1>12. LargestIsAnnounced' /\ SomeNumberIsMissing'
    BY <1>1, <1>5 DEF IInv, LargestIsAnnounced, Members, Typed, Given, SomeNumberIsMissing, server
  <1>13. CountedWereTyped'
    <2> SUFFICES ASSUME NEW d \in Clients \ Patient, NEW k \in 1 .. Len(outbox'[d])
                 PROVE  outbox'[d][k] \in said[d] \cup {Fin}
      BY <1>1, <1>5, CountedStay DEF server
    <2>1. \A j \in 1 .. Len(outbox[d]) : outbox[d][j] \in said[d] \cup {Fin}
      BY DEF IInv, CountedWereTyped
    <2>2. CASE d # c
      BY <1>3, <2>1, <2>2
    <2>3. CASE d = c
      BY <1>2, <1>3, <2>1, <2>3, AppendFacts
    <2> QED
      BY <2>2, <2>3
  <1> QED
    BY <1>1, <1>4, <1>6, <1>8, <1>9, <1>10, <1>11, <1>12, <1>13 DEF IInv, server

\* A patient client that may type is at a position, and its outbox is empty.
LEMMA MayType ==
    ASSUME IInv, NEW c \in Patient, NEW n \in Numbers, Type(c, n)
    PROVE  /\ running /\ joined[c] > 0 /\ outbox[c] = <<>>
           /\ asked[c] = round_number /\ round_number \in 1 .. MaxRound
           /\ \A i \in Slots : clients[i] = c => numbers[i] = -1
  <1>1. /\ phase[c] = "connected" /\ asked[c] > 0 /\ asked[c] <= MaxRound
        /\ typed[c][asked[c]] = Nothing
    BY DEF Type
  <1>2. c \in Clients /\ asked[c] \in Nat /\ round_number \in Nat /\ MaxRound \in Nat
    BY MaxAssumption DEF IInv, TypeOK
  <1>3. running /\ joined[c] > 0
    BY <1>1, <1>2 DEF IInv, NobodyIsEarly
  <1>4. ASSUME NEW i \in Slots, clients[i] = c
        PROVE  asked[c] = round_number /\ outbox[c] = <<>> /\ numbers[i] = -1
    <2>1. i \in Answering /\ InPlace(c, i)
      BY <1>2, <1>3, <1>4, MaxAssumption DEF IInv, MembersInPlace, Answering, Open
    <2>2. asked[c] = round_number
      BY <2>1 DEF InPlace
    <2>3. Given(c, round_number) = Nothing
      BY <1>1, <1>2, <2>2 DEF Given
    <2>4. outbox[c] \in {<<>>, <<Fin>>} /\ numbers[i] = -1
      BY <2>1, <2>3 DEF InPlace, Counts
    <2>5. outbox[c] # <<Fin>>
      <3> SUFFICES ASSUME outbox[c] = <<Fin>>
                   PROVE  FALSE
        OBVIOUS
      <3>1. Len(outbox[c]) = 1 /\ outbox[c][1] = Fin
        OBVIOUS
      <3> QED
        BY <1>1, <3>1 DEF IInv, NobodyIsEarly
    <2> QED
      BY <2>2, <2>4, <2>5
  <1>5. \E i \in Slots : clients[i] = c
    BY <1>1, <1>3 DEF IInv, LeaversInPlace
  <1> QED
    BY <1>1, <1>2, <1>3, <1>4, <1>5

LEMMA TypeKeeps ==
    ASSUME IInv, NEW c \in Clients, NEW n \in Numbers, Type(c, n)
    PROVE  IInv'
  <1>1. /\ phase[c] = "connected"
        /\ outbox' = [outbox EXCEPT ![c] = Append(@, n)]
        /\ typed' = IF c \in Patient THEN [typed EXCEPT ![c][asked[c]] = n] ELSE typed
        /\ said' = IF c \in Patient THEN said ELSE [said EXCEPT ![c] = @ \cup {n}]
        /\ UNCHANGED <<server, backlog, phase, asked, joined>>
    BY DEF Type
  <1>2. /\ outbox \in [Clients -> Seq(Numbers \cup {Fin})]
        /\ typed \in [Patient -> [1 .. MaxRound -> Numbers \cup {Nothing}]]
        /\ said \in [Clients \ Patient -> SUBSET Numbers]
        /\ n \in Int /\ n # Fin /\ n # Nothing
    BY MaxAssumption DEF IInv, TypeOK
  <1>3. /\ \A d \in Clients : d # c => outbox'[d] = outbox[d]
        /\ outbox'[c] = Append(outbox[c], n)
        /\ outbox'[c] \in Seq(Numbers \cup {Fin}) /\ outbox'[c] # <<>>
    BY <1>1, <1>2, AppendFacts
  <1>4. ASSUME c \in Patient
        PROVE  /\ running /\ joined[c] > 0 /\ outbox[c] = <<>>
               /\ asked[c] = round_number /\ round_number \in 1 .. MaxRound
               /\ \A i \in Slots : clients[i] = c => numbers[i] = -1
    BY <1>4, MayType
  <1>5. ASSUME c \in Patient
        PROVE  /\ outbox'[c] = <<n>>
               /\ typed'[c][round_number] = n
               /\ \A r \in 1 .. MaxRound : r # round_number => typed'[c][r] = typed[c][r]
    <2>1. Append(<<>>, n) = <<n>>
      OBVIOUS
    <2> QED
      BY <1>1, <1>2, <1>3, <1>4, <1>5, <2>1
  <1>6. \A d \in Patient : d # c => typed'[d] = typed[d]
    BY <1>1, <1>2
  <1>7. TypeOK'
    <2>1. typed' \in [Patient -> [1 .. MaxRound -> Numbers \cup {Nothing}]]
      BY <1>1, <1>2
    <2>2. outbox' \in [Clients -> Seq(Numbers \cup {Fin})]
      BY <1>1, <1>2, <1>3
    <2>3. said' \in [Clients \ Patient -> SUBSET Numbers]
      BY <1>1, <1>2
    <2> QED
      BY <1>1, <2>1, <2>2, <2>3 DEF IInv, TypeOK, server
  <1>8. Slots' = Slots /\ Open' = Open /\ Answering' = Answering /\ Left' = Left
    BY <1>1 DEF server, Slots, Open, Answering, Left
  <1>9. OnePlace'
    BY <1>1, <1>8 DEF IInv, OnePlace, server
  <1>10. NobodyIsEarly'
    <2>1. \A d \in Clients : /\ joined'[d] <= asked'[d] /\ asked'[d] <= round_number'
                             /\ phase'[d] = "connected" => running'
      BY <1>1 DEF IInv, NobodyIsEarly, server
    <2>2. ASSUME NEW d \in Patient
          PROVE  /\ \A r \in 1 .. MaxRound : asked'[d] < r => typed'[d][r] = Nothing
                 /\ asked'[d] > 0 => joined'[d] > 0
                 /\ joined'[d] = 0 => outbox'[d] \in {<<>>, <<Fin>>}
                 /\ phase'[d] = "outside" => outbox'[d] = <<>>
                 /\ phase'[d] = "connected" => \A k \in 1 .. Len(outbox'[d]) : outbox'[d][k] # Fin
      <3>1. CASE d # c
        <4>1. d \in Clients
          BY MaxAssumption
        <4>2. outbox'[d] = outbox[d] /\ typed'[d] = typed[d]
          BY <1>3, <1>6, <3>1, <4>1
        <4>3. phase'[d] = phase[d] /\ asked'[d] = asked[d] /\ joined'[d] = joined[d]
          BY <1>1
        <4> QED
          BY <4>2, <4>3 DEF IInv, NobodyIsEarly
      <3>2. CASE d = c
        <4>1. \A r \in 1 .. MaxRound : asked'[d] < r => typed'[d][r] = Nothing
          BY <1>1, <1>4, <1>5, <3>2 DEF IInv, NobodyIsEarly
        <4>2. joined'[d] > 0 /\ joined'[d] # 0
          BY <1>1, <1>4, <3>2
        <4>3. \A k \in 1 .. Len(outbox'[d]) : outbox'[d][k] # Fin
          BY <1>2, <1>5, <3>2
        <4>4. phase'[d] # "outside"
          BY <1>1, <3>2
        <4> QED
          BY <4>1, <4>2, <4>3, <4>4
      <3> QED
        BY <3>1, <3>2
    <2> QED
      BY <1>1, <2>1, <2>2 DEF IInv, NobodyIsEarly, server
  <1>11. running => ReadyIsThere'
    <2>1. \A d \in Clients : outbox[d] # <<>> => outbox'[d] # <<>>
      BY <1>3
    <2>2. \A i \in Open : clients[i] \in Clients
      BY DEF IInv, TypeOK, Open, Slots
    <2> QED
      BY <1>1, <1>8, <2>1, <2>2 DEF IInv, ReadyIsThere, server
  <1>12. running => MembersInPlace'
    <2> SUFFICES ASSUME running, NEW i \in Answering
                 PROVE  InPlace(clients[i], i)'
      BY <1>1, <1>8 DEF MembersInPlace, server
    <2> DEFINE d == clients[i]
    <2>1. InPlace(d, i)
      BY DEF IInv, MembersInPlace
    <2>2. d \in Patient /\ d \in Clients /\ i \in Slots
      BY MaxAssumption DEF Answering, Open
    <2>3. CASE d # c
      <3>1. outbox'[d] = outbox[d] /\ typed'[d] = typed[d]
        BY <1>3, <1>6, <2>2, <2>3
      <3> QED
        BY <1>1, <2>1, <3>1 DEF InPlace, Given, Counts, server
    <2>4. CASE d = c
      <3>1. Given(d, round_number)' = n /\ numbers'[i] = -1 /\ outbox'[d] = <<n>>
        BY <1>1, <1>4, <1>5, <2>2, <2>4 DEF Given, server
      <3>2. joined'[d] > 0 /\ asked'[d] = round_number'
        BY <1>1, <2>1 DEF InPlace, server
      <3> QED
        BY <1>1, <1>2, <3>1, <3>2 DEF InPlace, server
    <2> QED
      BY <2>3, <2>4
  <1>13. running => LeaversInPlace'
    <2>1. \A d \in Patient : phase[d] = "left" => typed'[d] = typed[d]
      BY <1>1, <1>6
    <2> QED
      BY <1>1, <1>8, <2>1 DEF IInv, LeaversInPlace, Given, Counts, server
  <1>14. \A d \in Clients \ Patient : said[d] \subseteq said'[d] /\ (d = c => n \in said'[d])
    BY <1>1, <1>2
  <1>15. ASSUME NEW d \in Patient, NEW r, Given(d, r) # Nothing
         PROVE  Given(d, r)' = Given(d, r)
    <2>1. CASE d # c
      BY <1>6, <2>1 DEF Given
    <2>2. CASE d = c
      <3>1. typed[c][asked[c]] = Nothing /\ asked[c] = round_number
        BY <1>4, <2>2 DEF Type
      <3>2. r # round_number
        BY <1>15, <2>2, <3>1 DEF Given
      <3> QED
        BY <1>5, <2>2, <3>2 DEF Given
    <2> QED
      BY <2>1, <2>2
  <1>16. ASSUME NEW d \in Clients, NEW r, NEW m, m # Nothing, Typed(d, r, m)
         PROVE  Typed(d, r, m)'
    BY <1>14, <1>15, <1>16 DEF Typed
  <1>17. LargestIsAnnounced'
    <2>1. PICK r \in Nat : r = announced.round
      BY DEF IInv, TypeOK
    <2>2. PICK max \in Int : max = announced.max
      BY DEF IInv, TypeOK
    <2>3. PICK from : from = announced.from
      OBVIOUS
    <2>4. announced' = announced /\ Members(r)' = Members(r) /\ max # Nothing
      BY <1>1, MaxAssumption DEF server, Members
    <2>5. ASSUME r > 0
          PROVE  /\ \A d \in Members(r) \cap Patient : Given(d, r) # Nothing /\ Given(d, r) <= max
                 /\ max # -1 => \E d \in Members(r) : Typed(d, r, max)
                 /\ from # Nobody => max # -1 /\ from \in Members(r) /\ Typed(from, r, max)
      BY <2>1, <2>2, <2>3, <2>5 DEF IInv, LargestIsAnnounced
    <2>6. ASSUME r > 0, NEW d \in Members(r) \cap Patient
          PROVE  Given(d, r)' # Nothing /\ Given(d, r)' <= max
      BY <1>15, <2>5, <2>6
    <2>7. \A d \in Members(r) : Typed(d, r, max) => Typed(d, r, max)'
      BY <1>16, <2>4 DEF Members
    <2> QED
      BY <2>1, <2>2, <2>3, <2>4, <2>5, <2>6, <2>7 DEF LargestIsAnnounced
  <1>18. CountedWereTyped'
    <2>1. ASSUME NEW d \in Clients \ Patient, NEW k \in 1 .. Len(outbox'[d])
          PROVE  outbox'[d][k] \in said'[d] \cup {Fin}
      <3>1. \A j \in 1 .. Len(outbox[d]) : outbox[d][j] \in said'[d] \cup {Fin}
        BY <1>14 DEF IInv, CountedWereTyped
      <3>2. CASE d # c
        BY <1>3, <2>1, <3>1, <3>2
      <3>3. CASE d = c
        <4>1. outbox[c] \in Seq(Numbers \cup {Fin}) /\ n \in said'[c]
          BY <1>2, <1>14, <3>3
        <4>2. /\ outbox'[c] = Append(outbox[c], n) /\ Len(outbox'[c]) = Len(outbox[c]) + 1
              /\ \A j \in 1 .. Len(outbox[c]) : outbox'[c][j] = outbox[c][j]
              /\ outbox'[c][Len(outbox[c]) + 1] = n
          BY <1>3, <4>1, AppendFacts
        <4>3. k \in 1 .. Len(outbox[c]) \/ k = Len(outbox[c]) + 1
          BY <3>3, <4>1, <4>2
        <4> QED
          BY <3>1, <3>3, <4>1, <4>2, <4>3
      <3> QED
        BY <3>2, <3>3
    <2>2. \A i \in Open' : clients'[i] \in Members(round_number)'
      BY <1>1, <1>8 DEF IInv, CountedWereTyped, Members, server
    <2>3. ASSUME NEW i \in Slots, numbers[i] # -1
          PROVE  \E d \in Members(round_number)' :
                   Typed(d, round_number, numbers[i])' /\ clients'[i] \in {d, Closed}
      <3>1. PICK d \in Members(round_number) :
              Typed(d, round_number, numbers[i]) /\ clients[i] \in {d, Closed}
        BY <2>3 DEF IInv, CountedWereTyped
      <3>2. PICK m \in Int : m = numbers[i]
        <4>1. i \in 1 .. MAX_CLIENTS
          BY MaxAssumption DEF IInv, TypeOK, Slots
        <4> QED
          BY <4>1 DEF IInv, TypeOK
      <3>3. PICK r : r = round_number
        OBVIOUS
      <3>4. d \in Clients /\ m # Nothing /\ Typed(d, r, m)
        BY <3>1, <3>2, <3>3, MaxAssumption DEF Members
      <3>5. Typed(d, r, m)'
        BY <1>16, <3>4
      <3>6. round_number' = r /\ numbers'[i] = m /\ Members(r)' = Members(r)
        BY <1>1, <3>2, <3>3 DEF server, Members
      <3>7. Typed(d, round_number, numbers[i])' /\ d \in Members(round_number)'
        BY <3>1, <3>3, <3>5, <3>6 DEF Members, Typed, Given
      <3> QED
        BY <1>1, <3>1, <3>7 DEF server
    <2> QED
      BY <1>1, <1>8, <2>1, <2>2, <2>3 DEF CountedWereTyped, server
  <1>19. SomeNumberIsMissing'
    BY <1>1, <1>8 DEF IInv, SomeNumberIsMissing, server
  <1> QED
    BY <1>1, <1>7, <1>9, <1>10, <1>11, <1>12, <1>13, <1>17, <1>18, <1>19 DEF IInv, server

-----------------------------------------------------------------------------
(* The server's actions.                                                   *)

LEMMA SelectKeeps ==
    ASSUME IInv, Select
    PROVE  IInv'
  <1>1. /\ ready' = Readable
        /\ UNCHANGED <<running, clients, numbers, round_number, announced, backlog, outbox,
                       phase, asked, joined, typed, said>>
    BY DEF Select
  <1>2. Slots' = Slots /\ Open' = Open /\ Answering' = Answering /\ Left' = Left
    BY <1>1 DEF Slots, Open, Answering, Left
  <1>3. TypeOK'
    <2>1. Readable \subseteq 0 .. MAX_CLIENTS
      <3>1. Len(clients) \in 0 .. MAX_CLIENTS /\ MAX_CLIENTS \in Nat
        BY MaxAssumption DEF IInv, TypeOK
      <3>2. Open \subseteq 1 .. MAX_CLIENTS
        BY <3>1 DEF Open, Slots
      <3>3. Readable \subseteq Open \cup {0}
        BY DEF Readable
      <3> QED
        BY <3>1, <3>2, <3>3
    <2> QED
      BY <1>1, <2>1 DEF IInv, TypeOK
  <1>4. OnePlace' /\ NobodyIsEarly'
    BY <1>1, <1>2 DEF IInv, OnePlace, NobodyIsEarly
  <1>5. ReadyIsThere'
    <2>1. 0 \notin Open
      BY DEF Open, Slots
    <2> QED
      BY <1>1, <1>2, <2>1 DEF ReadyIsThere, Readable
  <1>6. running => MembersInPlace' /\ LeaversInPlace'
    BY <1>1, <1>2 DEF IInv, MembersInPlace, InPlace, LeaversInPlace, Given, Counts
  <1>7. LargestIsAnnounced' /\ SomeNumberIsMissing'
    BY <1>1, <1>2 DEF IInv, LargestIsAnnounced, Members, Typed, Given, SomeNumberIsMissing
  <1>8. CountedWereTyped'
    BY <1>1, <1>2, CountedStay DEF IInv, CountedWereTyped
  <1> QED
    BY <1>1, <1>3, <1>4, <1>5, <1>6, <1>7, <1>8 DEF IInv

\* The first of the backlog has not been accepted before.
LEMMA NewClient ==
    ASSUME IInv, Accept
    PROVE  /\ backlog \in Seq(Clients) /\ backlog # <<>> /\ Head(backlog) \in Clients
           /\ running /\ joined[Head(backlog)] = 0
           /\ phase[Head(backlog)] # "outside"
           /\ \A i \in Slots : clients[i] # Head(backlog)
           /\ backlog' = Tail(backlog)
           /\ \A j \in 1 .. Len(backlog') : backlog'[j] = backlog[j + 1] /\ j + 1 \in 2 .. Len(backlog)
           /\ Len(backlog') = Len(backlog) - 1 /\ Len(backlog) \in Nat
           /\ backlog' \in Seq(Clients)
  <1>1. running /\ 0 \in ready /\ backlog' = Tail(backlog)
    BY DEF Accept
  <1>2. backlog \in Seq(Clients) /\ backlog # <<>>
    BY <1>1 DEF IInv, TypeOK, ReadyIsThere
  <1>3. Head(backlog) = backlog[1] /\ 1 \in 1 .. Len(backlog) /\ backlog[1] \in Clients
    BY <1>2, TailFacts
  <1>4. /\ joined[backlog[1]] = 0
        /\ phase[backlog[1]] # "outside"
        /\ \A i \in Slots : clients[i] # backlog[1]
    BY <1>3 DEF IInv, OnePlace
  <1> QED
    BY <1>1, <1>2, <1>3, <1>4, TailFacts

LEMMA RejectKeeps ==
    ASSUME IInv, Accept, NEW c \in Clients, c = Head(backlog), Reject(c)
    PROVE  IInv'
  <1>1. /\ phase' = [phase EXCEPT ![c] = "left"]
        /\ ready' = ready \ {0}
        /\ UNCHANGED <<running, clients, numbers, round_number, announced, outbox, asked, joined,
                       typed, said>>
    BY DEF Accept, Reject
  <1>2. /\ backlog \in Seq(Clients) /\ running /\ joined[c] = 0
        /\ \A i \in Slots : clients[i] # c
        /\ backlog' \in Seq(Clients)
        /\ \A j \in 1 .. Len(backlog') : backlog'[j] = backlog[j + 1] /\ j + 1 \in 2 .. Len(backlog)
        /\ Len(backlog') = Len(backlog) - 1 /\ Len(backlog) \in Nat
    BY NewClient
  <1>3. phase' \in [Clients -> {"outside", "connected", "left"}]
        /\ \A d \in Clients : phase'[d] = IF d = c THEN "left" ELSE phase[d]
    BY <1>1, <1>2 DEF IInv, TypeOK
  <1>4. TypeOK'
    BY <1>1, <1>2, <1>3 DEF IInv, TypeOK
  <1>5. Slots' = Slots /\ Open' = Open /\ Answering' = Answering /\ Left' = Left
    BY <1>1 DEF Slots, Open, Answering, Left
  <1>6. OnePlace'
    <2>1. \A j \in 1 .. Len(backlog') : j + 1 \in 1 .. Len(backlog) /\ backlog'[j] = backlog[j + 1]
      BY <1>2
    <2>2. ASSUME NEW k \in 1 .. Len(backlog'), NEW j \in 1 .. Len(backlog'),
                 backlog'[k] = backlog'[j]
          PROVE  k = j
      <3>1. /\ k + 1 \in 1 .. Len(backlog) /\ j + 1 \in 1 .. Len(backlog)
            /\ backlog[k + 1] = backlog[j + 1]
        BY <2>1, <2>2
      <3>2. k + 1 = j + 1
        BY <3>1 DEF IInv, OnePlace
      <3> QED
        BY <1>2, <3>2
    <2>3. \A j \in 1 .. Len(backlog') : /\ joined'[backlog'[j]] = 0
                                       /\ \A i \in Slots : clients'[i] # backlog'[j]
      BY <1>1, <2>1 DEF IInv, OnePlace
    <2>4. ASSUME NEW d \in Clients, phase'[d] = "outside"
          PROVE  /\ joined'[d] = 0
                 /\ \A i \in Slots : clients'[i] # d
                 /\ \A j \in 1 .. Len(backlog') : backlog'[j] # d
      <3>1. phase[d] = "outside"
        BY <1>3, <2>4
      <3> QED
        BY <1>1, <2>1, <3>1 DEF IInv, OnePlace
    <2>5. \A k, j \in Open' : clients'[k] = clients'[j] => k = j
      BY <1>1, <1>5 DEF IInv, OnePlace
    <2> QED
      BY <1>5, <2>2, <2>3, <2>4, <2>5 DEF OnePlace
  <1>7. NobodyIsEarly'
    BY <1>1, <1>2, <1>3, MaxAssumption DEF IInv, NobodyIsEarly
  <1>8. ReadyIsThere' /\ MembersInPlace'
    BY <1>1, <1>2, <1>5 DEF IInv, ReadyIsThere, MembersInPlace, InPlace, Given, Counts
  <1>9. LeaversInPlace'
    BY <1>1, <1>2, <1>3, <1>5, MaxAssumption DEF IInv, LeaversInPlace, Given, Counts
  <1>10. LargestIsAnnounced' /\ SomeNumberIsMissing'
    BY <1>1, <1>5 DEF IInv, LargestIsAnnounced, Members, Typed, Given, SomeNumberIsMissing
  <1>11. CountedWereTyped'
    BY <1>1, <1>5, CountedStay DEF IInv, CountedWereTyped
  <1> QED
    BY <1>4, <1>6, <1>7, <1>8, <1>9, <1>10, <1>11 DEF IInv

LEMMA AddKeeps ==
    ASSUME IInv, Accept, NEW c \in Clients, c = Head(backlog), Add(c),
           NEW new, new = Len(clients) + 1
    PROVE  IInv'
  <1>1. /\ Len(clients) < MAX_CLIENTS
        /\ clients' = Append(clients, c)
        /\ numbers' = [numbers EXCEPT ![new] = -1]
        /\ asked' = [asked EXCEPT ![c] = round_number]
        /\ joined' = [joined EXCEPT ![c] = round_number]
        /\ ready' = ready \ {0}
        /\ UNCHANGED <<running, round_number, announced, outbox, phase, typed, said>>
    BY DEF Accept, Add
  <1>2. /\ backlog \in Seq(Clients) /\ running /\ joined[c] = 0
        /\ phase[c] # "outside"
        /\ \A i \in Slots : clients[i] # c
        /\ backlog' \in Seq(Clients)
        /\ \A j \in 1 .. Len(backlog') : backlog'[j] = backlog[j + 1] /\ j + 1 \in 2 .. Len(backlog)
        /\ Len(backlog') = Len(backlog) - 1 /\ Len(backlog) \in Nat
        /\ c = backlog[1] /\ 1 \in 1 .. Len(backlog)
    BY NewClient, TailFacts
  <1>3. /\ clients \in Seq(Clients \cup {Closed}) /\ Len(clients) \in Nat /\ MAX_CLIENTS \in Nat
        /\ numbers \in [1 .. MAX_CLIENTS -> Int]
        /\ asked \in [Clients -> Nat] /\ joined \in [Clients -> Nat]
        /\ round_number \in Nat \ {0} /\ c # Closed /\ announced.round \in Nat
    <2>1. c # Closed /\ MAX_CLIENTS \in Nat
      BY MaxAssumption
    <2>2. announced.round \in Nat
      BY DEF IInv, TypeOK
    <2>3. clients \in Seq(Clients \cup {Closed}) /\ Len(clients) \in Nat
      BY DEF IInv, TypeOK
    <2>4. /\ numbers \in [1 .. MAX_CLIENTS -> Int] /\ round_number \in Nat \ {0}
          /\ asked \in [Clients -> Nat] /\ joined \in [Clients -> Nat]
      BY DEF IInv, TypeOK
    <2> QED
      BY <2>1, <2>2, <2>3, <2>4
  <1>4. /\ clients' \in Seq(Clients \cup {Closed}) /\ Len(clients') = new
        /\ \A i \in Slots : clients'[i] = clients[i]
        /\ clients'[new] = c
    BY <1>1, <1>2, <1>3, AppendFacts DEF Slots
  <1>5. /\ \A i \in Slots : numbers'[i] = numbers[i]
        /\ numbers'[new] = -1
        /\ \A d \in Clients : d # c => asked'[d] = asked[d] /\ joined'[d] = joined[d]
        /\ asked'[c] = round_number /\ joined'[c] = round_number
    <2>1. new \in 1 .. MAX_CLIENTS /\ \A i \in Slots : i \in 1 .. MAX_CLIENTS /\ i # new
      BY <1>1, <1>3 DEF Slots
    <2>2. numbers'[new] = -1 /\ \A i \in Slots : numbers'[i] = numbers[i]
      BY <1>1, <1>3, <2>1
    <2>3. /\ \A d \in Clients : d # c => asked'[d] = asked[d] /\ joined'[d] = joined[d]
          /\ asked'[c] = round_number /\ joined'[c] = round_number
      BY <1>1, <1>3
    <2> QED
      BY <2>2, <2>3
  <1>6. /\ Slots' = Slots \cup {new} /\ new \notin Slots
        /\ Open' = Open \cup {new} /\ Left' = Left
    <2>1. Slots' = Slots \cup {new} /\ new \notin Slots
      BY <1>3, <1>4 DEF Slots
    <2>2. Open' = Open \cup {new}
      BY <1>3, <1>4, <2>1 DEF Open
    <2>3. Left' = Left
      BY <1>3, <1>4, <2>1 DEF Left
    <2> QED
      BY <2>1, <2>2, <2>3
  <1>7. TypeOK'
    <2>1. numbers' \in [1 .. MAX_CLIENTS -> Int]
      BY <1>1, <1>3
    <2>2. asked' \in [Clients -> Nat] /\ joined' \in [Clients -> Nat]
      BY <1>1, <1>3
    <2>3. Len(clients') <= MAX_CLIENTS
      BY <1>1, <1>3, <1>4
    <2>4. ready \subseteq 0 .. MAX_CLIENTS
      BY DEF IInv, TypeOK
    <2>5. ready' \subseteq 0 .. MAX_CLIENTS
      BY <1>1, <2>4
    <2> QED
      BY <1>1, <1>2, <1>4, <2>1, <2>2, <2>3, <2>5 DEF IInv, TypeOK
  <1>8. OnePlace'
    <2>1. \A i, j \in Open' : clients'[i] = clients'[j] => i = j
      <3>1. \A i, j \in Open : clients[i] = clients[j] => i = j
        BY DEF IInv, OnePlace
      <3>2. \A i \in Slots : clients[i] # c
        BY <1>2 DEF IInv, OnePlace
      <3>3. \A i \in Open : clients'[i] = clients[i] /\ clients'[i] # c
        BY <1>4, <3>2 DEF Open
      <3> QED
        BY <1>4, <1>6, <3>1, <3>3
    <2>2. \A i, j \in 1 .. Len(backlog') : backlog'[i] = backlog'[j] => i = j
      <3>1. \A j \in 1 .. Len(backlog') : j + 1 \in 1 .. Len(backlog) /\ backlog'[j] = backlog[j + 1]
        BY <1>2
      <3> QED
        BY <3>1 DEF IInv, OnePlace
    <2>3. ASSUME NEW j \in 1 .. Len(backlog')
          PROVE  /\ joined'[backlog'[j]] = 0
                 /\ \A i \in Slots' : clients'[i] # backlog'[j]
      <3>1. /\ backlog'[j] = backlog[j + 1] /\ j + 1 \in 1 .. Len(backlog) /\ j + 1 # 1
            /\ backlog[j + 1] \in Clients
        BY <1>2
      <3>2. backlog'[j] # c
        BY <1>2, <3>1 DEF IInv, OnePlace
      <3> QED
        BY <1>4, <1>5, <1>6, <3>1, <3>2 DEF IInv, OnePlace
    <2>4. ASSUME NEW d \in Clients, phase'[d] = "outside"
          PROVE  /\ joined'[d] = 0
                 /\ \A i \in Slots' : clients'[i] # d
                 /\ \A j \in 1 .. Len(backlog') : backlog'[j] # d
      <3>1. d # c /\ phase[d] = "outside"
        BY <1>1, <1>2, <2>4
      <3>2. joined'[d] = 0
        BY <1>5, <3>1 DEF IInv, OnePlace
      <3>3. \A i \in Slots' : clients'[i] # d
        BY <1>4, <1>6, <3>1 DEF IInv, OnePlace
      <3>4. \A j \in 1 .. Len(backlog') : backlog'[j] # d
        <4>1. \A j \in 1 .. Len(backlog') : j + 1 \in 1 .. Len(backlog)
          BY <1>2
        <4> QED
          BY <1>2, <3>1, <4>1 DEF IInv, OnePlace
      <3> QED
        BY <3>2, <3>3, <3>4
    <2> QED
      BY <2>1, <2>2, <2>3, <2>4 DEF OnePlace
  <1>9. NobodyIsEarly'
    <2>1. \A d \in Clients : /\ joined'[d] <= asked'[d] /\ asked'[d] <= round_number'
                             /\ phase'[d] = "connected" => running'
      BY <1>1, <1>3, <1>5 DEF IInv, NobodyIsEarly
    <2>2. ASSUME NEW d \in Patient
          PROVE  /\ \A r \in 1 .. MaxRound : asked'[d] < r => typed'[d][r] = Nothing
                 /\ asked'[d] > 0 => joined'[d] > 0
                 /\ joined'[d] = 0 => outbox'[d] \in {<<>>, <<Fin>>}
                 /\ phase'[d] = "outside" => outbox'[d] = <<>>
                 /\ phase'[d] = "connected" => \A k \in 1 .. Len(outbox'[d]) : outbox'[d][k] # Fin
      <3>1. d \in Clients /\ asked[d] \in Nat /\ asked'[d] \in Nat /\ asked[d] <= asked'[d]
        <4>1. d \in Clients
          BY MaxAssumption
        <4>2. asked[d] <= round_number
          BY <4>1 DEF IInv, NobodyIsEarly
        <4>3. asked[d] \in Nat /\ round_number \in Nat
          BY <1>3, <4>1
        <4>4. asked'[d] = asked[d] \/ asked'[d] = round_number
          BY <1>5, <4>1
        <4> QED
          BY <4>1, <4>2, <4>3, <4>4
      <3>2. \A r \in 1 .. MaxRound : asked'[d] < r => typed'[d][r] = Nothing
        <4>1. \A r \in 1 .. MaxRound : asked'[d] < r => asked[d] < r
          BY <3>1, MaxAssumption
        <4> QED
          BY <1>1, <4>1 DEF IInv, NobodyIsEarly
      <3>3. asked'[d] > 0 => joined'[d] > 0
        BY <1>3, <1>5, <3>1 DEF IInv, NobodyIsEarly
      <3>4. joined'[d] = 0 => outbox'[d] \in {<<>>, <<Fin>>}
        BY <1>1, <1>3, <1>5, <3>1 DEF IInv, NobodyIsEarly
      <3>5. /\ phase'[d] = "outside" => outbox'[d] = <<>>
            /\ phase'[d] = "connected" => \A k \in 1 .. Len(outbox'[d]) : outbox'[d][k] # Fin
        BY <1>1 DEF IInv, NobodyIsEarly
      <3> QED
        BY <3>2, <3>3, <3>4, <3>5
    <2>3. announced'.round < round_number'
      BY <1>1 DEF IInv, NobodyIsEarly
    <2> QED
      BY <2>1, <2>2, <2>3, Zenon DEF NobodyIsEarly
  <1>10. ReadyIsThere'
    <2>1. \A i \in Open : i \in Open' /\ clients'[i] = clients[i]
      BY <1>4, <1>6 DEF Open
    <2>2. ready \ {0} \subseteq {i \in Open : outbox[clients[i]] # <<>>}
      BY <1>2 DEF IInv, ReadyIsThere
    <2> QED
      BY <1>1, <2>1, <2>2 DEF ReadyIsThere
  <1>11. MembersInPlace'
    <2> SUFFICES ASSUME NEW i \in Answering'
                 PROVE  InPlace(clients[i], i)'
      BY DEF MembersInPlace
    <2>1. CASE i \in Slots
      <3>1. i \in Answering /\ clients'[i] = clients[i] /\ clients[i] # c /\ clients[i] \in Clients
        BY <1>2, <1>4, <2>1, MaxAssumption DEF Answering, Open
      <3>2. InPlace(clients[i], i)
        BY <1>2, <3>1 DEF IInv, MembersInPlace
      <3>3. /\ joined'[clients[i]] = joined[clients[i]] /\ asked'[clients[i]] = asked[clients[i]]
            /\ numbers'[i] = numbers[i]
        BY <1>5, <2>1, <3>1
      <3>4. Given(clients[i], round_number)' = Given(clients[i], round_number)
        BY <1>1, <3>1 DEF Given
      <3> QED
        BY <1>1, <3>1, <3>2, <3>3, <3>4 DEF InPlace, Counts
    <2>2. CASE i = new
      <3>1. clients'[i] = c /\ c \in Patient
        BY <1>4, <2>2 DEF Answering
      <3>2. asked[c] = 0 /\ outbox[c] \in {<<>>, <<Fin>>}
        <4>1. asked[c] > 0 => joined[c] > 0
          BY <3>1 DEF IInv, NobodyIsEarly
        <4>2. joined[c] = 0 => outbox[c] \in {<<>>, <<Fin>>}
          BY <3>1 DEF IInv, NobodyIsEarly
        <4> QED
          BY <1>2, <1>3, <4>1, <4>2
      <3>3. Given(c, round_number) = Nothing
        BY <1>3, <3>1, <3>2 DEF IInv, NobodyIsEarly, Given
      <3>4. Given(c, round_number)' = Given(c, round_number)
        BY <1>1 DEF Given
      <3> QED
        BY <1>1, <1>3, <1>5, <2>2, <3>1, <3>2, <3>3, <3>4 DEF InPlace, Counts
    <2>3. i \in Slots'
      BY DEF Answering, Open
    <2> QED
      BY <1>6, <2>1, <2>2, <2>3
  <1>12. LeaversInPlace'
    <2> SUFFICES ASSUME NEW d \in Patient, joined'[d] > 0, \A i \in Slots' : clients'[i] # d
                 PROVE  phase'[d] = "left" /\ \E i \in Left' : Counts(i, Given(d, round_number))'
      BY DEF LeaversInPlace
    <2>1. d # c /\ d \in Clients
      BY <1>4, <1>6, MaxAssumption
    <2>2. joined[d] > 0 /\ \A i \in Slots : clients[i] # d
      BY <1>4, <1>5, <1>6, <2>1
    <2>3. phase[d] = "left" /\ \E i \in Left : Counts(i, Given(d, round_number))
      BY <1>2, <2>2 DEF IInv, LeaversInPlace
    <2>4. PICK k \in Left : Counts(k, Given(d, round_number))
      BY <2>3
    <2>5. k \in Left' /\ numbers'[k] = numbers[k]
      BY <1>5, <1>6, <2>4 DEF Left
    <2>6. Given(d, round_number)' = Given(d, round_number) /\ phase'[d] = phase[d]
      BY <1>1 DEF Given
    <2>7. Counts(k, Given(d, round_number))'
      BY <2>4, <2>5, <2>6 DEF Counts
    <2> QED
      BY <2>3, <2>5, <2>6, <2>7
  <1>13. LargestIsAnnounced'
    <2>1. announced.round < round_number
      BY DEF IInv, NobodyIsEarly
    <2>2. Members(announced.round)' = Members(announced.round)
      <3>1. joined'[c] \notin 1 .. announced.round /\ joined[c] \notin 1 .. announced.round
        BY <1>2, <1>3, <1>5, <2>1
      <3>2. \A d \in Clients : d # c => joined'[d] = joined[d]
        BY <1>5
      <3> QED
        BY <1>1, <3>1, <3>2 DEF Members
    <2>3. \A d, r, m : Given(d, r)' = Given(d, r) /\ (Typed(d, r, m)' <=> Typed(d, r, m))
      BY <1>1 DEF Given, Typed
    <2> QED
      BY <1>1, <2>2, <2>3 DEF IInv, LargestIsAnnounced
  <1>14. CountedWereTyped'
    <2>1. \A d \in Clients \ Patient : \A k \in 1 .. Len(outbox'[d]) :
            outbox'[d][k] \in said'[d] \cup {Fin}
      BY <1>1 DEF IInv, CountedWereTyped
    <2>2. \A d \in Members(round_number) : d \in Members(round_number)'
      <3>1. \A d \in Clients : joined[d] \in 1 .. round_number => d # c
        BY <1>2
      <3> QED
        BY <1>1, <1>5, <3>1 DEF Members
    <2>3. ASSUME NEW j \in Open'
          PROVE  clients'[j] \in Members(round_number)'
      <3>1. CASE j = new
        <4>1. joined'[c] \in 1 .. round_number
          BY <1>3, <1>5
        <4> QED
          BY <1>1, <1>4, <3>1, <4>1 DEF Members
      <3>2. CASE j # new
        <4>1. j \in Open /\ clients'[j] = clients[j]
          BY <1>4, <1>6, <3>2 DEF Open
        <4> QED
          BY <2>2, <4>1 DEF IInv, CountedWereTyped
      <3> QED
        BY <3>1, <3>2
    <2>4. ASSUME NEW j \in Slots', numbers'[j] # -1
          PROVE  \E d \in Members(round_number)' :
                   Typed(d, round_number, numbers[j])' /\ clients'[j] \in {d, Closed}
      <3>1. j \in Slots /\ numbers'[j] = numbers[j] /\ clients'[j] = clients[j]
        BY <1>4, <1>5, <1>6, <2>4
      <3>2. PICK d \in Members(round_number) :
              Typed(d, round_number, numbers[j]) /\ clients[j] \in {d, Closed}
        BY <2>4, <3>1 DEF IInv, CountedWereTyped
      <3>3. Typed(d, round_number, numbers[j])'
        BY <1>1, <3>1, <3>2 DEF Typed, Given
      <3> QED
        BY <2>2, <3>1, <3>2, <3>3
    <2> QED
      BY <2>1, <2>3, <2>4 DEF CountedWereTyped
  <1>15. SomeNumberIsMissing'
    BY <1>5, <1>6 DEF SomeNumberIsMissing
  <1> QED
    BY <1>7, <1>8, <1>9, <1>10, <1>11, <1>12, <1>13, <1>14, <1>15 DEF IInv

LEMMA AcceptKeeps ==
    ASSUME IInv, Accept
    PROVE  IInv'
  <1>1. Head(backlog) \in Clients
    BY NewClient
  <1>2. Reject(Head(backlog)) \/ Add(Head(backlog))
    BY DEF Accept
  <1> QED
    BY <1>1, <1>2, RejectKeeps, AddKeeps

LEMMA DisconnectKeeps ==
    ASSUME IInv, NEW i \in 1 .. MAX_CLIENTS, Disconnect(i)
    PROVE  IInv'
  <1>1. /\ running /\ i \in ready /\ i # 0
        /\ Head(outbox[clients[i]]) = Fin
        /\ clients' = [clients EXCEPT ![i] = Closed]
        /\ ready' = ready \ {i}
        /\ UNCHANGED <<running, numbers, round_number, announced, backlog, outbox, phase, asked,
                       joined, typed, said>>
    BY DEF Disconnect, Reaches
  <1>2. i \in Open /\ outbox[clients[i]] # <<>>
    BY <1>1 DEF IInv, ReadyIsThere
  <1>3. PICK c \in Clients : c = clients[i]
    BY <1>2 DEF IInv, TypeOK, Open, Slots
  <1>4. /\ clients \in Seq(Clients \cup {Closed}) /\ i \in 1 .. Len(clients)
        /\ Closed \notin Clients
    BY <1>2, MaxAssumption DEF IInv, TypeOK, Open, Slots
  <1>5. /\ clients' \in Seq(Clients \cup {Closed}) /\ Len(clients') = Len(clients)
        /\ \A j \in Slots : clients'[j] = IF j = i THEN Closed ELSE clients[j]
    BY <1>1, <1>4 DEF Slots
  <1>6. /\ Slots' = Slots /\ i \in Slots
        /\ Open' = Open \ {i} /\ Left' = Left \cup {i} /\ Answering' = Answering \ {i}
    <2>1. Slots' = Slots /\ i \in Slots
      BY <1>4, <1>5 DEF Slots
    <2>2. Open' = Open \ {i}
      BY <1>5, <2>1 DEF Open
    <2>3. Left' = Left \cup {i}
      BY <1>5, <2>1 DEF Left
    <2>4. \A j \in Open' : clients'[j] = clients[j]
      BY <1>5, <2>1, <2>2 DEF Open
    <2>5. Answering' = Answering \ {i}
      BY <2>2, <2>4 DEF Answering
    <2> QED
      BY <2>1, <2>2, <2>3, <2>5
  <1>7. TypeOK'
    BY <1>1, <1>5 DEF IInv, TypeOK
  <1>8. OnePlace'
    <2>1. \A j, k \in Open' : clients'[j] = clients'[k] => j = k
      <3>1. \A j \in Open' : j \in Open /\ clients'[j] = clients[j]
        BY <1>5, <1>6 DEF Open
      <3> QED
        BY <3>1 DEF IInv, OnePlace
    <2>2. \A j \in 1 .. Len(backlog) : backlog[j] \in Clients
      BY DEF IInv, TypeOK
    <2>3. \A d \in Clients, k \in Slots : clients[k] # d => clients'[k] # d
      BY <1>4, <1>5
    <2> QED
      BY <1>1, <1>6, <2>1, <2>2, <2>3 DEF IInv, OnePlace
  <1>9. NobodyIsEarly'
    BY <1>1 DEF IInv, NobodyIsEarly
  <1>10. ReadyIsThere'
    <2>1. \A j \in Open' : clients'[j] = clients[j]
      BY <1>5, <1>6 DEF Open
    <2> QED
      BY <1>1, <1>6, <2>1 DEF IInv, ReadyIsThere
  <1>11. MembersInPlace'
    <2> SUFFICES ASSUME NEW j \in Answering'
                 PROVE  InPlace(clients[j], j)'
      BY DEF MembersInPlace
    <2>1. j \in Answering /\ clients'[j] = clients[j]
      BY <1>5, <1>6 DEF Answering, Open
    <2>2. InPlace(clients[j], j)
      BY <1>1, <2>1 DEF IInv, MembersInPlace
    <2> QED
      BY <1>1, <2>1, <2>2 DEF InPlace, Given, Counts
  <1>12. ASSUME c \in Patient
         PROVE  phase[c] = "left" /\ Counts(i, Given(c, round_number))
    <2>1. i \in Answering /\ InPlace(c, i)
      BY <1>1, <1>2, <1>3, <1>12 DEF IInv, MembersInPlace, Answering
    <2>2. outbox[c] \in Seq(Numbers \cup {Fin}) /\ phase[c] \in {"outside", "connected", "left"}
      BY DEF IInv, TypeOK
    <2>3. outbox[c][1] = Fin /\ 1 \in 1 .. Len(outbox[c])
      BY <1>1, <1>2, <1>3, <2>2, TailFacts
    <2>4. phase[c] # "outside"
      BY <1>3, <1>6 DEF IInv, OnePlace
    <2>5. phase[c] # "connected"
      BY <1>12, <2>3 DEF IInv, NobodyIsEarly
    <2>6. ASSUME NEW n, n = Given(c, round_number), n # Nothing
          PROVE  outbox[c] \notin {<<n>>, <<n, Fin>>}
      <3>1. n # Fin
        BY <1>12, <2>6, MaxAssumption DEF IInv, TypeOK, Given
      <3>2. <<n>>[1] = n /\ <<n, Fin>>[1] = n
        OBVIOUS
      <3> QED
        BY <2>3, <3>1, <3>2
    <2>7. Counts(i, Given(c, round_number))
      BY <2>1, <2>6 DEF InPlace
    <2> QED
      BY <2>2, <2>4, <2>5, <2>7
  <1>13. LeaversInPlace'
    <2> SUFFICES ASSUME NEW d \in Patient, joined[d] > 0, \A k \in Slots : clients'[k] # d
                 PROVE  phase[d] = "left" /\ \E k \in Left' : Counts(k, Given(d, round_number))
      BY <1>1, <1>6 DEF LeaversInPlace, Given, Counts
    <2>1. CASE d = c
      BY <1>6, <1>12, <2>1
    <2>2. CASE d # c
      <3>1. \A k \in Slots : clients[k] # d
        BY <1>3, <1>5, <2>2
      <3> QED
        BY <1>1, <1>6, <3>1 DEF IInv, LeaversInPlace
    <2> QED
      BY <2>1, <2>2
  <1>14. LargestIsAnnounced'
    BY <1>1 DEF IInv, LargestIsAnnounced, Members, Typed, Given
  <1>15. SomeNumberIsMissing'
    <2>1. clients # <<>>
      BY <1>4
    <2> QED
      BY <1>1, <1>6, <2>1 DEF IInv, SomeNumberIsMissing
  <1>16. CountedWereTyped'
    BY <1>1, <1>5, <1>6, CountedStay DEF IInv, CountedWereTyped
  <1> QED
    BY <1>7, <1>8, <1>9, <1>10, <1>11, <1>13, <1>14, <1>15, <1>16 DEF IInv

\* What patient clients have in their outboxes after a number is received.
LEMMA LinesAfter ==
    ASSUME IInv, NEW i \in 1 .. MAX_CLIENTS, NEW num \in Numbers, Receives(i, num),
           NEW d \in Patient
    PROVE  /\ joined[d] = 0 => outbox'[d] \in {<<>>, <<Fin>>}
           /\ phase[d] = "outside" => outbox'[d] = <<>>
           /\ phase[d] = "connected" => \A k \in 1 .. Len(outbox'[d]) : outbox'[d][k] # Fin
  <1>1. d \in Clients
    BY MaxAssumption
  <1>2. CASE d # clients[i]
    <2>1. outbox'[d] = outbox[d]
      BY <1>1, <1>2, Received
    <2> QED
      BY <2>1 DEF IInv, NobodyIsEarly
  <1>3. CASE d = clients[i]
    <2>1. /\ i \in Open
          /\ \/ outbox[d] = <<num>> /\ outbox'[d] = <<>>
             \/ outbox[d] = <<num, Fin>> /\ outbox'[d] = <<Fin>>
      BY <1>3, Received
    <2>2. phase[d] # "outside"
      BY <1>1, <1>3, <2>1 DEF IInv, OnePlace, Open
    <2>3. CASE outbox'[d] = <<>>
      BY <2>2, <2>3
    <2>4. CASE outbox[d] = <<num, Fin>> /\ outbox'[d] = <<Fin>>
      <3>1. Len(outbox[d]) = 2 /\ outbox[d][2] = Fin
        BY <2>4
      <3>2. phase[d] # "connected"
        BY <3>1 DEF IInv, NobodyIsEarly
      <3> QED
        BY <2>2, <2>4, <3>2
    <2> QED
      BY <2>1, <2>3, <2>4
  <1> QED
    BY <1>2, <1>3

LEMMA KilledKeeps ==
    ASSUME IInv, NEW i \in 1 .. MAX_CLIENTS, Killed(i)
    PROVE  IInv'
  <1>1. /\ running' = FALSE
        /\ phase' = [c \in Clients |-> IF phase[c] = "connected" THEN "left" ELSE phase[c]]
        /\ UNCHANGED <<clients, numbers, round_number, announced, backlog, asked, joined, typed, said>>
    BY DEF Killed
  <1>2. PICK num \in Numbers : Receives(i, num)
    BY DEF Killed
  <1>3. ready' = ready \ {i} /\ outbox' \in [Clients -> Seq(Numbers \cup {Fin})]
    BY <1>2, Received
  <1>4. Slots' = Slots /\ Open' = Open
    BY <1>1 DEF Slots, Open
  <1>5. TypeOK'
    BY <1>1, <1>3 DEF IInv, TypeOK
  <1>6. \A c \in Clients : phase'[c] # "connected" /\ (phase'[c] = "outside" => phase[c] = "outside")
    BY <1>1
  <1>7. OnePlace'
    BY <1>1, <1>4, <1>6 DEF IInv, OnePlace
  <1>8. NobodyIsEarly'
    <2>1. \A d \in Patient : d \in Clients
      BY MaxAssumption
    <2>2. ASSUME NEW d \in Patient
          PROVE  /\ joined'[d] = 0 => outbox'[d] \in {<<>>, <<Fin>>}
                 /\ phase'[d] = "outside" => outbox'[d] = <<>>
      BY <1>1, <1>2, <1>6, <2>1, LinesAfter
    <2> QED
      BY <1>1, <1>6, <2>1, <2>2 DEF IInv, NobodyIsEarly
  <1>9. LargestIsAnnounced' /\ SomeNumberIsMissing'
    BY <1>1, <1>4 DEF IInv, LargestIsAnnounced, Members, Typed, Given, SomeNumberIsMissing
  <1>10. CountedWereTyped'
    BY <1>1, <1>2, <1>4, CountedStay, Received
  <1> QED
    BY <1>1, <1>5, <1>7, <1>8, <1>9, <1>10 DEF IInv

LEMMA DuplicateKeeps ==
    ASSUME IInv, NEW i \in 1 .. MAX_CLIENTS, Duplicate(i)
    PROVE  IInv'
  <1>1. /\ numbers[i] # -1
        /\ UNCHANGED <<running, clients, numbers, round_number, announced, backlog, phase, asked,
                       joined, typed, said>>
    BY DEF Duplicate
  <1>2. PICK num \in Numbers : Receives(i, num)
    BY DEF Duplicate
  <1>3. /\ ready' = ready \ {i} /\ outbox' \in [Clients -> Seq(Numbers \cup {Fin})]
        /\ clients[i] \notin Patient
        /\ \A d \in Clients : d # clients[i] => outbox'[d] = outbox[d]
    BY <1>1, <1>2, Received
  <1>4. \A d \in Patient : outbox'[d] = outbox[d]
    BY <1>3, MaxAssumption
  <1>5. Slots' = Slots /\ Open' = Open /\ Answering' = Answering /\ Left' = Left
    BY <1>1 DEF Slots, Open, Answering, Left
  <1>6. TypeOK'
    BY <1>1, <1>3 DEF IInv, TypeOK
  <1>7. OnePlace' /\ NobodyIsEarly'
    BY <1>1, <1>4, <1>5 DEF IInv, OnePlace, NobodyIsEarly
  <1>8. ReadyIsThere'
    BY <1>1, <1>2, StillReady
  <1>9. MembersInPlace'
    <2>1. \A j \in Answering : clients[j] \in Patient
      BY DEF Answering
    <2> QED
      BY <1>1, <1>2, <1>4, <1>5, <2>1, Received
         DEF IInv, MembersInPlace, InPlace, Given, Counts
  <1>10. running => LeaversInPlace'
    BY <1>1, <1>5 DEF IInv, LeaversInPlace, Given, Counts
  <1>11. LargestIsAnnounced' /\ SomeNumberIsMissing'
    BY <1>1, <1>5 DEF IInv, LargestIsAnnounced, Members, Typed, Given, SomeNumberIsMissing
  <1>12. CountedWereTyped'
    BY <1>1, <1>2, <1>5, CountedStay, Received
  <1> QED
    BY <1>1, <1>6, <1>7, <1>8, <1>9, <1>10, <1>11, <1>12 DEF IInv

\* The numbers counted with the one that has come were all typed, for this round.
LEMMA AllCounted ==
    ASSUME IInv, NEW i \in 1 .. MAX_CLIENTS, NEW num \in Numbers, Receives(i, num),
           NEW given, given[i] = num, \A j \in Slots : j # i => given[j] = numbers[j],
           NEW j \in Slots, given[j] # -1
    PROVE  \E d \in Members(round_number) :
             Typed(d, round_number, given[j]) /\ clients[j] \in {d, Closed}
  <1>1. CASE j = i
    BY <1>1, Received
  <1>2. CASE j # i
    BY <1>2 DEF IInv, CountedWereTyped
  <1> QED
    BY <1>1, <1>2

LEMMA CollectKeeps ==
    ASSUME IInv, NEW i \in 1 .. MAX_CLIENTS, NEW num \in Numbers, Collect(i, num)
    PROVE  IInv'
  <1>1. /\ Receives(i, num) /\ numbers[i] = -1
        /\ numbers' = [numbers EXCEPT ![i] = num]
        /\ ~ AllReceived(numbers')
        /\ UNCHANGED <<running, clients, round_number, announced, backlog, phase, asked, joined,
                       typed, said>>
    BY DEF Collect
  <1>2. /\ i \in Open /\ clients[i] \in Clients /\ running
        /\ ready' = ready \ {i} /\ outbox' \in [Clients -> Seq(Numbers \cup {Fin})]
        /\ \A d \in Clients : d # clients[i] => outbox'[d] = outbox[d]
        /\ clients[i] \in Patient =>
             /\ num = Given(clients[i], round_number) /\ num # Nothing
             /\ outbox'[clients[i]] \in {<<>>, <<Fin>>}
        /\ num \in Int
    BY <1>1, Received
  <1>3. /\ numbers' \in [1 .. MAX_CLIENTS -> Int]
        /\ numbers'[i] = num
        /\ \A j \in 1 .. MAX_CLIENTS : j # i => numbers'[j] = numbers[j]
    BY <1>1, <1>2 DEF IInv, TypeOK
  <1>4. /\ Slots' = Slots /\ Open' = Open /\ Answering' = Answering /\ Left' = Left
        /\ Slots \subseteq 1 .. MAX_CLIENTS
    <2>1. Len(clients) \in 0 .. MAX_CLIENTS /\ MAX_CLIENTS \in Nat
      BY MaxAssumption DEF IInv, TypeOK
    <2> QED
      BY <1>1, <2>1 DEF Slots, Open, Answering, Left
  <1>5. TypeOK'
    BY <1>1, <1>2, <1>3 DEF IInv, TypeOK
  <1>6. OnePlace'
    BY <1>1, <1>4 DEF IInv, OnePlace
  <1>7. NobodyIsEarly'
    BY <1>1, LinesAfter DEF IInv, NobodyIsEarly
  <1>8. ReadyIsThere'
    BY <1>1, StillReady
  <1>9. MembersInPlace'
    <2> SUFFICES ASSUME NEW j \in Answering
                 PROVE  InPlace(clients[j], j)'
      BY <1>4 DEF MembersInPlace
    <2>1. /\ InPlace(clients[j], j) /\ clients'[j] = clients[j] /\ clients[j] \in Patient
          /\ clients[j] \in Clients /\ j \in Open /\ j \in 1 .. MAX_CLIENTS
      BY <1>1, <1>2, <1>4, MaxAssumption DEF IInv, MembersInPlace, Answering, Open
    <2>2. Given(clients[j], round_number)' = Given(clients[j], round_number)
      BY <1>1 DEF Given
    <2>3. CASE j = i
      BY <1>1, <1>2, <1>3, <2>1, <2>2, <2>3 DEF InPlace, Counts
    <2>4. CASE j # i
      <3>1. clients[j] # clients[i]
        BY <1>2, <2>1, <2>4 DEF IInv, OnePlace
      <3>2. outbox'[clients[j]] = outbox[clients[j]] /\ numbers'[j] = numbers[j]
        BY <1>2, <1>3, <2>1, <2>4, <3>1
      <3> QED
        BY <1>1, <2>1, <2>2, <3>2 DEF InPlace, Counts
    <2> QED
      BY <2>3, <2>4
  <1>10. LeaversInPlace'
    <2>1. \A k \in Left : numbers'[k] = numbers[k]
      BY <1>2, <1>3, <1>4 DEF Left, Open
    <2> QED
      BY <1>1, <1>2, <1>4, <2>1 DEF IInv, LeaversInPlace, Given, Counts
  <1>11. LargestIsAnnounced'
    BY <1>1 DEF IInv, LargestIsAnnounced, Members, Typed, Given
  <1>12. SomeNumberIsMissing'
    BY <1>1, <1>4 DEF AllReceived, SomeNumberIsMissing
  <1>13. CountedWereTyped'
    <2>1. \A d \in Clients \ Patient : \A k \in 1 .. Len(outbox'[d]) :
            outbox'[d][k] \in said'[d] \cup {Fin}
      BY <1>1, Received
    <2>2. \A j \in Open' : clients'[j] \in Members(round_number)'
      BY <1>1, <1>4 DEF IInv, CountedWereTyped, Members
    <2>3. ASSUME NEW j \in Slots, numbers'[j] # -1
          PROVE  \E d \in Members(round_number)' :
                   Typed(d, round_number, numbers[j])' /\ clients'[j] \in {d, Closed}
      <3>1. PICK given : given = numbers'
        OBVIOUS
      <3>2. given[i] = num /\ \A k \in Slots : k # i => given[k] = numbers[k]
        BY <1>3, <1>4, <3>1
      <3>3. PICK d \in Members(round_number) :
              Typed(d, round_number, given[j]) /\ clients[j] \in {d, Closed}
        BY <1>1, <2>3, <3>1, <3>2, AllCounted
      <3> QED
        BY <1>1, <3>1, <3>3 DEF Members, Typed, Given
    <2> QED
      BY <1>4, <2>1, <2>2, <2>3 DEF CountedWereTyped
  <1> QED
    BY <1>5, <1>6, <1>7, <1>8, <1>9, <1>10, <1>11, <1>12, <1>13 DEF IInv

\* When no number is missing, every patient client that has joined has typed one.
LEMMA NobodyIsLeftOut ==
    ASSUME IInv, NEW i \in 1 .. MAX_CLIENTS, NEW num \in Numbers, Receives(i, num),
           NEW given, given[i] = num,
           \A j \in Slots : given[j] # -1 /\ (j # i => given[j] = numbers[j]),
           NEW c \in Patient, joined[c] > 0
    PROVE  /\ Given(c, round_number) # Nothing
           /\ \E j \in Slots : clients[j] \in {c, Closed} /\ given[j] = Given(c, round_number)
           /\ \A j \in Open : clients[j] = c => given[j] = Given(c, round_number)
  <1> DEFINE n == Given(c, round_number)
  <1>1. i \in Open /\ running /\ c \in Clients /\ c # Closed
    BY Received, MaxAssumption
  <1>2. /\ given[i] = num /\ \A j \in Slots : j # i => given[j] = numbers[j]
        /\ \A j \in Slots : given[j] # -1
    OBVIOUS
  <1>3. ASSUME NEW j \in Slots, clients[j] = c
        PROVE  n # Nothing /\ given[j] = n
    <2>1. j \in Answering /\ InPlace(c, j)
      BY <1>1, <1>3 DEF IInv, MembersInPlace, Answering, Open
    <2>2. CASE j = i
      <3>1. num = n /\ num # Nothing
        BY <1>3, <2>2, Received
      <3> QED
        BY <1>2, <2>2, <3>1
    <2>3. CASE j # i
      <3>1. numbers[j] = given[j] /\ given[j] # -1
        BY <1>2, <2>3
      <3> QED
        BY <2>1, <3>1 DEF InPlace, Counts
    <2> QED
      BY <2>2, <2>3
  <1>4. CASE \E j \in Slots : clients[j] = c
    BY <1>3, <1>4 DEF Open
  <1>5. CASE \A j \in Slots : clients[j] # c
    <2>1. PICK k \in Left : Counts(k, n)
      BY <1>1, <1>5 DEF IInv, LeaversInPlace
    <2>2. k \in Slots /\ k # i /\ clients[k] = Closed
      BY <1>1 DEF Left, Open
    <2>3. given[k] = numbers[k] /\ given[k] # -1
      BY <1>2, <2>2
    <2>4. n # Nothing /\ given[k] = n
      BY <2>1, <2>3 DEF Counts
    <2> QED
      BY <1>5, <2>2, <2>4 DEF Open
  <1> QED
    BY <1>4, <1>5

LEMMA AnnounceKeeps ==
    ASSUME IInv, NEW i \in 1 .. MAX_CLIENTS, NEW num \in Numbers, Announce(i, num)
    PROVE  IInv'
  <1>1. PICK given : given = [numbers EXCEPT ![i] = num]
    OBVIOUS
  <1>2. /\ Receives(i, num) /\ AllReceived(given)
        /\ announced' = [round |-> round_number, max |-> MaxNumber(given), from |-> MaxClient(given)]
        /\ round_number' = round_number + 1
        /\ numbers' = [j \in 1 .. MAX_CLIENTS |-> -1]
        /\ asked' = [c \in Clients |-> IF \E j \in Open : clients[j] = c THEN round_number + 1
                                       ELSE asked[c]]
        /\ UNCHANGED <<running, clients, backlog, phase, joined, typed, said>>
    BY <1>1 DEF Announce
  <1>3. /\ i \in Open /\ clients[i] \in Clients /\ running /\ num \in Int
        /\ ready' = ready \ {i} /\ outbox' \in [Clients -> Seq(Numbers \cup {Fin})]
        /\ \A d \in Clients : d # clients[i] => outbox'[d] = outbox[d]
        /\ clients[i] \in Patient => outbox'[clients[i]] \in {<<>>, <<Fin>>}
    BY <1>2, Received
  <1>4. /\ numbers \in [1 .. MAX_CLIENTS -> Int] /\ given \in [1 .. MAX_CLIENTS -> Int]
        /\ round_number \in Nat \ {0} /\ asked \in [Clients -> Nat] /\ joined \in [Clients -> Nat]
    BY <1>1, <1>3 DEF IInv, TypeOK
  <1>5. /\ MaxNumber(given) \in Int /\ \A j \in Slots : given[j] <= MaxNumber(given)
        /\ MaxClient(given) \in Clients \cup {Nobody}
        /\ MaxNumber(given) # -1 => \E j \in Slots : given[j] = MaxNumber(given)
        /\ MaxClient(given) # Nobody =>
             \E j \in Open : /\ clients[j] = MaxClient(given)
                             /\ given[j] = MaxNumber(given) /\ given[j] # -1
    BY <1>4, MaxNumberFacts, MaxClientFacts DEF IInv
  <1>6. /\ Slots' = Slots /\ Open' = Open /\ Answering' = Answering /\ Left' = Left
        /\ Slots \subseteq 1 .. MAX_CLIENTS
    <2>1. Len(clients) \in 0 .. MAX_CLIENTS /\ MAX_CLIENTS \in Nat
      BY MaxAssumption DEF IInv, TypeOK
    <2> QED
      BY <1>2, <2>1 DEF Slots, Open, Answering, Left
  <1>7. TypeOK'
    <2>1. numbers' \in [1 .. MAX_CLIENTS -> Int]
      BY <1>2
    <2>2. asked' \in [Clients -> Nat]
      BY <1>2, <1>4
    <2>3. announced' \in [round : Nat, max : Int, from : Clients \cup {Nobody}]
      BY <1>2, <1>4, <1>5
    <2> QED
      <3>1. round_number' \in Nat \ {0}
        BY <1>2, <1>4
      <3>2. ready' \subseteq 0 .. MAX_CLIENTS
        BY <1>3 DEF IInv, TypeOK
      <3> QED
        BY <1>2, <1>3, <2>1, <2>2, <2>3, <3>1, <3>2 DEF IInv, TypeOK
  <1>8. OnePlace'
    BY <1>2, <1>6 DEF IInv, OnePlace
  <1>9. \A d \in Clients : asked[d] <= asked'[d] /\ asked'[d] <= round_number + 1 /\ asked'[d] \in Nat
    BY <1>2, <1>4 DEF IInv, NobodyIsEarly
  <1>10. NobodyIsEarly'
    <2>1. announced'.round < round_number'
      BY <1>2, <1>4
    <2>2. ASSUME NEW d \in Clients
          PROVE  /\ joined'[d] <= asked'[d] /\ asked'[d] <= round_number'
                 /\ phase'[d] = "connected" => running'
      <3>1. joined[d] <= asked[d] /\ (phase[d] = "connected" => running)
        BY DEF IInv, NobodyIsEarly
      <3>2. /\ asked[d] <= asked'[d] /\ asked'[d] <= round_number + 1
            /\ asked[d] \in Nat /\ asked'[d] \in Nat /\ joined[d] \in Nat
        BY <1>4, <1>9
      <3> QED
        BY <1>2, <3>1, <3>2
    <2>3. ASSUME NEW d \in Patient
          PROVE  /\ \A r \in 1 .. MaxRound : asked'[d] < r => typed'[d][r] = Nothing
                 /\ asked'[d] > 0 => joined'[d] > 0
                 /\ joined'[d] = 0 => outbox'[d] \in {<<>>, <<Fin>>}
                 /\ phase'[d] = "outside" => outbox'[d] = <<>>
                 /\ phase'[d] = "connected" => \A k \in 1 .. Len(outbox'[d]) : outbox'[d][k] # Fin
      <3>1. d \in Clients
        BY MaxAssumption
      <3>2. \A r \in 1 .. MaxRound : asked'[d] < r => typed'[d][r] = Nothing
        <4>1. \A r \in 1 .. MaxRound : asked'[d] < r => asked[d] < r
          BY <1>4, <1>9, <3>1, MaxAssumption
        <4> QED
          BY <1>2, <4>1 DEF IInv, NobodyIsEarly
      <3>3. asked'[d] > 0 => joined'[d] > 0
        <4>1. CASE \E j \in Open : clients[j] = d
          BY <1>2, <1>3, <4>1 DEF IInv, MembersInPlace, InPlace, Answering
        <4>2. CASE ~ \E j \in Open : clients[j] = d
          BY <1>2, <3>1, <4>2 DEF IInv, NobodyIsEarly
        <4> QED
          BY <4>1, <4>2
      <3> QED
        BY <1>2, <3>2, <3>3, LinesAfter
    <2> QED
      BY <2>1, <2>2, <2>3 DEF NobodyIsEarly
  <1>11. ReadyIsThere'
    BY <1>2, StillReady
  <1>12. ASSUME NEW d \in Patient
         PROVE  Given(d, round_number)' = Nothing
    <2>1. d \in Clients /\ asked[d] <= round_number
      BY MaxAssumption DEF IInv, NobodyIsEarly
    <2>2. round_number + 1 \in 1 .. MaxRound => typed[d][round_number + 1] = Nothing
      BY <1>4, <2>1 DEF IInv, NobodyIsEarly
    <2> QED
      BY <1>2, <2>2 DEF Given
  <1>13. MembersInPlace'
    <2> SUFFICES ASSUME NEW j \in Answering
                 PROVE  InPlace(clients[j], j)'
      BY <1>6 DEF MembersInPlace
    <2>1. /\ InPlace(clients[j], j) /\ clients'[j] = clients[j] /\ clients[j] \in Patient
          /\ clients[j] \in Clients /\ j \in Open /\ j \in Slots
      BY <1>2, <1>3, MaxAssumption DEF IInv, MembersInPlace, Answering, Open
    <2>2. joined'[clients[j]] > 0 /\ asked'[clients[j]] = round_number'
      BY <1>2, <2>1 DEF InPlace
    <2>3. numbers'[j] = -1
      BY <1>2, <1>6, <2>1
    <2>4. outbox'[clients[j]] \in {<<>>, <<Fin>>}
      <3>1. CASE j = i
        BY <1>3, <2>1, <3>1
      <3>2. CASE j # i
        <4>1. numbers[j] # -1
          BY <1>1, <1>2, <1>4, <1>6, <2>1, <3>2 DEF AllReceived
        <4>2. clients[j] # clients[i]
          BY <1>3, <2>1, <3>2 DEF IInv, OnePlace
        <4> QED
          BY <1>3, <2>1, <4>1, <4>2 DEF InPlace
      <3> QED
        BY <3>1, <3>2
    <2>5. Given(clients[j], round_number)' = Nothing
      BY <1>2, <1>12, <2>1 DEF Given
    <2> QED
      BY <2>1, <2>2, <2>3, <2>4, <2>5 DEF InPlace, Counts
  <1>14. LeaversInPlace'
    <2> SUFFICES ASSUME NEW d \in Patient, joined'[d] > 0, \A k \in Slots' : clients'[k] # d
                 PROVE  phase'[d] = "left" /\ \E k \in Left' : Counts(k, Given(d, round_number))'
      BY DEF LeaversInPlace
    <2>1. phase[d] = "left" /\ Left # {}
      BY <1>2, <1>3, <1>6 DEF IInv, LeaversInPlace
    <2>2. \A k \in Left : numbers'[k] = -1
      BY <1>2, <1>6 DEF Left
    <2> QED
      BY <1>2, <1>6, <1>12, <2>1, <2>2 DEF Counts
  <1>15. /\ given[i] = num
         /\ \A j \in Slots : given[j] # -1 /\ (j # i => given[j] = numbers[j])
    BY <1>1, <1>2, <1>4, <1>6 DEF AllReceived
  <1>16. LargestIsAnnounced'
    <2> SUFFICES ASSUME NEW r, r = round_number
                 PROVE  LargestIsAnnounced'
      OBVIOUS
    <2>1. /\ \A d : Given(d, r)' = Given(d, r)
          /\ \A d, m : Typed(d, r, m)' <=> Typed(d, r, m)
          /\ Members(r)' = Members(r) /\ r \in Nat
      BY <1>2, <1>4 DEF Given, Typed, Members
    <2>2. ASSUME NEW c \in Members(r) \cap Patient
          PROVE  Given(c, r) # Nothing /\ Given(c, r) <= MaxNumber(given)
      <3>1. joined[c] > 0
        BY <1>4 DEF Members
      <3>2. Given(c, r) # Nothing /\ \E j \in Slots : given[j] = Given(c, r)
        BY <1>2, <1>15, <3>1, NobodyIsLeftOut
      <3> QED
        BY <1>5, <3>2
    <2>3. ASSUME MaxNumber(given) # -1
          PROVE  \E c \in Members(r) : Typed(c, r, MaxNumber(given))
      <3>1. PICK j \in Slots : given[j] = MaxNumber(given)
        BY <1>5, <2>3
      <3>2. \E c \in Members(r) : Typed(c, r, given[j])
        BY <1>2, <1>15, AllCounted
      <3> QED
        BY <3>1, <3>2
    <2>4. ASSUME MaxClient(given) # Nobody
          PROVE  /\ MaxNumber(given) # -1 /\ MaxClient(given) \in Members(r)
                 /\ Typed(MaxClient(given), r, MaxNumber(given))
      <3>1. PICK j \in Open : /\ clients[j] = MaxClient(given)
                              /\ given[j] = MaxNumber(given) /\ given[j] # -1
        BY <1>5, <2>4
      <3>2. j \in Slots /\ clients[j] # Closed
        BY DEF Open
      <3>3. PICK c \in Members(r) : Typed(c, r, given[j]) /\ clients[j] \in {c, Closed}
        BY <1>2, <1>15, <3>2, AllCounted
      <3> QED
        BY <3>1, <3>2, <3>3
    <2>5. announced'.round = r /\ announced'.max = MaxNumber(given) /\ announced'.from = MaxClient(given)
      BY <1>2
    <2> QED
      BY <2>1, <2>2, <2>3, <2>4, <2>5 DEF LargestIsAnnounced
  <1>17. CountedWereTyped'
    <2>1. \A d \in Clients \ Patient : \A k \in 1 .. Len(outbox'[d]) :
            outbox'[d][k] \in said'[d] \cup {Fin}
      BY <1>2, Received
    <2>2. \A j \in Slots : numbers'[j] = -1
      BY <1>2, <1>6
    <2>3. \A d \in Members(round_number) : d \in Members(round_number)'
      BY <1>2, <1>4 DEF Members
    <2>4. \A j \in Open' : clients'[j] \in Members(round_number)'
      BY <1>2, <1>6, <2>3 DEF IInv, CountedWereTyped
    <2> QED
      BY <1>6, <2>1, <2>2, <2>4 DEF CountedWereTyped
  <1>18. SomeNumberIsMissing'
    <2>1. i \in Slots /\ numbers'[i] = -1
      BY <1>2, <1>3 DEF Open
    <2> QED
      BY <1>6, <2>1 DEF SomeNumberIsMissing
  <1> QED
    BY <1>7, <1>8, <1>10, <1>11, <1>13, <1>14, <1>16, <1>17, <1>18 DEF IInv

-----------------------------------------------------------------------------
(* The theorems.                                                           *)

(* In every state the positions, the outboxes and what patient clients     *)
(* typed agree (server.c, the whole loop).                                 *)
THEOREM Invariant == Spec => []IInv
  <1>1. ASSUME IInv, Next
        PROVE  IInv'
    <2>1. ASSUME NEW c \in Clients, Connect(c) \/ Leave(c) \/ \E n \in Numbers : Type(c, n)
          PROVE  IInv'
      BY <1>1, <2>1, ConnectKeeps, LeaveKeeps, TypeKeeps
    <2>2. ASSUME NEW i \in 1 .. MAX_CLIENTS, Handle(i)
          PROVE  IInv'
      BY <1>1, <2>2, DisconnectKeeps, DuplicateKeeps, KilledKeeps, CollectKeeps, AnnounceKeeps
         DEF Handle
    <2> QED
      BY <1>1, <2>1, <2>2, SelectKeeps, AcceptKeeps DEF Next
  <1>2. IInv /\ [Next]_vars => IInv'
    BY <1>1, Stuttering
  <1> QED
    BY StartsRight, <1>2, PTL DEF Spec

(* Every variable keeps its type.                                          *)
THEOREM TypeCorrect == Spec => []TypeOK
  <1>1. IInv => TypeOK
    BY DEF IInv
  <1> QED
    BY <1>1, Invariant, PTL

(* A number that was typed for a round is counted in this round or is on   *)
(* its way, for any clients and numbers (process_client_message).          *)
THEOREM NumbersRight == Spec => []NumbersAreOfTheirRound
  <1>1. ASSUME IInv
        PROVE  NumbersAreOfTheirRound
    <2> SUFFICES ASSUME running, round_number <= MaxRound, NEW i \in Answering
                 PROVE  LET c == clients[i]
                            n == typed[c][round_number]
                        IN  IF n # Nothing /\ outbox[c] \in {<<>>, <<Fin>>} THEN numbers[i] = n
                            ELSE numbers[i] = -1
      BY DEF NumbersAreOfTheirRound
    <2>1. InPlace(clients[i], i) /\ clients[i] \in Patient
      BY <1>1 DEF IInv, MembersInPlace, Answering
    <2>2. round_number \in 1 .. MaxRound
      BY <1>1, MaxAssumption DEF IInv, TypeOK
    <2>3. Given(clients[i], round_number) = typed[clients[i]][round_number]
      BY <2>2 DEF Given
    <2>4. ASSUME NEW n, n # Nothing, n \in Numbers
          PROVE  <<n>> \notin {<<>>, <<Fin>>} /\ <<n, Fin>> \notin {<<>>, <<Fin>>}
      <3>1. n # Fin
        BY <2>4, MaxAssumption
      <3> QED
        BY <3>1
    <2>5. typed[clients[i]][round_number] \in Numbers \cup {Nothing}
      <3>1. typed \in [Patient -> [1 .. MaxRound -> Numbers \cup {Nothing}]]
        BY <1>1 DEF IInv, TypeOK
      <3> QED
        BY <2>1, <2>2, <3>1
    <2> QED
      BY <2>1, <2>3, <2>4, <2>5 DEF InPlace, Counts
  <1> QED
    BY <1>1, Invariant, PTL

(* The result of a round leaves out no patient client that had joined and  *)
(* is not less than its number, and somebody who had joined typed it; the  *)
(* client it is said to be from did.                                       *)
THEOREM LargestRight == Spec => []LargestIsAnnounced
  <1>1. IInv => LargestIsAnnounced
    BY DEF IInv
  <1> QED
    BY <1>1, Invariant, PTL

(* A round never waits when all numbers are there.                         *)
THEOREM NeverAllThere == Spec => []SomeNumberIsMissing
  <1>1. IInv => SomeNumberIsMissing
    BY DEF IInv
  <1> QED
    BY <1>1, Invariant, PTL
=============================================================================
