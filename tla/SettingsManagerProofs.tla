----------------------- MODULE SettingsManagerProofs -----------------------
(***************************************************************************)
(* Theorems about SettingsManager for any number of tasks and names and any  *)
(* size of the list.  The four invariants that the runs check carry each     *)
(* other: that a name is found once makes the search deterministic, that the *)
(* slots in use come first makes the count right after a restart.            *)
(***************************************************************************)
EXTENDS SettingsManager, FiniteSetTheorems, SequenceTheorems, TLAPS

IInv == TypeOK /\ Packed /\ SavedOnce /\ SurvivesReboot

(* One array: packed up to c, each name once.                                *)
PackedUpTo(s, c) == \A k \in Slots : (s[k] # Empty) <=> (k <= c)

Once(s) ==
  \A i, j \in Slots :
    /\ s[i] # Empty /\ s[j] # Empty
    /\ s[i].ssid = s[j].ssid /\ s[i].ssid \in Names
    => i = j

LEMMA SavedOnceIsOnce == SavedOnce <=> Once(slots) /\ Once(nvsSlots)
BY DEF SavedOnce, Once, InUse

(* The loop of settings_manager_init() counts a packed array right.          *)
LEMMA PackedCount ==
  ASSUME NEW s, NEW c \in 0..Limit, PackedUpTo(s, c)
  PROVE  Cardinality(InUse(s)) = c
<1>1. InUse(s) = 1..c
  BY ConstantsOK DEF InUse, PackedUpTo, Slots
<1>2. Cardinality(1..c) = c
  BY FS_Interval, ConstantsOK
<1> QED
  BY <1>1, <1>2

(* The search of settings_manager_save_wifi() and _remove_wifi() finds the   *)
(* slot of a known name.                                                     *)
LEMMA IndexFound ==
  ASSUME TypeOK, Packed, Once(slots), NEW n \in Names, Known(n)
  PROVE  IndexOf(n) \in 1..count /\ IndexOf(n) \in Slots /\ slots[IndexOf(n)].ssid = n
<1>1. PICK i \in 1..count : slots[i].ssid = n
  BY DEF Known
<1>2. 1..count \subseteq Slots
  BY ConstantsOK DEF TypeOK, Slots
<1>3. \A j \in 1..(i - 1) : slots[j].ssid # n
  <2> TAKE j \in 1..(i - 1)
  <2>1. j \in Slots /\ i \in Slots /\ j # i /\ j <= count /\ i <= count
    BY <1>2, ConstantsOK DEF TypeOK, Slots
  <2>2. slots[j] # Empty /\ slots[i] # Empty
    BY <2>1 DEF Packed
  <2> QED
    BY <1>1, <2>1, <2>2 DEF Once
<1>4. IndexOf(n) \in 1..count /\ slots[IndexOf(n)].ssid = n
  BY <1>1, <1>3 DEF IndexOf
<1> QED
  BY <1>2, <1>4

(* Moving a network to the front keeps every name where it was or one        *)
(* further on, and forgets none.                                             *)
LEMMA MoveKeeps ==
  ASSUME TypeOK, Packed, Once(slots), NEW n \in Names, NEW pw \in Passwords,
         Known(n), MoveToFront(n, pw)
  PROVE  /\ slots' \in [Slots -> Entries \cup {Empty}]
         /\ PackedUpTo(slots', count)
         /\ Once(slots')
<1> DEFINE i == IndexOf(n)
           e == [slots[i] EXCEPT !.password = pw]
           from(k) == IF k = 1 THEN i ELSE IF k <= i THEN k - 1 ELSE k
<1>1. i \in 1..count /\ i \in Slots /\ slots[i].ssid = n
  BY IndexFound
<1>2. slots[i] \in Entries
  BY <1>1 DEF TypeOK, Packed
<1>3. e \in Entries /\ e.ssid = n /\ e # Empty
  BY <1>1, <1>2, ConstantsOK DEF Entries
<1>4. slots' = [k \in Slots |-> IF k = 1 THEN e ELSE IF k <= i THEN slots[k - 1] ELSE slots[k]]
  BY DEF MoveToFront, PushFront
<1> HIDE DEF i, e
<1>5. \A k \in Slots : from(k) \in Slots
  BY <1>1, ConstantsOK DEF Slots
<1>6. \A k \in Slots : /\ (slots'[k] # Empty) <=> (slots[from(k)] # Empty)
                       /\ slots[from(k)] # Empty => slots'[k].ssid = slots[from(k)].ssid
  BY <1>1, <1>2, <1>3, <1>4, ConstantsOK DEF Slots
<1>7. slots' \in [Slots -> Entries \cup {Empty}]
  <2>1. \A k \in Slots : k # 1 /\ k <= i => k - 1 \in Slots
    BY <1>5
  <2>2. \A k \in Slots : slots[k] \in Entries \cup {Empty}
    BY DEF TypeOK
  <2> QED
    BY <1>3, <1>4, <2>1, <2>2
<1>8. PackedUpTo(slots', count)
  <2> SUFFICES ASSUME NEW k \in Slots PROVE (slots'[k] # Empty) <=> (k <= count)
    BY DEF PackedUpTo
  <2>1. from(k) <= count <=> k <= count
    BY <1>1 DEF Slots, TypeOK
  <2> QED
    BY <1>5, <1>6, <2>1 DEF Packed
<1>9. Once(slots')
  <2> SUFFICES ASSUME NEW a \in Slots, NEW b \in Slots,
                      slots'[a] # Empty, slots'[b] # Empty,
                      slots'[a].ssid = slots'[b].ssid, slots'[a].ssid \in Names
               PROVE  a = b
    BY DEF Once
  <2>1. from(a) = from(b)
    BY <1>5, <1>6 DEF Once
  <2> QED
    BY <2>1, <1>1 DEF Slots
<1> QED
  BY <1>7, <1>8, <1>9

(* Inserting an unknown network pushes the others on, and the last one out   *)
(* of a full list.                                                           *)
LEMMA InsertKeeps ==
  ASSUME TypeOK, Packed, Once(slots), NEW n \in Names, NEW pw \in Passwords,
         ~Known(n), Insert(n, pw)
  PROVE  /\ slots' \in [Slots -> Entries \cup {Empty}]
         /\ count' \in 0..Limit
         /\ PackedUpTo(slots', count')
         /\ Once(slots')
<1> DEFINE e == [ssid |-> Cut[n], password |-> pw]
           i == IF count < Limit THEN count + 1 ELSE Limit
<1>1. e \in Entries /\ e # Empty /\ e.ssid = Cut[n]
  BY ConstantsOK DEF Entries, Stored
<1>2. i \in Slots /\ count' = i /\ count \in Nat /\ count <= i /\ i <= count + 1
  BY ConstantsOK DEF TypeOK, Slots, Insert
<1>3. slots' = [k \in Slots |-> IF k = 1 THEN e ELSE IF k <= i THEN slots[k - 1] ELSE slots[k]]
  BY DEF Insert, PushFront
<1> HIDE DEF i, e
<1>4. \A k \in Slots : k # 1 => k - 1 \in Slots
  BY ConstantsOK DEF Slots
<1>5. slots' \in [Slots -> Entries \cup {Empty}]
  BY <1>1, <1>2, <1>3, <1>4 DEF TypeOK
<1>6. count' \in 0..Limit
  BY <1>2, ConstantsOK DEF Slots
<1>7. PackedUpTo(slots', count')
  <2> SUFFICES ASSUME NEW k \in Slots PROVE (slots'[k] # Empty) <=> (k <= i)
    BY <1>2 DEF PackedUpTo
  <2>1. CASE k = 1
    BY <2>1, <1>1, <1>2, <1>3 DEF Slots
  <2>2. CASE k # 1 /\ k <= i
    BY <2>2, <1>2, <1>3, <1>4 DEF Packed, Slots
  <2>3. CASE k # 1 /\ k > i
    BY <2>3, <1>2, <1>3, <1>4 DEF Packed, Slots
  <2> QED
    BY <2>1, <2>2, <2>3, <1>2 DEF Slots
<1>8. Once(slots')
  <2> SUFFICES ASSUME NEW a \in Slots, NEW b \in Slots,
                      slots'[a] # Empty, slots'[b] # Empty,
                      slots'[a].ssid = slots'[b].ssid, slots'[a].ssid \in Names
               PROVE  a = b
    BY DEF Once
  <2>1. \A k \in Slots : slots'[k] # Empty => k <= i
    BY <1>2, <1>7 DEF PackedUpTo
  <2>2. a <= i /\ b <= i
    BY <2>1
  <2>3. ASSUME NEW k \in Slots, k # 1, k <= i PROVE slots[k - 1] # Empty /\ slots[k - 1].ssid # n
    <3>1. k - 1 \in 1..count /\ k - 1 \in Slots
      BY <2>3, <1>2, <1>4 DEF Slots
    <3> QED
      BY <3>1 DEF Known, Packed, Slots
  <2>4. e.ssid \in Names => e.ssid = n
    BY <1>1, ConstantsOK
  <2>5. CASE a = 1 /\ b # 1
    BY <2>2, <2>3, <2>4, <2>5, <1>3
  <2>6. CASE a # 1 /\ b = 1
    BY <2>2, <2>3, <2>4, <2>6, <1>3
  <2>7. CASE a # 1 /\ b # 1
    <3>1. slots'[a] = slots[a - 1] /\ slots'[b] = slots[b - 1]
      BY <2>2, <2>7, <1>3
    <3>2. a - 1 = b - 1
      BY <3>1, <2>7, <1>4 DEF Once
    <3> QED
      BY <3>2 DEF Slots
  <2> QED
    BY <2>5, <2>6, <2>7
<1> QED
  BY <1>5, <1>6, <1>7, <1>8

(* Removing a network closes the gap it leaves.                              *)
LEMMA RemoveKeeps ==
  ASSUME TypeOK, Packed, Once(slots), NEW t \in Tasks, NEW n \in Names, remove_wifi(t, n)
  PROVE  /\ slots' \in [Slots -> Entries \cup {Empty}]
         /\ count' \in 0..Limit
         /\ PackedUpTo(slots', count')
         /\ Once(slots')
<1> DEFINE i == IndexOf(n)
           from(k) == IF i <= k THEN k + 1 ELSE k
<1>1. i \in 1..count /\ i \in Slots
  BY IndexFound DEF remove_wifi
<1>2. slots' = [k \in Slots |-> IF k = count THEN Empty
                                ELSE IF i <= k /\ k < count THEN slots[k + 1] ELSE slots[k]]
  BY DEF remove_wifi
<1> HIDE DEF i
<1>3. count' = count - 1 /\ count \in Slots /\ count' \in 0..Limit
  BY <1>1, ConstantsOK DEF remove_wifi, TypeOK, Slots
<1>4. \A k \in Slots : k < count => from(k) \in Slots /\ from(k) <= count /\ slots'[k] = slots[from(k)]
  BY <1>1, <1>2, <1>3, ConstantsOK DEF Slots
<1>5. \A k \in Slots : ~(k < count) => slots'[k] = Empty
  BY <1>1, <1>2, <1>3 DEF Slots, Packed
<1>6. slots' \in [Slots -> Entries \cup {Empty}]
  BY <1>2, <1>4, <1>5 DEF TypeOK
<1>7. PackedUpTo(slots', count')
  <2> SUFFICES ASSUME NEW k \in Slots PROVE (slots'[k] # Empty) <=> (k < count)
    BY <1>3 DEF PackedUpTo, Slots
  <2> QED
    BY <1>4, <1>5 DEF Packed
<1>8. Once(slots')
  <2> SUFFICES ASSUME NEW a \in Slots, NEW b \in Slots,
                      slots'[a] # Empty, slots'[b] # Empty,
                      slots'[a].ssid = slots'[b].ssid, slots'[a].ssid \in Names
               PROVE  a = b
    BY DEF Once
  <2>1. a < count /\ b < count
    BY <1>5
  <2>2. from(a) = from(b)
    BY <2>1, <1>4 DEF Once
  <2> QED
    BY <2>2, <1>1, <1>3 DEF Slots
<1> QED
  BY <1>3, <1>6, <1>7, <1>8

-----------------------------------------------------------------------------
(* An array without networks is packed and has none twice.                   *)
LEMMA NoSlotsShape ==
  /\ NoSlots \in [Slots -> Entries \cup {Empty}]
  /\ PackedUpTo(NoSlots, 0) /\ 0 \in 0..Limit
  /\ Once(NoSlots)
BY ConstantsOK DEF NoSlots, PackedUpTo, Once, Slots

LEMMA InitIInv == Init => IInv
<1> SUFFICES ASSUME Init PROVE IInv
  OBVIOUS
<1>1. \A k \in Slots : slots[k] = Empty
  BY DEF Init, NoSlots
<1>2. TypeOK
  BY NoSlotsShape, ConstantsOK DEF Init, TypeOK
<1>3. Packed
  BY <1>1, ConstantsOK DEF Init, Packed, Slots
<1>4. SavedOnce
  BY <1>1 DEF Init, SavedOnce, InUse
<1>5. SurvivesReboot
  BY DEF Init, SurvivesReboot, Keys
<1> QED
  BY <1>2, <1>3, <1>4, <1>5 DEF IInv

(* A change in RAM announces its write.                                      *)
LEMMA Announced ==
  ASSUME TypeOK, SurvivesReboot, NEW t \in Tasks, NEW w \in Writes, writing[t] = Idle,
         writing' = [writing EXCEPT ![t] = w], UNCHANGED <<durable, lost>>,
         w.key # "list" => UNCHANGED slots,
         \A k \in BufferKeys : k # w.key => ram'[k] = ram[k]
  PROVE  SurvivesReboot'
<1>1. w # Idle
  BY ConstantsOK
<1>2. writing'[t] = w
  BY DEF TypeOK
<1>3. Pending(w.key)'
  BY <1>1, <1>2 DEF Pending
<1>4. ASSUME NEW k, Pending(k) PROVE Pending(k)'
  <2>1. PICK u \in Tasks : writing[u] # Idle /\ writing[u].key = k
    BY <1>4 DEF Pending
  <2>2. writing'[u] = writing[u]
    BY <2>1 DEF TypeOK
  <2> QED
    BY <2>1, <2>2 DEF Pending
<1>5. ~Pending("list")' /\ "list" \notin lost' => nvsSlots' = slots'
  BY <1>3, <1>4 DEF SurvivesReboot, durable
<1>6. ASSUME NEW k \in BufferKeys, ~Pending(k)', k \notin lost' PROVE nvs'[k] = ram'[k]
  BY <1>3, <1>4, <1>6 DEF SurvivesReboot, durable
<1> QED
  BY <1>5, <1>6 DEF SurvivesReboot

(* A write, or its refusal, takes one key off what is pending.               *)
LEMMA OthersPending ==
  ASSUME TypeOK, NEW t \in Tasks, writing' = [writing EXCEPT ![t] = Idle],
         NEW k, Pending(k), k # writing[t].key
  PROVE  Pending(k)'
<1>1. PICK u \in Tasks : writing[u] # Idle /\ writing[u].key = k
  BY DEF Pending
<1>2. writing'[u] = writing[u]
  BY <1>1 DEF TypeOK
<1> QED
  BY <1>1, <1>2 DEF Pending

(* What a task is writing is the list or a value of some key.                *)
LEMMA WritesSplit ==
  ASSUME TypeOK, NEW t \in Tasks, writing[t] # Idle
  PROVE  \/ writing[t] = ListWrite /\ writing[t].key = "list"
         \/ writing[t] # ListWrite /\ writing[t].key \in Keys /\ writing[t].value \in Values
<1>1. writing[t] \in Writes
  BY DEF TypeOK
<1>2. CASE writing[t] \in [key : {"list"}, value : {Empty}]
  BY <1>2 DEF ListWrite
<1>3. CASE writing[t] \in [key : Keys, value : Values]
  BY <1>3, ConstantsOK DEF ListWrite
<1> QED
  BY <1>1, <1>2, <1>3 DEF Writes

(* The list after a change: type and shape from the lemmas above.            *)
LEMMA ListChanged ==
  ASSUME IInv, NEW t \in Tasks, writing[t] = Idle,
         slots' \in [Slots -> Entries \cup {Empty}], count' \in 0..Limit,
         PackedUpTo(slots', count'), Once(slots'),
         writing' = [writing EXCEPT ![t] = ListWrite], UNCHANGED <<ram, durable, lost>>
  PROVE  IInv'
<1>1. ListWrite \in Writes /\ ListWrite.key = "list"
  BY DEF ListWrite, Writes
<1>2. TypeOK'
  BY <1>1 DEF IInv, TypeOK, durable
<1>3. Packed'
  BY DEF IInv, Packed, PackedUpTo, durable
<1>4. SavedOnce'
  BY SavedOnceIsOnce DEF IInv, SavedOnce, Once, InUse, durable
<1>5. SurvivesReboot'
  BY <1>1, Announced DEF IInv
<1> QED
  BY <1>2, <1>3, <1>4, <1>5 DEF IInv

(* A boot, whatever it can read and whether or not it had to erase NVS,      *)
(* starts with NVS and a list in good order.                                 *)
LEMMA RestartIInv ==
  ASSUME IInv, Restart
  PROVE  IInv'
<1> USE DEF IInv
<1>1. PICK unread \in SUBSET (Keys \cup {"list"}) :
        /\ slots' = IF "list" \in unread THEN NoSlots ELSE nvsSlots'
        /\ count' = Cardinality(InUse(slots'))
        /\ ram' = [k \in Keys |-> IF k \in unread THEN Default ELSE ReadBack(k, nvs'[k])]
        /\ lost' = unread
  BY DEF Restart
<1>2. /\ nvsSlots' \in [Slots -> Entries \cup {Empty}] /\ Once(nvsSlots')
      /\ \E c \in 0..Limit : PackedUpTo(nvsSlots', c)
  <2>1. CASE UNCHANGED durable
    BY <2>1, SavedOnceIsOnce DEF durable, TypeOK, Packed, PackedUpTo
  <2>2. CASE nvsSlots' = NoSlots
    BY <2>2, NoSlotsShape
  <2> QED
    BY <2>1, <2>2 DEF Restart
<1>3. nvs' \in [Keys -> Values]
  BY ConstantsOK DEF Restart, durable, TypeOK
<1>4. /\ slots' \in [Slots -> Entries \cup {Empty}] /\ Once(slots')
      /\ \E c \in 0..Limit : PackedUpTo(slots', c)
  BY <1>1, <1>2, NoSlotsShape
<1>5. count' \in 0..Limit /\ PackedUpTo(slots', count')
  BY <1>1, <1>4, PackedCount
<1>6. \A k \in Keys : ReadBack(k, nvs'[k]) \in Values
  BY <1>3, ConstantsOK DEF ReadBack
<1>7. TypeOK'
  <2>1. ram' \in [Keys -> Values]
    BY <1>1, <1>6, ConstantsOK
  <2>2. writing' \in [Tasks -> Writes \cup {Idle}]
    BY DEF Restart
  <2> QED
    BY <1>1, <1>2, <1>3, <1>4, <1>5, <2>1, <2>2 DEF TypeOK
<1>8. Packed'
  BY <1>2, <1>5 DEF Packed, PackedUpTo
<1>9. SavedOnce'
  BY <1>2, <1>4 DEF SavedOnce, Once, InUse
<1>10. SurvivesReboot'
  BY <1>1 DEF SurvivesReboot, ReadBack, Keys
<1> QED
  BY <1>7, <1>8, <1>9, <1>10

LEMMA NextIInv == IInv /\ [Next]_vars => IInv'
<1> SUFFICES ASSUME IInv, [Next]_vars PROVE IInv'
  OBVIOUS
<1> USE DEF IInv
<1>0. Once(slots) /\ Once(nvsSlots)
  BY SavedOnceIsOnce
<1>1. ASSUME NEW t \in Tasks, NEW n \in Names, NEW pw \in Passwords, save_wifi(t, n, pw)
      PROVE  IInv'
  <2>1. CASE Known(n)
    <3>1. MoveToFront(n, pw) /\ count' = count
      BY <1>1, <2>1 DEF save_wifi, MoveToFront
    <3>2. /\ slots' \in [Slots -> Entries \cup {Empty}]
          /\ PackedUpTo(slots', count') /\ Once(slots')
      BY <1>0, <2>1, <3>1, MoveKeeps
    <3>3. count' \in 0..Limit
      BY <3>1 DEF TypeOK
    <3> QED
      BY <1>1, <3>2, <3>3, ListChanged DEF save_wifi
  <2>2. CASE ~Known(n)
    <3>1. Insert(n, pw)
      BY <1>1, <2>2 DEF save_wifi
    <3>2. /\ slots' \in [Slots -> Entries \cup {Empty}] /\ count' \in 0..Limit
          /\ PackedUpTo(slots', count') /\ Once(slots')
      BY <1>0, <2>2, <3>1, InsertKeeps
    <3> QED
      BY <1>1, <3>2, ListChanged DEF save_wifi
  <2> QED
    BY <2>1, <2>2
<1>2. ASSUME NEW t \in Tasks, NEW n \in Names, remove_wifi(t, n) PROVE IInv'
  <2>1. /\ slots' \in [Slots -> Entries \cup {Empty}] /\ count' \in 0..Limit
        /\ PackedUpTo(slots', count') /\ Once(slots')
    BY <1>0, <1>2, RemoveKeeps
  <2> QED
    BY <1>2, <2>1, ListChanged DEF remove_wifi
<1>3. ASSUME NEW t \in Tasks, NEW k \in Keys, NEW v \in Values, save_value(t, k, v)
      PROVE  IInv'
  <2> DEFINE w == [key |-> k, value |-> v]
  <2>1. w \in Writes /\ w.key = k
    BY DEF Writes
  <2>2. TypeOK'
    BY <1>3, <2>1, ConstantsOK DEF save_value, TypeOK, networks, durable
  <2>3. Packed' /\ SavedOnce'
    BY <1>3 DEF save_value, Packed, SavedOnce, InUse, networks, durable
  <2>4. \A j \in BufferKeys : j # k => ram'[j] = ram[j]
    BY <1>3 DEF save_value, TypeOK, Keys
  <2>5. SurvivesReboot'
    BY <1>3, <2>1, <2>4, Announced DEF save_value, networks
  <2> QED
    BY <2>2, <2>3, <2>5
<1>4. ASSUME NEW t \in Tasks, WriteList(t) PROVE IInv'
  <2>1. TypeOK'
    BY <1>4 DEF WriteList, TypeOK, networks
  <2>2. Packed' /\ SavedOnce'
    BY <1>4 DEF WriteList, TypeOK, Packed, SavedOnce, InUse, networks
  <2>3. ASSUME NEW k \in BufferKeys, ~Pending(k)', k \notin lost' PROVE nvs'[k] = ram'[k]
    <3>1. k # "list" /\ writing[t].key = "list"
      BY <1>4, ConstantsOK DEF WriteList, ListWrite, Keys
    <3>2. ~Pending(k) /\ k \notin lost
      BY <1>4, <2>3, <3>1, OthersPending DEF WriteList
    <3> QED
      BY <1>4, <3>2 DEF WriteList, SurvivesReboot
  <2> QED
    BY <1>4, <2>1, <2>2, <2>3 DEF WriteList, SurvivesReboot, networks
<1>5. ASSUME NEW t \in Tasks, WriteValue(t) PROVE IInv'
  <2> DEFINE k == writing[t].key
  <2>1. k \in Keys /\ k # "list" /\ writing[t].value \in Values
    BY <1>5, WritesSplit, ConstantsOK DEF WriteValue
  <2>2. TypeOK'
    BY <1>5, <2>1 DEF WriteValue, TypeOK, networks, Keys
  <2>3. Packed' /\ SavedOnce'
    BY <1>5 DEF WriteValue, Packed, SavedOnce, InUse, networks
  <2>4. ASSUME ~Pending("list")', "list" \notin lost' PROVE nvsSlots' = slots'
    <3>1. ~Pending("list") /\ "list" \notin lost
      BY <1>5, <2>1, <2>4, OthersPending DEF WriteValue
    <3> QED
      BY <1>5, <3>1 DEF WriteValue, SurvivesReboot, networks
  <2>5. ASSUME NEW j \in BufferKeys, ~Pending(j)', j \notin lost' PROVE nvs'[j] = ram'[j]
    <3>1. CASE j = k
      BY <1>5, <2>1, <3>1 DEF WriteValue, TypeOK
    <3>2. CASE j # k
      <4>1. ~Pending(j) /\ j \notin lost
        BY <1>5, <2>5, <3>2, OthersPending DEF WriteValue
      <4> QED
        BY <1>5, <3>2, <4>1 DEF WriteValue, SurvivesReboot, TypeOK, Keys
    <3> QED
      BY <3>1, <3>2
  <2> QED
    BY <2>2, <2>3, <2>4, <2>5 DEF SurvivesReboot
<1>6. ASSUME NEW t \in Tasks, WriteRefused(t) PROVE IInv'
  <2>1. writing[t].key \in Keys \cup {"list"}
    BY <1>6, WritesSplit DEF WriteRefused
  <2>2. TypeOK'
    BY <1>6, <2>1 DEF WriteRefused, TypeOK, networks, durable
  <2>3. Packed' /\ SavedOnce'
    BY <1>6 DEF WriteRefused, Packed, SavedOnce, InUse, networks, durable
  <2>4. ASSUME NEW k, ~Pending(k)', k \notin lost' PROVE ~Pending(k) /\ k \notin lost
    BY <1>6, <2>4, OthersPending DEF WriteRefused
  <2>5. SurvivesReboot'
    BY <1>6, <2>4 DEF WriteRefused, SurvivesReboot, networks, durable
  <2> QED
    BY <2>2, <2>3, <2>5
<1>7. CASE Restart
  BY <1>7, RestartIInv
<1>8. CASE UNCHANGED vars
  BY <1>8 DEF vars, networks, durable, TypeOK, Packed, SavedOnce, InUse, SurvivesReboot, Pending
<1> QED
  BY <1>1, <1>2, <1>3, <1>4, <1>5, <1>6, <1>7, <1>8 DEF Next

(* The four invariants hold together in every reachable state.               *)
THEOREM Inductive == Spec => []IInv
BY InitIInv, NextIInv, PTL DEF Spec

(* Type correctness; the count stays within MAX_SAVED_NETWORKS.              *)
THEOREM TypeCorrect == Spec => []TypeOK
BY Inductive, PTL DEF IInv

(* The slots in use come first, in RAM and in NVS, for lists of any size.    *)
THEOREM SlotsPacked == Spec => []Packed
BY Inductive, PTL DEF IInv

(* No network is saved twice, for lists of any size.                         *)
THEOREM NetworksOnce == Spec => []SavedOnce
BY Inductive, PTL DEF IInv

(* What was written without a refusal, and read at boot, is in NVS as it is  *)
(* in RAM, whoever wrote: a restart that can read it finds it.               *)
THEOREM WrittenSurvives == Spec => []SurvivesReboot
BY Inductive, PTL DEF IInv
-----------------------------------------------------------------------------
(* The array implements the list of SavedNetworks.                           *)

E == Entries \cup {Empty}

(* The first c slots, as a sequence.                                         *)
LEMMA FirstSlots ==
  ASSUME NEW s \in [Slots -> E], NEW c \in 0..Limit
  PROVE  /\ SubSeq(s, 1, c) \in Seq(E)
         /\ Len(SubSeq(s, 1, c)) = c
         /\ \A k \in 1..c : SubSeq(s, 1, c)[k] = s[k]
<1>1. \A k \in 1..c : s[k] \in E
  BY ConstantsOK DEF Slots
<1> HIDE DEF E
<1>2. c \in Int /\ 1 \in Int
  BY ConstantsOK
<1> QED
  BY <1>1, <1>2, SubSeqProperties, ConstantsOK

(* The first slots are the beginning of a list that has the same entries.    *)
LEMMA SameFirst ==
  ASSUME NEW s \in [Slots -> E], NEW r \in Seq(E), NEW c \in 0..Limit, c <= Len(r),
         \A k \in 1..c : s[k] = r[k]
  PROVE  SubSeq(s, 1, c) = SubSeq(r, 1, c)
<1> HIDE DEF E
<1>1. Len(r) \in Nat /\ c \in Int /\ 1 \in Int /\ \A k \in 1..c : r[k] \in E
  BY LenProperties, ElementOfSeq, ConstantsOK
<1>2. /\ SubSeq(r, 1, c) \in Seq(E)
      /\ Len(SubSeq(r, 1, c)) = c
      /\ \A k \in 1..c : SubSeq(r, 1, c)[k] = r[k]
  BY <1>1, SubSeqProperties, ConstantsOK
<1> QED
  BY <1>2, FirstSlots, SeqEqual

AllBut(s, i) == SubSeq(s, 1, i - 1) \o SubSeq(s, i + 1, Len(s))

(* What is left of a list without its i-th entry.                            *)
LEMMA WithoutOne ==
  ASSUME NEW S, NEW s \in Seq(S), NEW i \in 1..Len(s)
  PROVE  /\ AllBut(s, i) \in Seq(S) /\ Len(AllBut(s, i)) = Len(s) - 1
         /\ \A k \in 1..(Len(s) - 1) :
              AllBut(s, i)[k] = IF k < i THEN s[k] ELSE s[k + 1]
<1> DEFINE a == SubSeq(s, 1, i - 1)
           b == SubSeq(s, i + 1, Len(s))
<1>1. Len(s) \in Nat /\ i \in Int /\ i >= 1 /\ i <= Len(s) /\ \A k \in 1..Len(s) : s[k] \in S
  BY LenProperties, ElementOfSeq
<1>2. a \in Seq(S) /\ Len(a) = i - 1 /\ \A k \in 1..(i - 1) : a[k] = s[k]
  BY <1>1, SubSeqProperties
<1>3. b \in Seq(S) /\ Len(b) = Len(s) - i /\ \A k \in 1..(Len(s) - i) : b[k] = s[i + k]
  <2>1. i + 1 \in Int /\ Len(s) \in Int /\ \A k \in (i + 1)..Len(s) : s[k] \in S
    BY <1>1
  <2>2. /\ b \in Seq(S)
        /\ Len(b) = IF i + 1 <= Len(s) THEN Len(s) - (i + 1) + 1 ELSE 0
        /\ \A k \in 1..(Len(s) - (i + 1) + 1) : b[k] = s[i + 1 + k - 1]
    BY <2>1, SubSeqProperties
  <2> QED
    BY <1>1, <2>2
<1> HIDE DEF a, b
<1>4. /\ a \o b \in Seq(S) /\ Len(a \o b) = Len(a) + Len(b)
      /\ \A k \in 1..(Len(a) + Len(b)) :
           (a \o b)[k] = IF k <= Len(a) THEN a[k] ELSE b[k - Len(a)]
  BY <1>2, <1>3, ConcatProperties
<1>5. ASSUME NEW k \in 1..(Len(s) - 1)
      PROVE  (a \o b)[k] = IF k < i THEN s[k] ELSE s[k + 1]
  <2>1. CASE k < i
    BY <1>1, <1>2, <1>3, <1>4, <2>1
  <2>2. CASE ~(k < i)
    <3>1. k - (i - 1) \in 1..(Len(s) - i) /\ i + (k - (i - 1)) = k + 1
      BY <1>1, <2>2
    <3>2. (a \o b)[k] = b[k - (i - 1)]
      BY <1>1, <1>2, <1>3, <1>4, <2>2
    <3>3. b[k - (i - 1)] = s[i + (k - (i - 1))]
      BY <1>3, <3>1
    <3> QED
      BY <2>2, <3>1, <3>2, <3>3
  <2> QED
    BY <2>1, <2>2
<1>6. Len(a \o b) = Len(s) - 1
  BY <1>1, <1>2, <1>3, <1>4
<1> QED
  BY <1>4, <1>5, <1>6 DEF a, b, AllBut
List == SubSeq(slots, 1, count)

LEMMA ListEntries ==
  ASSUME TypeOK
  PROVE  /\ List \in Seq(E) /\ Len(List) = count /\ DOMAIN List = 1..count
         /\ \A k \in 1..count : List[k] = slots[k]
<1>1. slots \in [Slots -> E] /\ count \in 0..Limit
  BY DEF TypeOK, E
<1>2. List \in Seq(E) /\ Len(List) = count /\ \A k \in 1..count : List[k] = slots[k]
  BY <1>1, FirstSlots DEF List
<1> QED
  BY <1>2, LenProperties

(* The search finds the only position of a name.                             *)
LEMMA OnlyPosition ==
  ASSUME IInv, NEW n \in Names
  PROVE  Promise!Positions(n) = IF Known(n) THEN {IndexOf(n)} ELSE {}
<1>1. Promise!Positions(n) = {i \in 1..count : slots[i].ssid = n}
  BY ListEntries DEF IInv, List, Promise!Positions
<1>2. CASE Known(n)
  <2>1. IndexOf(n) \in 1..count /\ slots[IndexOf(n)].ssid = n
    BY <1>2, IndexFound, SavedOnceIsOnce DEF IInv
  <2>2. ASSUME NEW i \in 1..count, slots[i].ssid = n PROVE i = IndexOf(n)
    <3>1. /\ i \in Slots /\ i <= count
          /\ IndexOf(n) \in Slots /\ IndexOf(n) <= count
      BY <2>1, ConstantsOK DEF IInv, TypeOK, Slots
    <3>2. slots[i] # Empty /\ slots[IndexOf(n)] # Empty
      BY <3>1 DEF IInv, Packed
    <3> QED
      BY <2>1, <2>2, <3>1, <3>2, SavedOnceIsOnce DEF IInv, Once
  <2> QED
    BY <1>1, <1>2, <2>1, <2>2
<1>3. CASE ~Known(n)
  BY <1>1, <1>3 DEF Known
<1> QED
  BY <1>2, <1>3

(* The list without a name that is in it, and without one that is not.       *)
LEMMA WithoutKnown ==
  ASSUME IInv, NEW n \in Names, Known(n)
  PROVE  /\ Promise!Without(n) \in Seq(E) /\ Len(Promise!Without(n)) = count - 1
         /\ \A k \in 1..(count - 1) :
              Promise!Without(n)[k] = IF k < IndexOf(n) THEN slots[k] ELSE slots[k + 1]
<1> DEFINE i == IndexOf(n)
<1>1. i \in 1..count
  BY IndexFound, SavedOnceIsOnce DEF IInv
<1>2. Promise!Without(n) = AllBut(List, i)
  BY OnlyPosition DEF Promise!Without, List, AllBut
<1>3. /\ List \in Seq(E) /\ Len(List) = count /\ count \in Nat
      /\ \A k \in 1..count : List[k] = slots[k]
  BY ListEntries, ConstantsOK DEF IInv, TypeOK
<1> HIDE DEF i, E
<1>4. /\ Promise!Without(n) \in Seq(E) /\ Len(Promise!Without(n)) = count - 1
      /\ \A k \in 1..(count - 1) :
           Promise!Without(n)[k] = IF k < i THEN List[k] ELSE List[k + 1]
  <2>1. List \in Seq(E) /\ i \in 1..Len(List)
    BY <1>1, <1>3
  <2>2. /\ AllBut(List, i) \in Seq(E) /\ Len(AllBut(List, i)) = Len(List) - 1
        /\ \A k \in 1..(Len(List) - 1) :
             AllBut(List, i)[k] = IF k < i THEN List[k] ELSE List[k + 1]
    BY <2>1, WithoutOne
  <2> QED
    BY <1>2, <1>3, <2>2
<1>5. ASSUME NEW k \in 1..(count - 1)
      PROVE  Promise!Without(n)[k] = IF k < i THEN slots[k] ELSE slots[k + 1]
  <2>1. k \in 1..count /\ k + 1 \in 1..count
    BY <1>3
  <2> QED
    BY <1>3, <1>4, <2>1
<1> QED
  BY <1>4, <1>5 DEF i

LEMMA WithoutUnknown ==
  ASSUME IInv, NEW n \in Names, ~Known(n)
  PROVE  Promise!Without(n) = List
BY OnlyPosition DEF Promise!Without, List

(* A saved network comes before the others, of which the array keeps as many *)
(* as the list does.                                                         *)
LEMMA SaveMaps ==
  ASSUME IInv, NEW n \in Names, NEW pw \in Passwords, UNCHANGED nvsSlots,
         slots' \in [Slots -> E], count' \in 0..Limit,
         IF Known(n) THEN MoveToFront(n, pw) ELSE Insert(n, pw)
  PROVE  Promise!Save(n, pw)
<1> DEFINE e == [ssid |-> Cut[n], password |-> pw]
           w == Promise!Without(n)
           r == <<e>> \o w
<1>1. e \in E
  BY DEF E, Entries, Stored
<1>2. w \in Seq(E) /\ Len(w) = (IF Known(n) THEN count - 1 ELSE count) /\ count \in 0..Limit
  BY WithoutKnown, WithoutUnknown, ListEntries DEF IInv, TypeOK
<1>3. /\ r \in Seq(E) /\ Len(r) = Len(w) + 1
      /\ r[1] = e /\ \A k \in 1..Len(w) : r[k + 1] = w[k]
  <2> HIDE DEF e, w, E
  <2>1. <<e>> \in Seq(E) /\ Len(<<e>>) = 1 /\ <<e>>[1] = e
    BY <1>1
  <2>2. /\ r \in Seq(E) /\ Len(r) = 1 + Len(w)
        /\ \A k \in 1..(1 + Len(w)) : r[k] = IF k <= 1 THEN <<e>>[k] ELSE w[k - 1]
    BY <1>2, <2>1, ConcatProperties
  <2>3. Len(w) \in Nat
    BY <1>2, LenProperties
  <2> QED
    BY <2>1, <2>2, <2>3
<1>4. count' = (IF Len(r) < Limit THEN Len(r) ELSE Limit) /\ count' <= Len(r)
  <2> HIDE DEF r, w
  <2> QED
    BY <1>2, <1>3, ConstantsOK DEF MoveToFront, Insert
<1>5. ASSUME NEW k \in 1..count' PROVE slots'[k] = r[k]
  <2>1. k \in Slots /\ k - 1 \in Nat
    BY ConstantsOK DEF Slots
  <2>2. CASE Known(n)
    <3>1. IndexOf(n) \in 1..count /\ slots[IndexOf(n)].ssid = n
      BY <2>2, IndexFound, SavedOnceIsOnce DEF IInv
    <3>2. slots[IndexOf(n)] \in Entries /\ n \in Stored
      BY <3>1, ConstantsOK DEF IInv, TypeOK, Packed, Slots, Entries
    <3>3. [slots[IndexOf(n)] EXCEPT !.password = pw] = e
      BY <3>1, <3>2, ConstantsOK DEF Entries, Stored
    <3>4. slots'[k] = IF k = 1 THEN e ELSE IF k <= IndexOf(n) THEN slots[k - 1] ELSE slots[k]
      BY <2>1, <2>2, <3>3 DEF MoveToFront, PushFront
    <3>5. CASE k # 1
      <4> HIDE DEF r, w, e
      <4>1. k - 1 \in 1..(count - 1) /\ k - 1 \in 1..Len(w) /\ (k - 1) + 1 = k
        BY <1>2, <2>1, <2>2, <3>5 DEF MoveToFront, Slots
      <4>2. w[k - 1] = IF k - 1 < IndexOf(n) THEN slots[k - 1] ELSE slots[k]
        BY <2>2, <4>1, WithoutKnown DEF w
      <4>3. r[k] = w[k - 1]
        BY <1>3, <4>1
      <4> QED
        BY <2>1, <3>1, <3>4, <3>5, <4>2, <4>3 DEF Slots
    <3> QED
      BY <1>3, <3>4, <3>5
  <2>3. CASE ~Known(n)
    <3>1. slots'[k] = IF k = 1 THEN e ELSE slots[k - 1]
      BY <2>1, <2>3, ConstantsOK DEF Insert, PushFront, Slots, IInv, TypeOK
    <3>2. CASE k # 1
      <4> HIDE DEF r, w, e
      <4>1. k - 1 \in 1..count /\ k - 1 \in 1..Len(w) /\ (k - 1) + 1 = k
        BY <1>2, <2>1, <2>3, <3>2, ConstantsOK DEF Insert, Slots
      <4>2. w[k - 1] = slots[k - 1]
        BY <2>3, <4>1, WithoutUnknown, ListEntries DEF w, IInv
      <4>3. r[k] = w[k - 1]
        BY <1>3, <4>1
      <4> QED
        BY <3>1, <3>2, <4>2, <4>3
    <3> QED
      BY <1>3, <3>1, <3>2
  <2> QED
    BY <2>2, <2>3
<1>6. SubSeq(slots', 1, count') = SubSeq(r, 1, count')
  BY <1>3, <1>4, <1>5, SameFirst
<1> QED
  BY <1>4, <1>6 DEF Promise!Save, Promise!Newest, Contents
(* A forgotten network leaves no gap.                                        *)
LEMMA ForgetMaps ==
  ASSUME IInv, IInv', NEW t \in Tasks, NEW n \in Names, remove_wifi(t, n)
  PROVE  Promise!Forget(n)
<1> DEFINE w == Promise!Without(n)
<1>1. /\ w \in Seq(E) /\ Len(w) = count - 1
      /\ \A k \in 1..(count - 1) : w[k] = IF k < IndexOf(n) THEN slots[k] ELSE slots[k + 1]
  BY WithoutKnown DEF remove_wifi
<1>2. slots' \in [Slots -> E] /\ count' \in 0..Limit /\ count' = count - 1
  BY DEF IInv, TypeOK, E, remove_wifi
<1>3. ASSUME NEW k \in 1..count' PROVE slots'[k] = w[k]
  <2>1. k \in Slots /\ k < count /\ k \in 1..(count - 1) /\ IndexOf(n) \in 1..count
    BY <1>2, ConstantsOK, IndexFound, SavedOnceIsOnce DEF remove_wifi, Slots, IInv, TypeOK
  <2>2. slots'[k] = IF IndexOf(n) <= k THEN slots[k + 1] ELSE slots[k]
    BY <1>2, <2>1, ConstantsOK DEF remove_wifi, IInv, TypeOK
  <2> QED
    BY <1>1, <2>1, <2>2, ConstantsOK DEF IInv, TypeOK
<1> HIDE DEF w, E
<1>4. SubSeq(slots', 1, count') = SubSeq(w, 1, Len(w))
  BY <1>1, <1>2, <1>3, SameFirst, ConstantsOK
<1>5. SubSeq(w, 1, Len(w)) = w
  BY <1>1, SubSeqFull
<1> QED
  BY <1>4, <1>5 DEF Promise!Forget, w, remove_wifi, durable

(* What a restart would find in NVS.                                         *)
LEMMA FlashEntries ==
  ASSUME NEW s, NEW c \in 0..Limit, PackedUpTo(s, c)
  PROVE  Contents(s) = SubSeq(s, 1, c)
BY PackedCount DEF Contents

LEMMA InitMaps == Init => Promise!Init
<1> SUFFICES ASSUME Init PROVE Promise!Init
  OBVIOUS
<1>1. PackedUpTo(nvsSlots, 0) /\ 0 \in 0..Limit
  BY NoSlotsShape DEF Init
<1>2. Contents(nvsSlots) = SubSeq(nvsSlots, 1, 0)
  BY <1>1, FlashEntries
<1>3. SubSeq(nvsSlots, 1, 0) = <<>> /\ SubSeq(slots, 1, 0) = <<>>
  BY SubSeqEmpty
<1> QED
  BY <1>2, <1>3 DEF Promise!Init, Init

(* A boot finds all of the list in the flash or none of it.                   *)
LEMMA RestartMaps ==
  ASSUME IInv, IInv', Restart
  PROVE  Promise!Restart
<1>1. Contents(NoSlots) = <<>>
  <2>1. Contents(NoSlots) = SubSeq(NoSlots, 1, 0)
    BY NoSlotsShape, FlashEntries
  <2> QED
    BY <2>1, SubSeqEmpty
<1>2. Contents(nvsSlots') \in {Contents(nvsSlots), <<>>}
  <2>1. nvsSlots' = nvsSlots \/ nvsSlots' = NoSlots
    BY DEF Restart, durable
  <2> QED
    BY <1>1, <2>1
<1>3. SubSeq(slots', 1, count') = Contents(slots')
  BY DEF Restart, Contents
<1>4. slots' = NoSlots \/ slots' = nvsSlots'
  BY DEF Restart
<1>5. SubSeq(slots', 1, count') \in {Contents(nvsSlots'), <<>>}
  BY <1>1, <1>3, <1>4
<1> QED
  BY <1>2, <1>5 DEF Promise!Restart, Contents, InUse

(* Every step is one of the list, or none.                                   *)
LEMMA NextMaps ==
  IInv /\ IInv' /\ [Next]_vars => [Promise!Next]_(Promise!vars)
<1> SUFFICES ASSUME IInv, IInv', [Next]_vars PROVE [Promise!Next]_(Promise!vars)
  OBVIOUS
<1>1. ASSUME NEW t \in Tasks, NEW n \in Names, NEW pw \in Passwords, save_wifi(t, n, pw)
      PROVE  Promise!Next
  <2>1. slots' \in [Slots -> E] /\ count' \in 0..Limit
    BY DEF IInv, TypeOK, E
  <2>2. Promise!Save(n, pw)
    BY <1>1, <2>1, SaveMaps DEF save_wifi, durable
  <2> QED
    BY <2>2 DEF Promise!Next
<1>2. ASSUME NEW t \in Tasks, NEW n \in Names, remove_wifi(t, n) PROVE Promise!Next
  BY <1>2, ForgetMaps DEF Promise!Next
<1>3. ASSUME NEW t \in Tasks, WriteList(t) PROVE Promise!Next
  <2>1. PackedUpTo(slots, count) /\ count \in 0..Limit
    BY DEF IInv, Packed, PackedUpTo, TypeOK
  <2>2. Contents(nvsSlots') = SubSeq(slots, 1, count)
    BY <1>3, <2>1, FlashEntries DEF WriteList
  <2> QED
    BY <1>3, <2>2 DEF Promise!Next, Promise!Persist, WriteList, networks, Contents
<1>4. CASE Restart
  BY <1>4, RestartMaps DEF Promise!Next
<1>5. ASSUME UNCHANGED <<slots, count, nvsSlots>> PROVE UNCHANGED Promise!vars
  BY <1>5 DEF Promise!vars, Contents, InUse
<1>6. ASSUME NEW t \in Tasks,
             \/ \E k \in Keys, v \in Values : save_value(t, k, v)
             \/ WriteValue(t) \/ WriteRefused(t)
      PROVE  UNCHANGED Promise!vars
  BY <1>5, <1>6 DEF save_value, WriteValue, WriteRefused, networks, durable
<1>7. CASE UNCHANGED vars
  BY <1>5, <1>7 DEF vars, networks, durable
<1> QED
  BY <1>1, <1>2, <1>3, <1>4, <1>6, <1>7 DEF Next

(* The array and its count, with NVS, are the list of the networks used      *)
(* last that the popup and the page rely on.                                 *)
THEOREM Refinement == Spec => RefinesSavedNetworks
BY InitMaps, NextMaps, Inductive, PTL DEF Spec, RefinesSavedNetworks, Promise!Spec
=============================================================================
