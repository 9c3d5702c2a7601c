-------------------------- MODULE SettingsManager --------------------------
(***************************************************************************)
(* components/settings_manager/settings_manager_esp.c: the settings in RAM   *)
(* and in NVS.  Two tasks write them without a lock: LVGL (the panel) and    *)
(* httpd (the settings page).  A save changes RAM and then writes NVS, which *)
(* takes milliseconds: the other task may run, or the power fail, between    *)
(* the two.  The few instructions that change RAM are one step.              *)
(*                                                                         *)
(* NVS is external: a call of it may fail, a value is written or read as a    *)
(* whole or not at all, and what is not in it reads as the default.          *)
(***************************************************************************)
EXTENDS Integers, Sequences, FiniteSets

CONSTANTS
  Tasks,               \* LVGL, httpd
  Names, Passwords,    \* networks a user may save
  Cut,                 \* Cut[n]: n as it fits in SavedWifiNetwork.ssid
  Limit,               \* MAX_SAVED_NETWORKS
  BufferKeys,          \* ip, gateway, netmask, hostname: NVS gets the buffer
  ArgumentKeys,        \* location, zone, timeout, flags: NVS gets the argument
  Values, Default,     \* settings; the static initializer, of every key
  Kept, Reread,        \* of a value given: what RAM keeps; what a boot reads back
  Empty, Idle          \* a slot not in use; a task that writes nothing

Keys == BufferKeys \cup ArgumentKeys
Stored == {Cut[n] : n \in Names}
Entries == [ssid : Stored, password : Passwords]
Writes == [key : {"list"}, value : {Empty}] \cup [key : Keys, value : Values]

(* A cut name is nobody's whole name.  An index is kept as it is and read     *)
(* back modulo 256; a text is cut to its buffer, and not read back if it was. *)
ASSUME ConstantsOK ==
  /\ Limit \in Nat \ {0}
  /\ DOMAIN Cut = Names
  /\ \A n \in Names : Cut[n] # n => Cut[n] \notin Names
  /\ Empty \notin Entries
  /\ BufferKeys \cap ArgumentKeys = {} /\ "list" \notin Keys
  /\ Idle \notin Writes
  /\ Default \in Values /\ Reread[Default] = Default
  /\ Kept \in [Values -> Values] /\ Reread \in [Values -> Values]

VARIABLES
  slots, count,    \* g_wifi_list, g_wifi_count
  ram,             \* the other settings, by key
  nvsSlots, nvs,   \* NVS: the blob and the values
  writing,         \* writing[t]: what task t is about to write
  lost             \* history: refused by NVS at the last write, or at boot

networks == <<slots, count>>
durable == <<nvsSlots, nvs>>
vars == <<networks, ram, durable, writing, lost>>

Slots == 1..Limit
NoSlots == [k \in Slots |-> Empty]

-----------------------------------------------------------------------------
ListWrite == [key |-> "list", value |-> Empty]

Known(n) == \E i \in 1..count : slots[i].ssid = n

IndexOf(n) == CHOOSE i \in 1..count :
                /\ slots[i].ssid = n
                /\ \A j \in 1..(i - 1) : slots[j].ssid # n

(* Slots 2 to i take what slots 1 to i - 1 had; e comes first. *)
PushFront(e, i) ==
  [k \in Slots |-> IF k = 1 THEN e ELSE IF k <= i THEN slots[k - 1] ELSE slots[k]]

MoveToFront(n, pw) ==
  /\ slots' = PushFront([slots[IndexOf(n)] EXCEPT !.password = pw], IndexOf(n))
  /\ UNCHANGED count

Insert_KeepsOldest(n, pw) ==
  /\ slots' = PushFront([ssid |-> Cut[n], password |-> pw],
                        IF count < Limit THEN count + 1 ELSE Limit - 1)
  /\ count' = IF count < Limit THEN count + 1 ELSE count

Insert_NoLimit(n, pw) ==
  /\ slots' = PushFront([ssid |-> Cut[n], password |-> pw], Limit)
  /\ count' = count + 1

Insert(n, pw) ==
  /\ slots' = PushFront([ssid |-> Cut[n], password |-> pw],
                        IF count < Limit THEN count + 1 ELSE Limit)
  /\ count' = IF count < Limit THEN count + 1 ELSE count

save_wifi_NoSearch(t, n, pw) ==
  /\ writing[t] = Idle
  /\ Insert(n, pw)
  /\ writing' = [writing EXCEPT ![t] = ListWrite]
  /\ UNCHANGED <<ram, durable, lost>>

save_wifi(t, n, pw) ==
  /\ writing[t] = Idle
  /\ IF Known(n) THEN MoveToFront(n, pw) ELSE Insert(n, pw)
  /\ writing' = [writing EXCEPT ![t] = ListWrite]
  /\ UNCHANGED <<ram, durable, lost>>

remove_wifi_NoClear(t, n) ==
  /\ writing[t] = Idle /\ Known(n)
  /\ slots' = [k \in Slots |-> IF IndexOf(n) <= k /\ k < count THEN slots[k + 1] ELSE slots[k]]
  /\ count' = count - 1
  /\ writing' = [writing EXCEPT ![t] = ListWrite]
  /\ UNCHANGED <<ram, durable, lost>>

remove_wifi(t, n) ==
  /\ writing[t] = Idle /\ Known(n)
  /\ slots' = [k \in Slots |-> IF k = count THEN Empty
                               ELSE IF IndexOf(n) <= k /\ k < count THEN slots[k + 1]
                               ELSE slots[k]]
  /\ count' = count - 1
  /\ writing' = [writing EXCEPT ![t] = ListWrite]
  /\ UNCHANGED <<ram, durable, lost>>

(* settings_manager_save_location(), _price_zone(), _sta_static_ip(), ... *)
save_value(t, k, v) ==
  /\ writing[t] = Idle
  /\ ram' = [ram EXCEPT ![k] = Kept[v]]
  /\ writing' = [writing EXCEPT ![t] = [key |-> k, value |-> v]]
  /\ UNCHANGED <<networks, durable, lost>>

-----------------------------------------------------------------------------
(* The second half of a save. *)

WriteList(t) ==
  /\ writing[t] = ListWrite
  /\ nvsSlots' = slots
  /\ lost' = lost \ {"list"}
  /\ writing' = [writing EXCEPT ![t] = Idle]
  /\ UNCHANGED <<networks, ram, nvs>>

WriteValue_OfArgument(t) ==
  /\ writing[t] \notin {Idle, ListWrite}
  /\ nvs' = [nvs EXCEPT ![writing[t].key] = writing[t].value]
  /\ lost' = lost \ {writing[t].key}
  /\ writing' = [writing EXCEPT ![t] = Idle]
  /\ UNCHANGED <<networks, ram, nvsSlots>>

WriteValue(t) ==
  /\ writing[t] \notin {Idle, ListWrite}
  /\ LET k == writing[t].key
     IN  /\ nvs' = [nvs EXCEPT ![k] = IF k \in BufferKeys THEN ram[k] ELSE writing[t].value]
         /\ lost' = lost \ {k}
  /\ writing' = [writing EXCEPT ![t] = Idle]
  /\ UNCHANGED <<networks, ram, nvsSlots>>

(* nvs_open() or the write fails: the save ends without an error. *)
WriteRefused(t) ==
  /\ writing[t] # Idle
  /\ lost' = lost \cup {writing[t].key}
  /\ writing' = [writing EXCEPT ![t] = Idle]
  /\ UNCHANGED <<networks, ram, durable>>

-----------------------------------------------------------------------------
InUse(s) == {k \in Slots : s[k] # Empty}

ReadBack(k, v) == IF k \in BufferKeys THEN v ELSE Reread[v]

(* A restart at any point.  settings_manager_init() may have to erase NVS; it *)
(* goes on with the default of whatever it cannot read, nothing if NVS cannot *)
(* be opened, and counts the slots in use.                                   *)
Restart ==
  /\ \/ UNCHANGED durable
     \/ nvsSlots' = NoSlots /\ nvs' = [k \in Keys |-> Default]
  /\ \E unread \in SUBSET (Keys \cup {"list"}) :
       /\ slots' = IF "list" \in unread THEN NoSlots ELSE nvsSlots'
       /\ count' = Cardinality(InUse(slots'))
       /\ ram' = [k \in Keys |-> IF k \in unread THEN Default ELSE ReadBack(k, nvs'[k])]
       /\ lost' = unread
  /\ writing' = [t \in Tasks |-> Idle]

Init ==
  /\ slots = NoSlots /\ count = 0
  /\ nvsSlots = slots
  /\ ram = [k \in Keys |-> Default] /\ nvs = ram
  /\ writing = [t \in Tasks |-> Idle]
  /\ lost = {}

Next ==
  \/ \E t \in Tasks :
       \/ \E n \in Names, pw \in Passwords : save_wifi(t, n, pw)
       \/ \E n \in Names : remove_wifi(t, n)
       \/ \E k \in Keys, v \in Values : save_value(t, k, v)
       \/ WriteList(t) \/ WriteValue(t) \/ WriteRefused(t)
  \/ Restart

Spec == Init /\ [][Next]_vars

-----------------------------------------------------------------------------
TypeOK ==
  /\ slots \in [Slots -> Entries \cup {Empty}] /\ count \in 0..Limit
  /\ nvsSlots \in [Slots -> Entries \cup {Empty}]
  /\ ram \in [Keys -> Values] /\ nvs \in [Keys -> Values]
  /\ writing \in [Tasks -> Writes \cup {Idle}]
  /\ lost \subseteq Keys \cup {"list"}

(* The slots in use are the first ones, in RAM and in the blob: a restart    *)
(* that counts them finds the same list, and the loops over g_wifi_count see  *)
(* every network and no stale one.                                           *)
Packed ==
  /\ \A k \in Slots : (slots[k] # Empty) <=> (k <= count)
  /\ \E c \in 0..Limit : \A k \in Slots : (nvsSlots[k] # Empty) <=> (k <= c)

(* A network is saved once, so that no old password of it is left to be      *)
(* found, unless its name was cut to the size of the field.                   *)
SavedOnce ==
  \A s \in {slots, nvsSlots} : \A i, j \in InUse(s) :
    s[i].ssid = s[j].ssid /\ s[i].ssid \in Names => i = j

Pending(k) == \E t \in Tasks : writing[t] # Idle /\ writing[t].key = k

(* README.md: "All configuration is persisted to NVS flash and survives      *)
(* reboots."  With nothing left to write, NVS holds what RAM holds, whichever *)
(* task wrote last, because the buffer is written and not the argument of the *)
(* call; except what NVS refused to write or, at this boot, to read, until it  *)
(* is saved again.  (Not so for the ArgumentKeys: NVS may keep a value that   *)
(* does not fit, or that lost in RAM when two tasks saved one of them.)       *)
SurvivesReboot ==
  /\ ~Pending("list") /\ "list" \notin lost => nvsSlots = slots
  /\ \A k \in BufferKeys : ~Pending(k) /\ k \notin lost => nvs[k] = ram[k]

(* The array and its count implement the list of SavedNetworks.              *)
Contents(s) == SubSeq(s, 1, Cardinality(InUse(s)))

Promise == INSTANCE SavedNetworks WITH list <- SubSeq(slots, 1, count),
                                       flash <- Contents(nvsSlots)
RefinesSavedNetworks == Promise!Spec
=============================================================================
