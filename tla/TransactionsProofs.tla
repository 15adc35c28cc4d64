------------------------- MODULE TransactionsProofs -------------------------
(***************************************************************************)
(* For any clients and keys: the watch registry is exact, eager marking    *)
(* misses no change and never marks without a cause, and EXEC runs only on *)
(* unchanged watched keys.                                                 *)
(***************************************************************************)
EXTENDS Transactions, SequenceTheorems, TLAPS

(* The part of the invariant that lives in the watch variables alone. *)
WatchOK ==
  /\ watch_dirty \in [Conn -> BOOLEAN]
  /\ watched_keys \in [Conn -> SUBSET Key]
  /\ watchers \in [Key -> SUBSET Conn]
  /\ changed \in [Conn -> SUBSET Key]
  /\ named \in [Conn -> SUBSET Key]
  /\ leftover \in [Conn -> SUBSET Key]
  /\ \A c \in Conn, k \in Key : c \in watchers[k] <=> k \in watched_keys[c]
  /\ \A c \in Conn : changed[c] # {} => watch_dirty[c]
  /\ \A c \in Conn : watch_dirty[c] => named[c] # {}

(* The transaction state, and who may have any. *)
TxnOK ==
  /\ open \subseteq Conn
  /\ in_multi \in [Conn -> BOOLEAN]
  /\ multi_dirty \in [Conn -> BOOLEAN]
  /\ queue_cmds \in [Conn -> Seq(Cmd)]
  /\ \A c \in Conn : (queue_cmds[c] # <<>> \/ multi_dirty[c]) => in_multi[c]
  /\ \A c \in Conn : in_multi[c] => c \in open

(* The rest of the types. *)
RestOK ==
  /\ paused \in BOOLEAN
  /\ parked \in [Conn -> WriteCmd \cup {Nothing}]
  /\ running \in Conn \cup {Idle}
  /\ batch \in Seq(Cmd)
  /\ intruded \in BOOLEAN

(* The inductive invariant; a closed connection watches nothing. *)
Inv ==
  /\ WatchOK /\ TxnOK /\ RestOK
  /\ \A c \in Conn : c \notin open => watched_keys[c] = {}

-----------------------------------------------------------------------------
(* Whatever changes is touched. *)
Covered == {effect \in Effect : effect.changed \subseteq effect.touched}

(* Touching all that changes keeps the watch variables consistent. *)
LEMMA TouchKeeps ==
  ASSUME WatchOK, NEW effect \in Covered, Touch(effect)
  PROVE  WatchOK' /\ watched_keys' = watched_keys
<1>0. /\ effect.touched \in SUBSET Key /\ effect.changed \in SUBSET Key
      /\ effect.changed \subseteq effect.touched
  BY DEF Covered, Effect
<1>1. watched_keys' = watched_keys /\ watchers' = watchers /\ leftover' = leftover
  BY DEF Touch
<1>2. /\ watch_dirty' \in [Conn -> BOOLEAN] /\ changed' \in [Conn -> SUBSET Key]
      /\ named' \in [Conn -> SUBSET Key]
  BY <1>0 DEF Touch, WatchOK
<1>3. ASSUME NEW c \in Conn
      PROVE  (changed'[c] # {} => watch_dirty'[c]) /\ (watch_dirty'[c] => named'[c] # {})
  <2>1. watch_dirty'[c] <=> (watch_dirty[c] \/ \E k \in effect.touched : c \in watchers[k])
    BY DEF Touch
  <2>2. /\ changed'[c] = changed[c] \cup (effect.changed \cap watched_keys[c])
        /\ named'[c] = named[c] \cup (effect.touched \cap watched_keys[c])
    BY DEF Touch
  <2>3. (\E k \in effect.touched : c \in watchers[k]) <=> effect.touched \cap watched_keys[c] # {}
    BY <1>0 DEF WatchOK
  <2>4. (changed[c] # {} => watch_dirty[c]) /\ (watch_dirty[c] => named[c] # {})
    BY DEF WatchOK
  <2> QED BY <1>0, <2>1, <2>2, <2>3, <2>4
<1> QED BY <1>1, <1>2, <1>3 DEF WatchOK

(* watch_clear_conn removes exactly one connection from the registry. *)
LEMMA ClearKeeps ==
  ASSUME WatchOK, NEW c \in Conn, watch_clear_conn(c)
  PROVE  WatchOK' /\ watched_keys' = [watched_keys EXCEPT ![c] = {}]
<1>1. /\ watched_keys' = [watched_keys EXCEPT ![c] = {}]
      /\ watch_dirty' = [watch_dirty EXCEPT ![c] = FALSE]
      /\ changed' = [changed EXCEPT ![c] = {}]
      /\ named' = [named EXCEPT ![c] = {}]
      /\ leftover' = [leftover EXCEPT ![c] = {}]
      /\ watchers' = [k \in Key |-> IF k \in watched_keys[c] THEN watchers[k] \ {c}
                                                            ELSE watchers[k]]
  BY DEF watch_clear_conn
<1>2. /\ watch_dirty' \in [Conn -> BOOLEAN] /\ watched_keys' \in [Conn -> SUBSET Key]
      /\ watchers' \in [Key -> SUBSET Conn] /\ changed' \in [Conn -> SUBSET Key]
      /\ named' \in [Conn -> SUBSET Key] /\ leftover' \in [Conn -> SUBSET Key]
  BY <1>1 DEF WatchOK
<1>3. ASSUME NEW d \in Conn, NEW k \in Key
      PROVE  d \in watchers'[k] <=> k \in watched_keys'[d]
  BY <1>1 DEF WatchOK
<1>4. ASSUME NEW d \in Conn
      PROVE  (changed'[d] # {} => watch_dirty'[d]) /\ (watch_dirty'[d] => named'[d] # {})
  <2>1. CASE d = c
    BY <2>1, <1>1 DEF WatchOK
  <2>2. CASE d # c
    BY <2>2, <1>1 DEF WatchOK
  <2> QED BY <2>1, <2>2
<1> QED BY <1>1, <1>2, <1>3, <1>4 DEF WatchOK

(* A write touches whatever it changes, and so does an eviction. *)
LEMMA EffectsAreCovered ==
  /\ \A keys \in SUBSET Key : Evicted(keys) \in Covered
  /\ \A cmd \in WriteCmd : \A effect \in Effects(cmd) : effect \in Covered
<1>1. ASSUME NEW touched \in SUBSET Key, NEW gone \in SUBSET Key, gone \subseteq touched
      PROVE  [touched |-> touched, changed |-> gone] \in Covered
  BY <1>1 DEF Covered, Effect
<1>2. ASSUME NEW keys \in SUBSET Key PROVE Evicted(keys) \in Covered
  BY <1>1 DEF Evicted
<1>3. ASSUME NEW cmd \in WriteCmd, NEW effect \in Effects(cmd) PROVE effect \in Covered
  <2>1. CASE cmd.op = "flushall"
    <3>1. PICK gone \in SUBSET Key : effect = [touched |-> Key, changed |-> gone]
      BY <1>3, <2>1 DEF Effects
    <3> QED BY <1>1, <3>1
  <2>2. CASE cmd.op # "flushall" /\ \E keys \in SUBSET Key : effect = Evicted(keys)
    BY <1>2, <2>2
  <2>3. CASE /\ cmd.op # "flushall"
             /\ \E evicted \in SUBSET Key, own \in SUBSET cmd.keys :
                  effect = [touched |-> evicted \cup cmd.keys, changed |-> evicted \cup own]
    <3>1. cmd.keys \in SUBSET Key
      BY <1>3, <2>3 DEF WriteCmd
    <3>2. PICK evicted \in SUBSET Key, own \in SUBSET cmd.keys :
            effect = [touched |-> evicted \cup cmd.keys, changed |-> evicted \cup own]
      BY <2>3
    <3> QED BY <1>1, <3>1, <3>2
  <2> QED BY <1>3, <2>1, <2>2, <2>3 DEF Effects
<1> QED BY <1>2, <1>3

(* Resuming the parked writes touches what they change and empties the     *)
(* parking.                                                                *)
LEMMA ResumeKeeps ==
  ASSUME WatchOK, RestOK, fo_resume_paused_writes
  PROVE  /\ WatchOK' /\ watched_keys' = watched_keys
         /\ paused' \in BOOLEAN /\ parked' \in [Conn -> WriteCmd \cup {Nothing}]
<1>1. PICK effect \in [Parked -> Effect] :
        /\ \A c \in Parked : effect[c] \in Effects(parked[c])
        /\ Touch([touched |-> UNION {effect[c].touched : c \in Parked},
                  changed |-> UNION {effect[c].changed : c \in Parked}])
  BY DEF fo_resume_paused_writes
<1> DEFINE touched == UNION {effect[c].touched : c \in Parked}
           gone    == UNION {effect[c].changed : c \in Parked}
<1>2. ASSUME NEW c \in Parked
      PROVE  /\ effect[c].touched \subseteq Key
             /\ effect[c].changed \subseteq effect[c].touched
  <2>1. parked[c] \in WriteCmd
    BY DEF Parked, RestOK
  <2>2. effect[c] \in Covered
    BY <1>1, <2>1, EffectsAreCovered
  <2> QED BY <2>2 DEF Covered, Effect
<1>3. touched \in SUBSET Key /\ gone \subseteq touched
  BY <1>2
<1> HIDE DEF touched, gone
<1>4. [touched |-> touched, changed |-> gone] \in Covered
  BY <1>3 DEF Covered, Effect
<1>5. Touch([touched |-> touched, changed |-> gone])
  BY <1>1 DEF touched, gone
<1>6. WatchOK' /\ watched_keys' = watched_keys
  BY <1>4, <1>5, TouchKeeps
<1> QED BY <1>6 DEF fo_resume_paused_writes

(* Nothing that WatchOK speaks of has changed. *)
LEMMA WatchSame ==
  ASSUME WatchOK, UNCHANGED watchVars
  PROVE  WatchOK' /\ watched_keys' = watched_keys
BY DEF WatchOK, watchVars

-----------------------------------------------------------------------------
(* A server that has just started. *)
LEMMA InitInv == Init => Inv
<1> SUFFICES ASSUME Init PROVE Inv
  OBVIOUS
<1>1. WatchOK BY DEF Init, WatchOK
<1>2. TxnOK
  <2>1. queue_cmds \in [Conn -> Seq(Cmd)] /\ \A c \in Conn : queue_cmds[c] = <<>>
    BY DEF Init
  <2>2. /\ in_multi \in [Conn -> BOOLEAN] /\ multi_dirty \in [Conn -> BOOLEAN]
        /\ \A c \in Conn : ~in_multi[c] /\ ~multi_dirty[c]
    BY DEF Init
  <2>3. open \subseteq Conn
    BY DEF Init
  <2> QED BY <2>1, <2>2, <2>3 DEF TxnOK
<1>3. RestOK
  <2>1. batch \in Seq(Cmd)
    BY DEF Init
  <2>2. paused \in BOOLEAN /\ intruded \in BOOLEAN
    BY DEF Init
  <2>3. parked \in [Conn -> WriteCmd \cup {Nothing}] /\ running \in Conn \cup {Idle}
    BY DEF Init
  <2> QED BY <2>1, <2>2, <2>3 DEF RestOK
<1>4. \A c \in Conn : watched_keys[c] = {}
  BY DEF Init
<1> QED BY <1>1, <1>2, <1>3, <1>4 DEF Inv

(* The end of a transaction, and the state it leaves. *)
LEMMA LeaveKeeps ==
  ASSUME TxnOK, NEW c \in Conn, LeaveMulti(c), open' = open
  PROVE  TxnOK'
BY DEF TxnOK, LeaveMulti

(* Every step preserves the invariant. *)
LEMMA StepInv == Inv /\ [Next]_vars => Inv'
<1> SUFFICES ASSUME Inv, [Next]_vars PROVE Inv'
  OBVIOUS
<1>0. WatchOK /\ TxnOK /\ RestOK /\ \A c \in Conn : c \notin open => watched_keys[c] = {}
  BY DEF Inv
<1>1. ASSUME NEW c \in Conn, Connect(c) PROVE Inv'
  <2>1. WatchOK' /\ watched_keys' = watched_keys
    BY <1>0, <1>1, WatchSame DEF Connect
  <2>2. TxnOK' BY <1>0, <1>1 DEF Connect, TxnOK, txnVars
  <2>3. RestOK' BY <1>0, <1>1 DEF Connect, RestOK, execVars, pauseVars
  <2> QED BY <1>0, <1>1, <2>1, <2>2, <2>3 DEF Inv, Connect
<1>2. ASSUME NEW c \in Conn, Disconnect(c) PROVE Inv'
  <2>1. WatchOK' /\ watched_keys' = [watched_keys EXCEPT ![c] = {}]
    BY <1>0, <1>2, ClearKeeps DEF Disconnect
  <2>2. TxnOK' BY <1>0, <1>2 DEF Disconnect, TxnOK
  <2>3. RestOK' BY <1>0, <1>2 DEF Disconnect, RestOK, execVars
  <2>4. \A d \in Conn : d \notin open' => watched_keys'[d] = {}
    BY <1>0, <1>2, <2>1 DEF Disconnect, WatchOK
  <2> QED BY <2>1, <2>2, <2>3, <2>4 DEF Inv
<1>3. ASSUME NEW c \in Conn, do_multi(c) PROVE Inv'
  <2>1. WatchOK' /\ watched_keys' = watched_keys
    BY <1>0, <1>3, WatchSame DEF do_multi
  <2>2. TxnOK' BY <1>0, <1>3 DEF do_multi, TxnOK, Serves
  <2>3. RestOK' BY <1>0, <1>3 DEF do_multi, RestOK, execVars, pauseVars
  <2> QED BY <1>0, <1>3, <2>1, <2>2, <2>3 DEF Inv, do_multi
<1>4. ASSUME NEW c \in Conn, do_discard(c) PROVE Inv'
  <2>1. WatchOK' /\ watched_keys' = [watched_keys EXCEPT ![c] = {}]
    BY <1>0, <1>4, ClearKeeps DEF do_discard
  <2>2. TxnOK' BY <1>0, <1>4, LeaveKeeps DEF do_discard
  <2>3. RestOK' BY <1>0, <1>4 DEF do_discard, RestOK, execVars, pauseVars
  <2>4. \A d \in Conn : d \notin open' => watched_keys'[d] = {}
    BY <1>0, <1>4, <2>1 DEF do_discard, WatchOK
  <2> QED BY <2>1, <2>2, <2>3, <2>4 DEF Inv
<1>5. ASSUME NEW c \in Conn, do_unwatch(c) PROVE Inv'
  <2>1. WatchOK' /\ watched_keys' = [watched_keys EXCEPT ![c] = {}]
    BY <1>0, <1>5, ClearKeeps DEF do_unwatch
  <2>2. TxnOK' BY <1>0, <1>5 DEF do_unwatch, TxnOK, txnVars
  <2>3. RestOK' BY <1>0, <1>5 DEF do_unwatch, RestOK, execVars, pauseVars
  <2>4. \A d \in Conn : d \notin open' => watched_keys'[d] = {}
    BY <1>0, <1>5, <2>1 DEF do_unwatch, WatchOK
  <2> QED BY <2>1, <2>2, <2>3, <2>4 DEF Inv
<1>6. ASSUME NEW c \in Conn, Reject(c) PROVE Inv'
  <2>1. WatchOK' /\ watched_keys' = watched_keys
    BY <1>0, <1>6, WatchSame DEF Reject
  <2>2. TxnOK' BY <1>0, <1>6 DEF Reject, TxnOK
  <2>3. RestOK' BY <1>0, <1>6 DEF Reject, RestOK, execVars, pauseVars
  <2> QED BY <1>0, <1>6, <2>1, <2>2, <2>3 DEF Inv, Reject
<1>7. ASSUME NEW c \in Conn, ExecAborts(c) PROVE Inv'
  <2>1. WatchOK' /\ watched_keys' = watched_keys
    BY <1>0, <1>7 DEF ExecAborts, WatchOK
  <2>2. TxnOK' BY <1>0, <1>7, LeaveKeeps DEF ExecAborts
  <2>3. RestOK' BY <1>0, <1>7 DEF ExecAborts, RestOK, execVars, pauseVars
  <2> QED BY <1>0, <1>7, <2>1, <2>2, <2>3 DEF Inv, ExecAborts
<1>8. ASSUME NEW c \in Conn, ExecFails(c) PROVE Inv'
  <2>1. WatchOK' /\ watched_keys' = [watched_keys EXCEPT ![c] = {}]
    BY <1>0, <1>8, ClearKeeps DEF ExecFails
  <2>2. TxnOK' BY <1>0, <1>8 DEF ExecFails, TxnOK
  <2>3. RestOK' BY <1>0, <1>8 DEF ExecFails, RestOK, execVars, pauseVars
  <2>4. \A d \in Conn : d \notin open' => watched_keys'[d] = {}
    BY <1>0, <1>8, <2>1 DEF ExecFails, WatchOK
  <2> QED BY <2>1, <2>2, <2>3, <2>4 DEF Inv
<1>9. ASSUME NEW c \in Conn, ExecStarts(c) PROVE Inv'
  <2>1. WatchOK' /\ watched_keys' = [watched_keys EXCEPT ![c] = {}]
    BY <1>0, <1>9, ClearKeeps DEF ExecStarts
  <2>2. TxnOK' BY <1>0, <1>9, LeaveKeeps DEF ExecStarts
  <2>3. RestOK' BY <1>0, <1>9 DEF ExecStarts, RestOK, TxnOK, pauseVars
  <2>4. \A d \in Conn : d \notin open' => watched_keys'[d] = {}
    BY <1>0, <1>9, <2>1 DEF ExecStarts, WatchOK
  <2> QED BY <2>1, <2>2, <2>3, <2>4 DEF Inv
<1>10. ASSUME NEW c \in Conn, NEW k \in Key, do_watch(c, k) PROVE Inv'
  <2>1. WatchOK'
    <3>1. /\ watched_keys' = [watched_keys EXCEPT ![c] = @ \cup {k}]
          /\ watchers' = IF k \in watched_keys[c] THEN watchers
                           ELSE [watchers EXCEPT ![k] = @ \cup {c}]
          /\ watch_dirty' = watch_dirty /\ changed' = changed
          /\ named' = named /\ leftover' = leftover
      BY <1>10 DEF do_watch
    <3>2. watched_keys' \in [Conn -> SUBSET Key] /\ watchers' \in [Key -> SUBSET Conn]
      BY <1>0, <3>1 DEF WatchOK
    <3>3. ASSUME NEW d \in Conn, NEW j \in Key
          PROVE  d \in watchers'[j] <=> j \in watched_keys'[d]
      BY <1>0, <3>1 DEF WatchOK
    <3> QED BY <1>0, <3>1, <3>2, <3>3 DEF WatchOK
  <2>2. TxnOK' BY <1>0, <1>10 DEF do_watch, TxnOK, txnVars
  <2>3. RestOK' BY <1>0, <1>10 DEF do_watch, RestOK, execVars, pauseVars
  <2>4. \A d \in Conn : d \notin open' => watched_keys'[d] = {}
    BY <1>0, <1>10 DEF do_watch, Serves, WatchOK
  <2> QED BY <2>1, <2>2, <2>3, <2>4 DEF Inv
<1>11. ASSUME NEW c \in Conn, NEW cmd \in WriteCmd, Write(c, cmd) PROVE Inv'
  <2>1. WatchOK' /\ watched_keys' = watched_keys
    <3>1. CASE paused
      BY <1>0, <1>11, <3>1, WatchSame DEF Write
    <3>2. CASE ~paused
      <4>1. PICK effect \in Effects(cmd) : Touch(effect)
        BY <1>11, <3>2 DEF Write
      <4>2. effect \in Covered
        BY <4>1, EffectsAreCovered
      <4> QED BY <1>0, <4>1, <4>2, TouchKeeps
    <3> QED BY <3>1, <3>2
  <2>2. TxnOK' BY <1>0, <1>11 DEF Write, TxnOK, txnVars
  <2>3. RestOK' BY <1>0, <1>11 DEF Write, RestOK, execVars, pauseVars
  <2> QED BY <1>0, <1>11, <2>1, <2>2, <2>3 DEF Inv, Write
<1>12. ASSUME NEW c \in Conn, NEW cmd \in Cmd, Queue(c, cmd) PROVE Inv'
  <2>1. WatchOK' /\ watched_keys' = watched_keys
    BY <1>0, <1>12, WatchSame DEF Queue
  <2>2. TxnOK'
    <3>1. in_multi[c] /\ in_multi' = in_multi /\ open' = open
      BY <1>12 DEF Queue
    <3>2. CASE paused /\ cmd \in WriteCmd
      <4>1. multi_dirty' = [multi_dirty EXCEPT ![c] = TRUE] /\ queue_cmds' = queue_cmds
        BY <1>12, <3>2 DEF Queue
      <4> QED BY <1>0, <3>1, <4>1 DEF TxnOK
    <3>3. CASE ~(paused /\ cmd \in WriteCmd)
      <4>1. /\ queue_cmds' = [queue_cmds EXCEPT ![c] = Append(@, cmd)]
            /\ multi_dirty' = multi_dirty
        BY <1>12, <3>3 DEF Queue
      <4>2. queue_cmds' \in [Conn -> Seq(Cmd)]
        BY <1>0, <4>1, AppendProperties DEF TxnOK
      <4> QED BY <1>0, <3>1, <4>1, <4>2 DEF TxnOK
    <3> QED BY <3>2, <3>3
  <2>3. RestOK' BY <1>0, <1>12 DEF Queue, RestOK, execVars, pauseVars
  <2> QED BY <1>0, <1>12, <2>1, <2>2, <2>3 DEF Inv, Queue
<1>13. CASE evict_tick
  <2>1. PICK keys \in SUBSET Key : Touch(Evicted(keys))
    BY <1>13 DEF evict_tick
  <2>2. WatchOK' /\ watched_keys' = watched_keys
    BY <1>0, <2>1, EffectsAreCovered, TouchKeeps
  <2>3. TxnOK' BY <1>0, <1>13 DEF evict_tick, TxnOK, txnVars
  <2>4. RestOK' BY <1>0, <1>13 DEF evict_tick, RestOK, execVars, pauseVars
  <2> QED BY <1>0, <1>13, <2>2, <2>3, <2>4 DEF Inv, evict_tick
<1>14. CASE PauseBegins
  <2>1. WatchOK' /\ watched_keys' = watched_keys
    BY <1>0, <1>14, WatchSame DEF PauseBegins
  <2>2. TxnOK' BY <1>0, <1>14 DEF PauseBegins, TxnOK, txnVars
  <2>3. RestOK' BY <1>0, <1>14 DEF PauseBegins, RestOK, execVars
  <2> QED BY <1>0, <1>14, <2>1, <2>2, <2>3 DEF Inv, PauseBegins
<1>15. CASE PauseEnds
  <2>1. /\ WatchOK' /\ watched_keys' = watched_keys
        /\ paused' \in BOOLEAN /\ parked' \in [Conn -> WriteCmd \cup {Nothing}]
    BY <1>0, <1>15, ResumeKeeps DEF PauseEnds
  <2>2. TxnOK' BY <1>0, <1>15 DEF PauseEnds, TxnOK, txnVars
  <2>3. RestOK' BY <1>0, <1>15, <2>1 DEF PauseEnds, RestOK, execVars
  <2> QED BY <1>0, <1>15, <2>1, <2>2, <2>3 DEF Inv, PauseEnds
<1>16. CASE ExecCommand
  <2>1. /\ WatchOK' /\ watched_keys' = watched_keys
        /\ paused' \in BOOLEAN /\ parked' \in [Conn -> WriteCmd \cup {Nothing}]
        /\ intruded' \in BOOLEAN
    <3>1. CASE UNCHANGED <<watchVars, pauseVars, intruded>>
      BY <1>0, <3>1, WatchSame DEF RestOK, pauseVars
    <3>2. CASE /\ Head(batch) \in WriteCmd
               /\ \E effect \in Effects(Head(batch)) : Touch(effect)
               /\ UNCHANGED <<pauseVars, intruded>>
      <4>1. PICK effect \in Effects(Head(batch)) : Touch(effect)
        BY <3>2
      <4>2. effect \in Covered
        BY <3>2, <4>1, EffectsAreCovered
      <4>3. WatchOK' /\ watched_keys' = watched_keys
        BY <1>0, <4>1, <4>2, TouchKeeps
      <4> QED BY <1>0, <3>2, <4>3 DEF RestOK, pauseVars
    <3>3. CASE fo_resume_paused_writes /\ intruded' = (intruded \/ Parked # {})
      BY <1>0, <3>3, ResumeKeeps DEF RestOK
    <3> QED BY <1>16, <3>1, <3>2, <3>3 DEF ExecCommand
  <2>2. TxnOK' BY <1>0, <1>16 DEF ExecCommand, TxnOK, txnVars
  <2>3. batch' \in Seq(Cmd) /\ running' \in Conn \cup {Idle}
    BY <1>0, <1>16, HeadTailProperties DEF ExecCommand, RestOK
  <2>4. RestOK' BY <2>1, <2>3 DEF RestOK
  <2> QED BY <1>0, <1>16, <2>1, <2>2, <2>4 DEF Inv, ExecCommand
<1>17. CASE ExecEnds
  <2>1. WatchOK' /\ watched_keys' = watched_keys
    BY <1>0, <1>17, WatchSame DEF ExecEnds
  <2>2. TxnOK' BY <1>0, <1>17 DEF ExecEnds, TxnOK, txnVars
  <2>3. RestOK' BY <1>0, <1>17 DEF ExecEnds, RestOK, pauseVars
  <2> QED BY <1>0, <1>17, <2>1, <2>2, <2>3 DEF Inv, ExecEnds
<1>18. CASE UNCHANGED vars
  <2>1. WatchOK' /\ watched_keys' = watched_keys
    BY <1>0, <1>18, WatchSame DEF vars
  <2>2. TxnOK' BY <1>0, <1>18 DEF vars, TxnOK, txnVars
  <2>3. RestOK' BY <1>0, <1>18 DEF vars, RestOK, execVars, pauseVars
  <2> QED BY <1>0, <1>18, <2>1, <2>2, <2>3 DEF Inv, vars
<1> QED
  BY <1>1, <1>2, <1>3, <1>4, <1>5, <1>6, <1>7, <1>8, <1>9, <1>10, <1>11, <1>12,
     <1>13, <1>14, <1>15, <1>16, <1>17, <1>18 DEF Next

-----------------------------------------------------------------------------
(* The inductive invariant holds of every behaviour. *)
THEOREM TransactionInvariant == Spec => []Inv
BY InitInv, StepInv, PTL DEF Spec

(* Every variable keeps its type. *)
THEOREM TypesHold == Spec => []TypeOK
<1>1. Inv => TypeOK
  BY DEF Inv, WatchOK, TxnOK, RestOK, TypeOK
<1> QED BY <1>1, TransactionInvariant, PTL

(* g_data.watchers and the connections' watched_keys always agree, and a   *)
(* destroyed connection is in no bucket.                                   *)
THEOREM RegistryIsExact == Spec => []RegistryExact
<1>1. Inv => RegistryExact
  BY DEF Inv, WatchOK, RegistryExact
<1> QED BY <1>1, TransactionInvariant, PTL

(* watch_dirty is set whenever a watched key has changed since WATCH, and  *)
(* only if one was evicted, flushed or named by a write that took effect.  *)
THEOREM MarkingIsSound == Spec => []MarksSound
<1>1. Inv => MarksSound
  BY DEF Inv, WatchOK, MarksSound
<1> QED BY <1>1, TransactionInvariant, PTL

(* do_exec runs a batch only on watched keys that are unchanged.           *)
THEOREM ExecIsGuarded == Spec => ExecOnlyIfUnchanged
<1>1. Inv /\ [Next]_vars =>
        [\A c \in Conn : running = Idle /\ running' = c => changed[c] = {}]_vars
  <2> SUFFICES ASSUME Inv, Next, NEW c \in Conn, running = Idle, running' = c
               PROVE  changed[c] = {}
    BY DEF vars
  <2>1. running' # running
    BY ValueAssumption
  <2>2. PICK d \in Conn : ExecStarts(d)
    BY <2>1 DEF Next, Connect, Disconnect, do_multi, do_discard, do_unwatch, Reject,
       ExecAborts, ExecFails, do_watch, Write, Queue, evict_tick, PauseBegins, PauseEnds,
       ExecCommand, ExecEnds, execVars
  <2>3. d = c /\ ~watch_dirty[c]
    BY <2>2 DEF ExecStarts
  <2> QED BY <2>3 DEF Inv, WatchOK
<1> QED BY <1>1, TransactionInvariant, PTL DEF Spec, ExecOnlyIfUnchanged

(* A queue or a poison mark never outlives its transaction. *)
THEOREM AttemptsAreSeparate == Spec => []NothingOutlivesMulti
<1>1. Inv => NothingOutlivesMulti
  BY DEF Inv, TxnOK, NothingOutlivesMulti
<1> QED BY <1>1, TransactionInvariant, PTL

(* What do_exec relies on holds in every state: registry, marks, attempts. *)
THEOREM WatchesAreSound == Spec => []WatchesSound
BY TypesHold, RegistryIsExact, MarkingIsSound, AttemptsAreSeparate, PTL DEF WatchesSound
=============================================================================
