------------------------------ MODULE LedTimer ------------------------------
(***************************************************************************)
(* The kernel modules src/src/exercises/v12/ledb.c and rpiledb.c: an LED   *)
(* blinked by a timer that arms itself, and switched by bytes written to a *)
(* character device.  The two are one program in two versions; rpiledb     *)
(* drives a pin of the board, and reads the switch from another, while     *)
(* ledb keeps both in variables.  The timer callback, the writes of        *)
(* several processes, insmod and rmmod run on different processors, with   *)
(* no lock; the statements that touch what they share are the steps.       *)
(* file_operations.owner is not set, so rmmod does not wait for open files.*)
(***************************************************************************)
EXTENDS Integers

CONSTANTS
    Users,     \* processes that write to the device
    MaxWrites  \* bound of the exploration: bytes written

ASSUME LedAssumption == MaxWrites \in Nat

\* What mod_timer may have set: jiffies (at once), half a second, two seconds.
Delays == {0, 500, 2000}
Idle == -1

VARIABLES
    driver,   \* which of the two modules it is
    module,   \* the next step of insmod or rmmod, "loaded" between them
    timer,    \* Idle, or what the timer was armed with
    cb,       \* the next step of the callback
    LEDon, SWITCHon, active,
    pin,      \* rpiledb: the output, GPIO 15
    switch,   \* rpiledb: the input, GPIO 14
    user,     \* the next step of each process
    byte,     \* the byte each process writes
    writes,   \* bytes written so far
    ran,      \* history: the callback has run
    stray     \* history: a write armed the timer after rmmod had deleted it

flags == <<SWITCHon, active>>
light == <<LEDon, pin>>
users == <<user, byte, writes>>
vars == <<driver, module, timer, cb, light, flags, switch, users, ran, stray>>

Init ==
    /\ driver \in {"ledb", "rpiledb"}
    /\ module = "register" /\ timer = Idle /\ cb = "idle"
    /\ LEDon = FALSE /\ SWITCHon = FALSE /\ active = (driver = "rpiledb")
    /\ pin = FALSE /\ switch \in (IF driver = "rpiledb" THEN BOOLEAN ELSE {FALSE})
    /\ user = [u \in Users |-> "idle"] /\ byte = [u \in Users |-> 0] /\ writes = 0
    /\ ran = FALSE /\ stray = FALSE

-----------------------------------------------------------------------------
(***************************************************************************)
(* insmod and rmmod.  Definitions named ..._Slip are mistakes one could    *)
(* make in the action that follows; no specification uses them.            *)
(***************************************************************************)

\* Module step `from' to `to', which leaves the timer and the light alone.
Stage(from, to) ==
    /\ module = from /\ module' = to
    /\ UNCHANGED <<driver, cb, light, flags, switch, users, ran, stray>>

\* From here on the device can be opened and written.
Register == Stage("register", "setup") /\ UNCHANGED timer

\* timer_setup, after the pins have been set up; only ledb starts the timer.
Setup == Stage("setup", IF driver = "ledb" THEN "start" ELSE "loaded") /\ UNCHANGED timer

Start == Stage("start", "loaded") /\ timer' = 0

Rmmod == Stage("loaded", "delTimer") /\ UNCHANGED timer

DelTimer_Slip ==  \* del_timer, which does not wait for the callback
    Stage("delTimer", "free") /\ timer' = Idle

\* del_timer_sync waits for the callback, and removes what it has armed.
DelTimer == cb = "idle" /\ Stage("delTimer", "free") /\ timer' = Idle

\* kfree, or the release of the pins and their mapping.
Free ==
    /\ module = "free" /\ module' = "unregister"
    /\ pin' = FALSE
    /\ UNCHANGED <<driver, timer, cb, LEDon, flags, switch, users, ran, stray>>

Unregister == Stage("unregister", "gone") /\ UNCHANGED timer

Module == Register \/ Setup \/ Start \/ Rmmod \/ DelTimer \/ Free \/ Unregister

-----------------------------------------------------------------------------
(* timer_callback *)

\* The callback's step `from' to `to'.
Callback(from, to) ==
    /\ cb = from /\ cb' = to
    /\ UNCHANGED <<driver, module, switch, users, stray>>

\* A timer is taken off before its callback runs, and runs on one processor.
Expire ==
    /\ timer # Idle /\ module # "gone"
    /\ Callback("idle", IF driver = "rpiledb" THEN "read" ELSE "toggle")
    /\ timer' = Idle /\ ran' = TRUE
    /\ UNCHANGED <<light, flags>>

\* SWITCHon = the input pin
ReadSwitch ==
    /\ Callback("read", "toggle")
    /\ SWITCHon' = switch
    /\ UNCHANGED <<timer, light, active, ran>>

Toggle ==
    /\ Callback("toggle", "testSwitch")
    /\ LEDon' = ~LEDon
    /\ pin' = IF driver = "rpiledb" THEN ~LEDon ELSE pin
    /\ UNCHANGED <<timer, flags, ran>>

TestSwitch ==
    /\ Callback("testSwitch", IF SWITCHon THEN "arm2000" ELSE "testActive")
    /\ UNCHANGED <<timer, light, flags, ran>>

TestActive_Slip ==  \* an LED that is not to blink is left as it is
    /\ Callback("testActive", IF active THEN "arm500" ELSE "idle")
    /\ UNCHANGED <<timer, light, flags, ran>>

TestActive ==
    /\ Callback("testActive", IF active THEN "arm500" ELSE "lightUp")
    /\ UNCHANGED <<timer, light, flags, ran>>

Rearm_Slip ==  \* the two periods are added
    /\ \/ Callback("arm2000", "idle") /\ timer' = 2500
       \/ Callback("arm500", "idle") /\ timer' = 500
    /\ UNCHANGED <<light, flags, ran>>

Rearm ==
    /\ \/ Callback("arm2000", "idle") /\ timer' = 2000
       \/ Callback("arm500", "idle") /\ timer' = 500
    /\ UNCHANGED <<light, flags, ran>>

\* ledb sets the variable, rpiledb the pin and not the variable.
LightUp ==
    /\ Callback("lightUp", "idle")
    /\ LEDon' = (LEDon \/ driver = "ledb")
    /\ pin' = (pin \/ driver = "rpiledb")
    /\ UNCHANGED <<timer, flags, ran>>

Timer ==
    \/ Expire \/ ReadSwitch \/ Toggle \/ TestSwitch \/ TestActive \/ Rearm \/ LightUp

-----------------------------------------------------------------------------
(* ledb_write and rpiledb_write *)

\* A process writes a byte the driver knows; any other is refused.
Write(u) ==
    /\ user[u] = "idle" /\ writes < MaxWrites
    /\ module \notin {"register", "gone"}
    /\ user' = [user EXCEPT ![u] = "store"]
    /\ byte' \in {[byte EXCEPT ![u] = v] : v \in IF driver = "ledb" THEN 0..3 ELSE 0..1}
    /\ writes' = writes + 1
    /\ UNCHANGED <<driver, module, timer, cb, light, flags, switch, ran, stray>>

Store_Slip(u) ==  \* the timer is armed for neither start nor switch
    /\ user[u] = "store" /\ module # "gone"
    /\ active' = IF byte[u] <= 1 THEN byte[u] = 1 ELSE active
    /\ SWITCHon' = IF byte[u] >= 2 THEN byte[u] = 3 ELSE SWITCHon
    /\ user' = [user EXCEPT ![u] = "idle"]
    /\ UNCHANGED <<driver, module, timer, cb, light, switch, byte, writes, ran, stray>>

\* 0 and 1 set active, 2 and 3 SWITCHon; the odd ones call the timer after.
Store(u) ==
    /\ user[u] = "store" /\ module # "gone"
    /\ active' = IF byte[u] <= 1 THEN byte[u] = 1 ELSE active
    /\ SWITCHon' = IF byte[u] >= 2 THEN byte[u] = 3 ELSE SWITCHon
    /\ user' = [user EXCEPT ![u] = IF byte[u] \in {1, 3} THEN "arm" ELSE "idle"]
    /\ UNCHANGED <<driver, module, timer, cb, light, switch, byte, writes, ran, stray>>

\* mod_timer arms a timer that has been deleted as any other; one that has not
\* been set up has no function, and is not armed.
Arm(u) ==
    /\ user[u] = "arm" /\ module # "gone"
    /\ timer' = IF module = "setup" THEN timer ELSE 0
    /\ user' = [user EXCEPT ![u] = "idle"]
    /\ stray' = (stray \/ module \in {"free", "unregister"})
    /\ UNCHANGED <<driver, module, cb, light, flags, switch, byte, writes, ran>>

\* Somebody moves the switch of the board.
Flip ==
    /\ driver = "rpiledb" /\ switch' = ~switch
    /\ UNCHANGED <<driver, module, timer, cb, light, flags, users, ran, stray>>

User(u) == Write(u) \/ Store(u) \/ Arm(u)

-----------------------------------------------------------------------------
Next == Module \/ Timer \/ Flip \/ \E u \in Users : User(u)

Spec == Init /\ [][Next]_vars

\* The timer expires and its callback runs; a write that has begun is finished.
Fairness ==
    /\ WF_vars(Timer) /\ WF_vars(Register \/ Setup \/ Start \/ DelTimer \/ Free \/ Unregister)
    /\ \A u \in Users : WF_vars(Store(u) \/ Arm(u))

FairSpec == Spec /\ Fairness
-----------------------------------------------------------------------------
TypeOK ==
    /\ driver \in {"ledb", "rpiledb"}
    /\ module \in {"register", "setup", "start", "loaded", "delTimer", "free", "unregister", "gone"}
    /\ timer \in Delays \cup {Idle}
    /\ cb \in {"idle", "read", "toggle", "testSwitch", "testActive", "arm500", "arm2000", "lightUp"}
    /\ LEDon \in BOOLEAN /\ SWITCHon \in BOOLEAN /\ active \in BOOLEAN /\ pin \in BOOLEAN
    /\ switch \in BOOLEAN /\ ran \in BOOLEAN /\ stray \in BOOLEAN
    /\ user \in [Users -> {"idle", "store", "arm"}] /\ byte \in [Users -> 0..3] /\ writes \in Nat

Lit == IF driver = "ledb" THEN LEDon ELSE pin

\* A timer that has run out, with no write about to arm it, leaves the LED on, and
\* nothing that asks for it to blink: no request can fall between the tests of
\* the callback and its return (ledb.c:84-92 against 195-208).
RestIsLit ==
    module = "loaded" /\ ran /\ timer = Idle /\ cb = "idle" /\ (\A u \in Users : user[u] # "arm")
        => Lit /\ ~SWITCHon /\ ~active

\* The LED does in the end what the last writes asked for, however they fell
\* together with the callback: it blinks for ever, or is on for ever.
FollowsLastRequest ==
    <>[](module = "loaded" /\ ran) =>
        /\ <>[](SWITCHon \/ active) => []<>Lit /\ []<>~Lit
        /\ <>[](~SWITCHon /\ ~active) => <>[]Lit

\* When the timer has been deleted nothing is pending and no callback runs
\* ("wait for callback to finish", ledb.c:140), although the callback arms the
\* timer itself; only a write that comes after the deletion may undo it, for the
\* device is still there.
TimerGoneWithModule ==
    module \in {"free", "unregister", "gone"} /\ ~stray => timer = Idle /\ cb = "idle"
=============================================================================
