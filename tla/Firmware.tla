------------------------------ MODULE Firmware ------------------------------
(***************************************************************************)
(* The firmware from its start on: the system task, the service tasks it   *)
(* creates on the way, and the threads that wait for the start, of which   *)
(* the application's then use the application channel.                     *)
(***************************************************************************)
EXTENDS System, Services

ASSUME FirmwareAssumption == App \subseteq Thread

vars == <<sysVars, srvVars>>

-----------------------------------------------------------------------------
\* A step of the start alone: a failed assertion stops every thread, not the watchdog.
Starting(A) == ~halted /\ A /\ UNCHANGED srvVars

\* A step of the services and the application alone.
Working(A) == A /\ UNCHANGED sysVars

StartUp == Starting(SysNext)

\* The link and the port's task are there.
IsServed(s) ==
  {"comm", IF s = "platform" THEN "platformservice" ELSE "crtpservice"} \subseteq ready

\* Past systemWaitStart.
Runs(t) == at[t] = "passed" /\ GetsTime(t)

Work ==
  Working(\/ Transmit
          \/ \E s \in Service : IsServed(s) /\ Serve(s)
          \/ \E a \in App : Runs(a) /\ SendData(a)
          \/ Runs(Reader) /\ ReadData)

Reset == WatchdogReset /\ SrvReset

-----------------------------------------------------------------------------
Init == SysInit /\ SrvInit

Next == StartUp \/ Work \/ Reset

Spec == Init /\ [][Next]_vars

\* The system task, the service tasks and the threads that wait get on.  Of the
\* transmission nothing is assumed.
FairSpec ==
  /\ Spec
  /\ WF_vars(Starting(SystemTaskNext))
  /\ \A t \in Thread : WF_vars(Starting(Lock(t) \/ Unlock(t)))
  /\ \A s \in Service : WF_vars(Working(IsServed(s) /\ (SendAnswer(s) \/ Ignore(s))))
  /\ \A a \in App :
       WF_vars(Working(/\ Runs(a)
                       /\ \/ LockSend(a) \/ Fill(a) \/ Oversized(a)
                          \/ Put(a) \/ UnlockSend(a)))

-----------------------------------------------------------------------------
\* A thread of the application, which is created before them, finds the platform
\* service and the application channel initialised when it uses them
\* (system.c:113-117, 154, app_channel.c:96-104).
UsedWhenReady ==
  (\E a \in App : doing[a] # "idle") => {"platformservice", "comm"} \subseteq ready

\* The start gate holds, and what is used before it has been initialised
\* (system.c:83-155, 312-321), after a reset as well.
StartIsSound == SysTypeOK /\ StartIsEarned /\ NoneForgotten /\ UsedWhenReady

\* After the start every thread more urgent than the system task gets through,
\* even behind a less urgent owner of the mutex, unless the watchdog resets.
UrgentPass ==
  \A t \in Urgent :
    phase = "open" /\ t \in crew ~> at[t] = "passed" \/ phase = "init" \/ halted
=============================================================================
