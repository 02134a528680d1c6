----------------------------- MODULE MCOsScenes -----------------------------
(* Two scenes of the kernel in one run: tasks are suspended, resumed, deleted *)
(* and given other priorities; or they are created and delete themselves, and *)
(* semaphores are deleted and created again under them.                       *)
EXTENDS MCOsKernel
CONSTANT CreateCalls
VARIABLE scene

Create == INSTANCE OsKernel WITH Calls <- CreateCalls, InitPrio <- MCPrio2

ScenesInit == (scene = "tasks" /\ Init) \/ (scene = "create" /\ Create!Init)
ScenesNext == ((scene = "tasks" /\ Next) \/ (scene = "create" /\ Create!Next)) /\ UNCHANGED scene
ScenesSpec == ScenesInit /\ [][ScenesNext]_<<vars, scene>>

\* While semaphores may be deleted under a pend, a task can be left on the list of a
\* free block (OsSemDelRace); in the other scene wait lists stay as they should be.
TasksWaitListConsistent == scene = "tasks" => WaitListConsistent
=============================================================================
