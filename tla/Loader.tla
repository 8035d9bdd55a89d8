------------------------------- MODULE Loader -------------------------------
(***************************************************************************)
(* The life of the server's process around the J2534 library: main          *)
(* (server/J2534_TCPServer.cpp) loads it with loadDLL (server/J2534.cpp),    *)
(* which looks up the library's sixteen functions one after the other, then *)
(* binds, listens and serves, and unloads it with unloadDLL.                *)
(***************************************************************************)
EXTENDS Naturals, Sequences

CONSTANT MemoryLeakMode   \* option -m: the accept loop ends after a client

ASSUME LoaderAssumption == MemoryLeakMode \in BOOLEAN

\* The functions in the order in which loadDLL looks them up.
Functions == <<"PassThruConnect", "PassThruDisconnect", "PassThruReadMsgs",
    "PassThruWriteMsgs", "PassThruStartPeriodicMsg", "PassThruStopPeriodicMsg",
    "PassThruStartMsgFilter", "PassThruStopMsgFilter",
    "PassThruSetProgrammingVoltage", "PassThruReadVersion",
    "PassThruGetLastError", "PassThruIoctl", "PassThruOpen", "PassThruClose",
    "PassThruReset", "PassThruGetLastSocketError">>

Names == {Functions[n] : n \in 1 .. Len(Functions)}

VARIABLES main,      \* where main is
          hJ2534,    \* whether the library is mapped into the process
          pointers   \* the function pointers that are not NULL

loaderVars == <<main, hJ2534, pointers>>

LoaderInit == main = "start" /\ hJ2534 = FALSE /\ pointers = {}

LoaderTypeOK ==
    /\ main \in {"start", "load", "bind", "listen", "serve", "unload", "exited"}
    /\ hJ2534 \in BOOLEAN
    /\ pointers \subseteq Names

-----------------------------------------------------------------------------

OpenLibrary ==
    /\ main = "start"
    /\ \/ main' = "load" /\ hJ2534' = TRUE
       \/ main' = "exited" /\ UNCHANGED hJ2534
    /\ UNCHANGED pointers

\* The function looked up next.
NextName == Functions[CHOOSE n \in 1 .. Len(Functions) :
                /\ Functions[n] \notin pointers
                /\ \A m \in 1 .. (n - 1) : Functions[m] \in pointers]

LookUp ==
    /\ main = "load" /\ pointers # Names
    /\ pointers' = pointers \cup {NextName}
    /\ UNCHANGED <<main, hJ2534>>

\* Mutant of LookUpFails: without its return loadDLL ends as if all were well.
LookUpFailsOn ==
    /\ main = "load" /\ pointers # Names
    /\ main' = "bind"
    /\ UNCHANGED <<hJ2534, pointers>>

\* The library lacks a function: loadDLL returns an error, main returns it,
\* and the library is neither called nor unloaded.
LookUpFails ==
    /\ main = "load" /\ pointers # Names
    /\ main' = "exited"
    /\ UNCHANGED <<hJ2534, pointers>>

Loaded ==
    /\ main = "load" /\ pointers = Names
    /\ main' = "bind"
    /\ UNCHANGED <<hJ2534, pointers>>

Bind ==
    /\ main = "bind"
    /\ main' \in {"listen", "exited"}
    /\ UNCHANGED <<hJ2534, pointers>>

Listen ==
    /\ main = "listen"
    /\ main' \in {"serve", "exited"}
    /\ UNCHANGED <<hJ2534, pointers>>

\* The client's handler has ended, and with -m the accept loop with it.
StopServer ==
    /\ main = "serve" /\ MemoryLeakMode
    /\ main' = "unload"
    /\ UNCHANGED <<hJ2534, pointers>>

\* dlclose may fail: the pointers stay as they are, and main ends as well.
UnloadDLL ==
    /\ main = "unload"
    /\ main' = "exited"
    /\ \/ hJ2534' = FALSE /\ pointers' = {}
       \/ UNCHANGED <<hJ2534, pointers>>

StartUp == OpenLibrary \/ LookUp \/ LookUpFails \/ Loaded \/ Bind \/ Listen
ShutDown == StopServer \/ UnloadDLL

=============================================================================
