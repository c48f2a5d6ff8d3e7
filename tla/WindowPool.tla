----------------------------- MODULE WindowPool -----------------------------
(***************************************************************************)
(* What a user of ExpansionBar is promised, without lock files, scans,    *)
(* caches or registers: windows into the device that belong to one user at *)
(* a time, and accesses that the device translates with exactly the        *)
(* configuration the user asked for.                                       *)
(***************************************************************************)
CONSTANTS User, Window, Config, Free, Nothing

VARIABLES
  owner,       \* owner[w]: the user window w belongs to, or Free
  phase,       \* phase[u]: "out", "idle" (has a window) or "asked"
  asked,       \* asked[u]: the configuration of the access asked for
  translated   \* translated[u]: how the device translated u's last access

vars == <<owner, phase, asked, translated>>

Init == /\ owner = [w \in Window |-> Free]
        /\ phase = [u \in User |-> "out"]
        /\ asked = [u \in User |-> Nothing]
        /\ translated = [u \in User |-> Nothing]

Acquire(u, w) == /\ phase[u] = "out"
                 /\ owner[w] = Free
                 /\ owner' = [owner EXCEPT ![w] = u]
                 /\ UNCHANGED <<phase, asked, translated>>

Enter(u) == /\ phase[u] = "out"
            /\ \E w \in Window : owner[w] = u
            /\ phase' = [phase EXCEPT ![u] = "idle"]
            /\ UNCHANGED <<owner, asked, translated>>

Ask(u, c) == /\ phase[u] = "idle"
             /\ phase' = [phase EXCEPT ![u] = "asked"]
             /\ asked' = [asked EXCEPT ![u] = c]
             /\ translated' = [translated EXCEPT ![u] = Nothing]
             /\ UNCHANGED owner

\* The window is translated with the configuration asked for, and still
\* belongs to the user when it is.
Serve(u) == /\ phase[u] = "asked"
            /\ \E w \in Window : owner[w] = u
            /\ phase' = [phase EXCEPT ![u] = "idle"]
            /\ translated' = [translated EXCEPT ![u] = asked[u]]
            /\ UNCHANGED <<owner, asked>>

Leave(u) == /\ phase[u] # "out"
            /\ phase' = [phase EXCEPT ![u] = "out"]
            /\ asked' = [asked EXCEPT ![u] = Nothing]
            /\ translated' = [translated EXCEPT ![u] = Nothing]
            /\ UNCHANGED owner

\* A window can be given back only by its owner, who has left or leaves with it.
Release(u, w) == /\ owner[w] = u
                 /\ owner' = [owner EXCEPT ![w] = Free]
                 /\ phase' = [phase EXCEPT ![u] = "out"]
                 /\ asked' = [asked EXCEPT ![u] = Nothing]
                 /\ translated' = [translated EXCEPT ![u] = Nothing]

Next == \E u \in User : \/ \E w \in Window : Acquire(u, w) \/ Release(u, w)
                        \/ \E c \in Config : Ask(u, c)
                        \/ Enter(u) \/ Serve(u) \/ Leave(u)

Spec == Init /\ [][Next]_vars
=============================================================================
