-------------------------- MODULE FinalizerProtocol --------------------------
(***************************************************************************)
(* What the three reconcilers with a finalizer (CloudflareTunnel,          *)
(* CloudflareDNS, CloudflareAccessPolicy) promise of what they make at     *)
(* Cloudflare on behalf of a resource: it is made only while the           *)
(* finalizer holds the resource, so that each thing made is made before    *)
(* the deletion that has to clean it up, and none appears after it.        *)
(***************************************************************************)
CONSTANTS
    Owners,   \* the resources
    Things    \* identifiers of what may be made for them

VARIABLES
    phase,    \* how far each resource has come
    owned     \* what exists on its behalf

vars == <<phase, owned>>

Phases == {"new", "held", "released"}

Init ==
    /\ phase = [o \in Owners |-> "new"]
    /\ owned = [o \in Owners |-> {}]

\* Everyone but the resources in W keeps what it has or loses some of it.
OnlyLose(W) == \A p \in Owners \ W : owned'[p] \subseteq owned[p]

\* The finalizer is stored.
Hold(o) ==
    /\ phase[o] = "new"
    /\ phase' = [phase EXCEPT ![o] = "held"]
    /\ UNCHANGED owned

\* Things are made, taken over from others, or deleted.
Work(o) ==
    /\ phase[o] = "held"
    /\ owned' \in [Owners -> SUBSET Things]
    /\ OnlyLose({o})
    /\ UNCHANGED phase

\* Things are deleted, by the reconciler or by others.
Lose ==
    /\ owned' \in [Owners -> SUBSET Things]
    /\ OnlyLose({})
    /\ UNCHANGED phase

\* The resource goes: without a finalizer at once, otherwise when the
\* reconciler gives it up.
Release(o) ==
    /\ phase[o] \in {"new", "held"}
    /\ phase' = [phase EXCEPT ![o] = "released"]
    /\ UNCHANGED owned

Next == Lose \/ \E o \in Owners : Hold(o) \/ Work(o) \/ Release(o)

Spec == Init /\ [][Next]_vars
=============================================================================
