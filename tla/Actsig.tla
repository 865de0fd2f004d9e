------------------------------- MODULE Actsig -------------------------------
(***************************************************************************)
(* The activity signal (src/src/actsig.c): a LED that shows a normal state *)
(* and inverts it for one interval after every notification.  The port bit *)
(* is active low; `lit' says whether the LED shines.  Time is a count of   *)
(* clock ticks left (struct timer compares clock_time() - start with the   *)
(* interval), so a timer is expired when its count is 0.                   *)
(***************************************************************************)
EXTENDS Integers

CONSTANT SigInterval   \* ticks of signal_timer

ASSUME SigAssumption == SigInterval \in Nat

VARIABLES
    normal,      \* signal->normal_state
    signaling,   \* signal->is_signaling
    sigTimer,    \* ticks until signal->signal_timer expires
    lit          \* the LED shines

actsigVars == <<normal, signaling, sigTimer, lit>>

ActsigInit ==
    /\ normal = FALSE
    /\ signaling = FALSE
    /\ sigTimer = SigInterval
    /\ lit = FALSE

\* Seeded bug: the port bit is inverted whatever the flags say.
ToggleBit == lit' = ~lit

\* _actsig_toggle: which way it goes is decided from the two flags, the port
\* is not read back.
Toggle == lit' = (normal = signaling)

ActsigNotify ==
    IF signaling
    THEN UNCHANGED actsigVars
    ELSE /\ Toggle
         /\ signaling' = TRUE
         /\ sigTimer' = SigInterval
         /\ UNCHANGED normal

ActsigSetNormal(on) ==
    /\ normal' = on
    /\ lit' = on
    /\ UNCHANGED <<signaling, sigTimer>>

ActsigProcess ==
    IF signaling /\ sigTimer = 0
    THEN /\ Toggle
         /\ signaling' = FALSE
         /\ UNCHANGED <<normal, sigTimer>>
    ELSE UNCHANGED actsigVars

ActsigTick ==
    /\ sigTimer' = IF sigTimer > 0 THEN sigTimer - 1 ELSE 0
    /\ UNCHANGED <<normal, signaling, lit>>

=============================================================================
