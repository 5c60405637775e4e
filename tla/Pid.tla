-------------------------------- MODULE Pid --------------------------------
(***************************************************************************)
(* The PID formula of the controllers and what they make of its result.    *)
(* All implementations of scenario 3-pid, on Linux and on the ESP32,       *)
(* compute it alike: calculate_control, finite_or_zero and limit.          *)
(***************************************************************************)
EXTENDS FloatClass

\* The formula for the parameters p and the feedback fb, before anything is made
\* finite; the interval between two control phases is a positive number.
RawControl(p, frequency, fb) ==
  LET fi == TimesAny(Over(p.factor, p.ti), {1})
      fd == OverAny(Times(p.factor, p.td), {1})
      integrals == PlusAny({fb.integ}, TimesAny(fi, {fb.delta}))
      Signals(delta, integ) ==
        PlusAny(PlusAny(Times(p.factor, delta), {integ}),
                TimesAny(fd, Plus(delta, Minus(fb.delta))))
  IN UNION {UNION {{[signal |-> s, delta |-> d, integ |-> g] : s \in Signals(d, g)}
                   : g \in integrals}
            : d \in Plus(p.target, Minus(frequency))}

FiniteOrZero(x) == IF IsFinite(x) THEN x ELSE 0

Sanitised(control) == [delta |-> FiniteOrZero(control.delta),
                       integ |-> FiniteOrZero(control.integ)]

\* limit: below the deadzone 0, else a duty cycle within [PWM_MIN, PWM_MAX];
\* every comparison with NaN is false, which lets it through.
Limited(signal) ==
  IF signal = NaN THEN {NaN}
  ELSE IF signal <= 0 THEN {0}
  ELSE IF signal = 1 THEN {0, 1}
  ELSE {1}
=============================================================================
