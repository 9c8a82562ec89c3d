----------------------------- MODULE LedDriver -----------------------------
(***************************************************************************)
(* The arithmetic of components/CM-LED-KAMMANIT/led_driver.c: how a colour *)
(* temperature in kelvin and a brightness in percent become duty cycles of *)
(* the two 8-bit PWM channels.                                             *)
(***************************************************************************)
EXTENDS Integers

UINT16 == 65536
UINT8 == 256
FULL_DUTY == 255

(* C division truncates towards zero.                                      *)
TruncDiv(a, b) == IF a >= 0 THEN a \div b ELSE -((-a) \div b)

(* Out-of-range requests are replaced, not refused.                        *)
effective_color(v) == IF v > 6500 \/ v < 2700 THEN 6500 ELSE v
AnyBrightness(v) == v
effective_brightness(v) == IF v > 100 \/ v < 10 THEN 100 ELSE v

(* Set_Color() *)
Set_Color(v) == ((effective_color(v) - 2700) * (FULL_DUTY - 0)) \div (6500 - 2700)

(* Set_Brightness(): the value is inverted before it is mapped, and the    *)
(* result is converted to uint16_t.                                        *)
Set_Brightness(v, low_pwm, max_pwm) ==
    (TruncDiv((100 - effective_brightness(v) - 10) * (max_pwm - low_pwm), 100 - 10) + low_pwm)
        % UINT16

(* A PWM range on which the part mapped below low_pwm stays above 0.       *)
SafeRange(low_pwm, max_pwm) ==
    low_pwm <= max_pwm /\ 10 * (max_pwm - low_pwm) < 90 * (low_pwm + 1)
=============================================================================
