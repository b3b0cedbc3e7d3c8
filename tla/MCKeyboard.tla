----------------------------- MODULE MCKeyboard -----------------------------
(* Instances of Keyboard for model checking: A, which has a character,     *)
(* Shift, which changes it, and the right Ctrl, which is an extended key.  *)
EXTENDS Keyboard, TLC

Key(ext, code) == [ext |-> ext, code |-> code]
Means(plain, shifted, modifier) ==
  [plain |-> plain, shifted |-> shifted, modifier |-> modifier]

KeyA     == Key(FALSE, 30)
KeyShift == Key(FALSE, 42)
KeyRCtrl == Key(TRUE, 29)

Meaning ==
  (KeyA     :> Means(97, 65, {})) @@
  (KeyShift :> Means(0, 0, {"left_shift"})) @@
  (KeyRCtrl :> Means(0, 0, {"right_ctrl"}))

KeysTyping == {KeyA, KeyShift, KeyRCtrl}

MCLegend == [k \in Keys |-> Meaning[k]]
=============================================================================
