----------------------------- MODULE RemindersMC -----------------------------
(* A day of a few minutes in which the intervals keep their order: the rest,  *)
(* the focus and a reminder's time in the queue, the water, and the day; the  *)
(* quiet hours cross midnight.                                                *)
EXTENDS Reminders
=============================================================================
