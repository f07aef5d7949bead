--------------------------- MODULE MCNotification ---------------------------
(* Notification for TLC: one rule comes from the old table, and the
   other's threshold has more than three decimals. *)
EXTENDS Notification

CONSTANTS sms, login, exact, cut
MCTypes == {sms, login}
MCCooldowns == {1}
MCThresholds == {exact, cut}
MCRounded == [h \in MCThresholds |-> cut]
MCSettings == {[type |-> sms, cool |-> 1, thr |-> cut], [type |-> login, cool |-> 1, thr |-> exact]}
MCLegacy == {[type |-> sms, cool |-> 1, thr |-> cut]}
=============================================================================
