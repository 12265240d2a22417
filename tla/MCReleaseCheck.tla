--------------------------- MODULE MCReleaseCheck ---------------------------
(* Four instants to a day.  The Tasks that notify meet a spring and an      *)
(* autumn shift and a date line crossed eastwards and westwards; the Task   *)
(* that checks releases lives where the clock is never shifted.             *)
EXTENDS ReleaseCheck

Shift(at, offset) == [at |-> at, offset |-> offset]

Spring == [base |-> 0, shifts |-> <<Shift(9, 1)>>]
Autumn == [base |-> 1, shifts |-> <<Shift(9, 0)>>]
Year   == [base |-> 0, shifts |-> <<Shift(9, 1), Shift(20, 0)>>]
Eastward == [base |-> 0, shifts |-> <<Shift(8, 4)>>]
Westward == [base |-> 4, shifts |-> <<Shift(8, 0)>>]

Singapore == [base |-> 0, shifts |-> <<>>]

Notify(zone, days, first) ==
  [zone |-> zone, days |-> days, time |-> 1, first |-> first,
   handler |-> "manual_notification", mode |-> "notify"]
Check(mode, first) ==
  [zone |-> Singapore, days |-> 1, time |-> 3, first |-> first,
   handler |-> "pi_mcp_adapter", mode |-> mode]

Notifications ==
  {t \in {Notify(z, d, f) : z \in {Spring, Autumn, Year, Eastward, Westward},
                            d \in {1, 2, 3}, f \in 0..12} :
     WallTime(t, t.first) = t.time}
MCTasks == Notifications \cup {Check("approved-procedure", 19), Check("check", 23)}

MCSources == <<"github-releases", "changelog">>
=============================================================================
