---------------------------- MODULE MCOwningSync ----------------------------
(* Small instances of OwningSync for TLC. *)
EXTENDS OwningSync, TLC

CONSTANTS cron, button, d1, d2

MCCrons == {cron}
MCButtons == {button}
MCDevices == {d1}
MCTwoDevices == {d1, d2}

\* Nothing reads the logins of a day gone by, an expired lease is as good as a free one, and
\* a pause that is over as none: states that differ in no more than that are one.
MCView ==
    <<conn, [state EXCEPT !.lease = (@ = "held"), !.pausedUntil = IF Paused THEN @ ELSE 0],
      lastRow, pass, flow, trusted, asked[Today], late[Today], now>>

=============================================================================
