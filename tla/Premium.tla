------------------------------ MODULE Premium -------------------------------
(* IO::updatePremium(Account&): the account's premium days are charged for    *)
(* the days since lastDay.                                                    *)
EXTENDS Integers

CONSTANTS
    Day,      \* 86400 seconds, in ticks
    Gratis    \* GRATIS_PREMIUM (65535): premium for ever

ASSUME PremiumAssumption == Day \in Nat \ {0} /\ Gratis \in Nat \ {0}

Elapsed(account, t) == t - account.lastDay
DaysSinceRoundedUp(account, t) == (Elapsed(account, t) + Day - 1) \div Day
DaysSince(account, t) == Elapsed(account, t) \div Day

Expired == [premium |-> 0, lastDay |-> 0]

\* Charge the whole days and keep the part of a day that remains.
ChargeForgetsRest(account, t) ==
    [premium |-> account.premium - DaysSince(account, t), lastDay |-> t]
Charge(account, t) ==
    [premium |-> account.premium - DaysSince(account, t),
     lastDay |-> t - (Elapsed(account, t) % Day)]

UpdatePremium(account, t) ==
    CASE account.lastDay > t \/ Elapsed(account, t) < Day -> account
      [] OTHER ->
           IF account.premium > 0 /\ account.premium < Gratis
           THEN CASE account.lastDay = 0 -> [account EXCEPT !.lastDay = t]
                  [] account.lastDay # 0 /\ account.premium >= DaysSince(account, t) ->
                       Charge(account, t)
                  [] OTHER -> Expired
           ELSE [account EXCEPT !.lastDay = 0]

\* The account is saved exactly when something changed.
NeedsSave(account, t) == UpdatePremium(account, t) # account
=============================================================================
