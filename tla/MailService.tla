---------------------------- MODULE MailService -----------------------------
(***************************************************************************)
(* Verification codes: CodeStore and MailService of GoMailServer, called by  *)
(* the registration of IMServer through MailGrpcClient.  A code is stored    *)
(* before its mail is sent; the mail may come late or never, the caller may  *)
(* give up at its deadline while the service goes on, and a code that was    *)
(* verified is gone even when the answer is lost or the registration fails.  *)
(*                                                                         *)
(* Time is kept as the age of the stored code.  Random codes may repeat.     *)
(***************************************************************************)
EXTENDS Integers, Sequences

CONSTANTS
  Emails,   \* addresses
  Codes,    \* what randomDigits may return
  ttl,      \* CodeConfig.TTL, in ticks
  cool,     \* CodeConfig.ResendCooldown, in ticks; nothing relates it to ttl
  MaxSends  \* bound on the codes generated for one address

ASSUME MailAssumption ==
  /\ ttl \in Nat /\ cool \in Nat /\ MaxSends \in Nat
  /\ "none" \notin Codes

VARIABLES
  codes,      \* CodeStore.codes: address -> the entry, or NoEntry
  sending,    \* SMTP transfers in progress: <<address, code>>
  inbox,      \* mails that arrived: <<address, code>>
  generated,  \* history: codes generated for each address
  last,       \* history: the last one
  age,        \* history: ticks since then, up to the longer of ttl and cool, + 1
  used,       \* history: Verify accepted it
  hasty,      \* history: a code replaced a valid one within the cooldown
  accounts,   \* history: registrations that passed the check, per address
  wrongly     \* history: Verify accepted a replaced, a used or an expired code

mailVars == <<codes, sending, inbox, generated, last, age, used, hasty, accounts, wrongly>>

NoEntry == [code |-> "none", elapsed |-> 0]

\* CodeStore.Generate; within the cooldown it refuses.
CooledDown(e) == codes[e] = NoEntry \/ codes[e].elapsed >= cool

\* Faulty: an entry that exists gets a new time and keeps its old code.
GenerateOnce(e, code) ==
  codes' = [codes EXCEPT ![e] = [code |-> IF @ = NoEntry THEN code ELSE @.code,
                                 elapsed |-> 0]]

Generate(e, code) == codes' = [codes EXCEPT ![e] = [code |-> code, elapsed |-> 0]]

\* MailService.SendCode up to the mail; a refused request changes nothing.
SendCode(e, code) ==
  /\ CooledDown(e) /\ generated[e] < MaxSends
  /\ Generate(e, code)
  /\ sending' = sending \cup {<<e, code>>}
  /\ generated' = [generated EXCEPT ![e] = @ + 1]
  /\ last' = [last EXCEPT ![e] = code]
  /\ hasty' = (hasty \/ (generated[e] > 0 /\ ~used[e] /\ age[e] < cool /\ age[e] <= ttl))
  /\ age' = [age EXCEPT ![e] = 0]
  /\ used' = [used EXCEPT ![e] = FALSE]
  /\ UNCHANGED <<inbox, accounts, wrongly>>

\* Mailer.SendCode ends: the mail was delivered, whatever was reported, or not.
MailDelivered(mail) ==
  /\ sending' = sending \ {mail}
  /\ inbox' = inbox \cup {mail}
  /\ UNCHANGED <<codes, generated, last, age, used, hasty, accounts, wrongly>>

MailFailed(mail) ==
  /\ sending' = sending \ {mail}
  /\ UNCHANGED <<codes, inbox, generated, last, age, used, hasty, accounts, wrongly>>

\* MailService.VerifyCode: no entry, an expired one, another code.
VerifyRefused(e, code) ==
  LET entry == codes[e]
  IN /\ entry # NoEntry
     /\ \/ /\ entry.elapsed > ttl
           /\ codes' = [codes EXCEPT ![e] = NoEntry]
        \/ /\ entry.elapsed <= ttl /\ entry.code # code
           /\ UNCHANGED codes
     /\ UNCHANGED <<sending, inbox, generated, last, age, used, hasty, accounts, wrongly>>

\* VerifyCode accepts.  registered: the answer arrived before the deadline of
\* MailGrpcClient and OnRegisterResponse added the account.
VerifyAccepted(e, code, registered) ==
  LET entry == codes[e]
  IN /\ entry # NoEntry /\ entry.elapsed <= ttl /\ entry.code = code
     /\ codes' = [codes EXCEPT ![e] = NoEntry]
     /\ wrongly' = (wrongly \/ code # last[e] \/ used[e] \/ age[e] > ttl)
     /\ used' = [used EXCEPT ![e] = TRUE]
     /\ accounts' = [accounts EXCEPT ![e] = IF registered THEN @ + 1 ELSE @]
     /\ UNCHANGED <<sending, inbox, generated, last, age, hasty>>

Older(n) == IF n > ttl /\ n > cool THEN n ELSE n + 1
MailTick ==
  /\ codes' = [e \in Emails |-> IF codes[e] = NoEntry THEN NoEntry
                                ELSE [code |-> codes[e].code,
                                      elapsed |-> Older(codes[e].elapsed)]]
  /\ age' = [e \in Emails |-> Older(age[e])]
  /\ UNCHANGED <<sending, inbox, generated, last, used, hasty, accounts, wrongly>>

-----------------------------------------------------------------------------
MailInit ==
  /\ codes = [e \in Emails |-> NoEntry] /\ sending = {} /\ inbox = {}
  /\ generated = [e \in Emails |-> 0] /\ age = [e \in Emails |-> 0]
  /\ last = [e \in Emails |-> "none"]
  /\ used = [e \in Emails |-> FALSE] /\ hasty = FALSE
  /\ accounts = [e \in Emails |-> 0] /\ wrongly = FALSE

\* Users enter a code of a mail they got.
MailNext ==
  \/ \E e \in Emails, code \in Codes : SendCode(e, code)
  \/ \E mail \in sending : MailDelivered(mail) \/ MailFailed(mail)
  \/ \E mail \in inbox : VerifyRefused(mail[1], mail[2])
  \/ \E mail \in inbox, registered \in BOOLEAN :
       VerifyAccepted(mail[1], mail[2], registered)
  \/ MailTick

MailSpec == MailInit /\ [][MailNext]_mailVars

-----------------------------------------------------------------------------
\* A code proves an address once: there are never more registrations than codes
\* generated for it, every accepted code is the last one generated, unused and
\* within its time, also with late mails, repeated codes and lost answers; and
\* codes for one address come at least the cooldown apart unless the one before
\* was used or has expired (with a cooldown longer than the time of a code, one
\* try with the expired code deletes the entry, and the cooldown with it).
CodesProveOnce ==
  /\ ~wrongly
  /\ ~hasty
  /\ \A e \in Emails : accounts[e] <= generated[e]
=============================================================================
