----------------------------- MODULE Components -----------------------------
(***************************************************************************)
(* Eleven components side by side.  No two of them share a row, so a        *)
(* behaviour runs one of them, its focus, on the variables v1, v2, ...;     *)
(* those it has no use for hold none.  A constant that two components name  *)
(* alike is one constant where they may have the same value.                *)
(***************************************************************************)
EXTENDS Integers

CONSTANTS
  none,
  Users, Locations, Requests, Syncers, Workers, None, Free,
  Attempts, GoogleAccounts, Refreshers, NoAttempt, MaxTokens,       \* OAuth
  GoogleIds, Mappers, ReviewSyncers, MaxPages, MaxMaps,             \* Reviews
  OwnNumbers, SharedPool, SenderCalls, Activators,                  \* Senders
  Templates, Submitters, Pollers, NoTemplate,                       \* Message
  Merchants, NumberOwner, FanOuts, MaxRetries, MaxDeaths,           \* Stop
  Founder, Assignable, MaxInvites,                                  \* Team
  Recovery, MaxStep, MaxSecrets,                                    \* Totp
  Old, Replacements, NoRef, Kinds, Owner, MaxFaults,                \* Change
  Events, Skew, Settle, MaxSync,                                    \* Inbox
  TwoFactor, Nobody, MaxInstalls, MaxLinks, MaxUninstalls,          \* Install
  Files, Sales, RowsOf, NoFile                                      \* Csv

VARIABLES focus, v1, v2, v3, v4, v5, v6, v7, v8, v9, v10

allVars == <<focus, v1, v2, v3, v4, v5, v6, v7, v8, v9, v10>>

OAuth == INSTANCE GoogleConnection WITH Accounts <- GoogleAccounts,
  attempt <- v1, age <- v2, exchanges <- v3, sent <- v4, conn <- v5, worker <- v6,
  refresher <- v7, alive <- v8, issued <- v9, member <- v10

Reviews == INSTANCE GoogleReviews WITH Syncers <- ReviewSyncers,
  mapping <- v1, reviews <- v2, usable <- v3, syncs <- v4, mapper <- v5, syncer <- v6,
  maps <- v7

Senders == INSTANCE WhatsAppSenders WITH
  Numbers <- OwnNumbers, Shared <- SharedPool, Requests <- SenderCalls,
  account <- v1, mapping <- v2, lock <- v3, request <- v4, activator <- v5

Message == INSTANCE MessageTemplates WITH template <- v1, queued <- v2,
  acceptable <- v3, meta <- v4, submitter <- v5, poller <- v6

Stop == INSTANCE OptOut WITH Owner <- NumberOwner, Workers <- FanOuts,
  stops <- v1, customers <- v2, mapped <- v3, webhook <- v4, tasks <- v5, worker <- v6,
  optedOut <- v7, reported <- v8, deaths <- v9

Team == INSTANCE Team WITH Locations <- Assignable,
  member <- v1, invites <- v2, lock <- v3, request <- v4

Totp == INSTANCE Totp WITH member <- v1, user <- v2, lock <- v3, request <- v4,
  secrets <- v5, now <- v6, used <- v7

Change == INSTANCE Replacement WITH row <- v1, lapsed <- v2, over <- v3, prov <- v4,
  offered <- v5, sync <- v6, lock <- v7, owner <- v8, draft <- v9, faults <- v10

Inbox == INSTANCE BillingInbox WITH event <- v1, main <- v2, repl <- v3, synced <- v4,
  queue <- v5, sync <- v6, observed <- v7

Install == INSTANCE ShopifyInstall WITH session <- v1, request <- v2, rows <- v3,
  webhooks <- v4, uninstall <- v5, installs <- v6, exchanged <- v7, revoked <- v8,
  links <- v9, uninstalls <- v10

Csv == INSTANCE CsvImport WITH integ <- v1, upload <- v2, accepted <- v3, staged <- v4,
  tasks <- v5, worker <- v6, event <- v7

ASSUME ComponentsAssumption ==
  /\ OAuth!GoogleConnectionAssumption
  /\ Reviews!GoogleReviewsAssumption
  /\ Senders!WhatsAppSendersAssumption
  /\ Message!MessageTemplatesAssumption
  /\ Stop!OptOutAssumption
  /\ Team!TeamAssumption
  /\ Totp!TotpAssumption
  /\ Change!ReplacementAssumption
  /\ Inbox!BillingInboxAssumption
  /\ Install!ShopifyInstallAssumption
  /\ Csv!CsvImportAssumption

\* The variables from v8 on, and so on.
from10 == <<v10>>
Unused10 == v10 = none
from8 == <<v8, v9, v10>>
Unused8 == v8 = none /\ v9 = none /\ Unused10
from7 == <<v7, v8, v9, v10>>
Unused7 == v7 = none /\ Unused8
from6 == <<v6, v7, v8, v9, v10>>
Unused6 == v6 = none /\ Unused7
from5 == <<v5, v6, v7, v8, v9, v10>>
Unused5 == v5 = none /\ Unused6

Init ==
  \/ focus = "oauth" /\ OAuth!Init
  \/ focus = "reviews" /\ Reviews!Init /\ Unused8
  \/ focus = "senders" /\ Senders!Init /\ Unused6
  \/ focus = "templates" /\ Message!Init /\ Unused7
  \/ focus = "stop" /\ Stop!Init /\ Unused10
  \/ focus = "team" /\ Team!Init /\ Unused5
  \/ focus = "totp" /\ Totp!Init /\ Unused8
  \/ focus = "change" /\ Change!Init
  \/ focus = "inbox" /\ Inbox!Init /\ Unused8
  \/ focus = "install" /\ Install!Init
  \/ focus = "csv" /\ Csv!Init /\ Unused8

Next ==
  \/ focus = "oauth" /\ OAuth!Next /\ UNCHANGED focus
  \/ focus = "reviews" /\ Reviews!Next /\ UNCHANGED <<focus, from8>>
  \/ focus = "senders" /\ Senders!Next /\ UNCHANGED <<focus, from6>>
  \/ focus = "templates" /\ Message!Next /\ UNCHANGED <<focus, from7>>
  \/ focus = "stop" /\ Stop!Next /\ UNCHANGED <<focus, from10>>
  \/ focus = "team" /\ Team!Next /\ UNCHANGED <<focus, from5>>
  \/ focus = "totp" /\ Totp!Next /\ UNCHANGED <<focus, from8>>
  \/ focus = "change" /\ Change!Next /\ UNCHANGED focus
  \/ focus = "inbox" /\ Inbox!Next /\ UNCHANGED <<focus, from8>>
  \/ focus = "install" /\ Install!Next /\ UNCHANGED focus
  \/ focus = "csv" /\ Csv!Next /\ UNCHANGED <<focus, from8>>

Spec == Init /\ [][Next]_allVars

-----------------------------------------------------------------------------
(* The components' invariants, whose parts their modules explain.            *)

\* GoogleConnection: a code reaches Google once, a failed attempt leaves no
\* connection, and a late answer never asks for a reauthorisation just made.
OAuthInv == focus = "oauth" => OAuth!OAuthInv

\* GoogleReviews: what a page brought is stored under the Google location it came
\* from, through remaps during the sync.
ReviewsInv == focus = "reviews" => Reviews!ReviewsInv

\* WhatsAppSenders: no location sends from a number disconnected while it was
\* being mapped, and no late activation brings such a number back.
SendersInv == focus = "senders" => Senders!SendersInv

\* MessageTemplates: a template is never REJECTED here with an accepted one at
\* Meta, though submissions repeat and answers are lost.
TemplatesInv == focus = "templates" => Message!TemplatesInv

\* OptOut: a STOP acknowledged to Meta is honoured, reported or still carried for
\* each merchant it is owed by.
OptOutInv == focus = "stop" => Stop!OptOutInv

\* Team: concurrent demotions leave an owner, and only the newest invitation is
\* accepted.
TeamInv == focus = "team" => Team!TeamInv

\* Totp: two requests never spend one code or one recovery code.
TotpInv == focus = "totp" => Totp!TotpInv

\* Replacement: a subscription that can charge is named by the row, and the row
\* runs on a replacement that is paid.
ReplacementInv == focus = "change" => Change!ReplacementInv

\* BillingInbox: a processed event was seen by a fetch made after it was stored.
InboxInv == focus = "inbox" => Inbox!InboxInv

\* ShopifyInstall: a connected Integration has both its subscriptions, and is of
\* its own member's installation.
ShopifyInv == focus = "install" => Install!ShopifyInv

\* CsvImport: no row of an accepted file is lost with its object.
CsvInv == focus = "csv" => Csv!CsvInv
=============================================================================
