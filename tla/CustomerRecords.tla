--------------------------- MODULE CustomerRecords ---------------------------
(***************************************************************************)
(* Who a ticket belongs to: contacts, the organizations they are linked    *)
(* to, the tickets opened for them and the numbers those are given.        *)
(*                                                                         *)
(* Opening a ticket is one transaction of several statements, at the       *)
(* isolation where each statement sees what had been committed when it     *)
(* began.  What it has inserted is in its frame until it commits; nobody   *)
(* else sees that, but the unique index on addresses and the row lock on   *)
(* the sequence make others wait for it.  A chat finds its contact before  *)
(* its transaction begins, and what it inserts for that is committed at    *)
(* once, each row by itself.                                               *)
(*                                                                         *)
(* Left out: names, languages, notes, and the scope of a record.           *)
(***************************************************************************)
EXTENDS Naturals, FiniteSets

CONSTANTS Addresses,
          Contacts,       \* identities for the contacts that are created
          Organizations,
          MaxTickets,     \* bound: tickets that are ever numbered
          Handlers,
          Nobody

\* What the constants are, which the module that gives them values assumes.
RecordsAssumption ==
  /\ MaxTickets \in Nat
  /\ Nobody \notin Addresses \cup Contacts \cup Organizations \cup Handlers

VARIABLES contact,       \* customers_contact with its address
          organization,  \* customers_organization
          ticket,        \* the tickets, by number
          last,          \* last_value of the tickets' reference sequence
          holder,        \* who has locked the sequence's row
          frame

vars == <<contact, organization, ticket, last, holder, frame>>
-----------------------------------------------------------------------------
Numbers == 1..MaxTickets

\* A contact that does not exist has no address.  `alone` is history: a chat's start has
\* committed the contact by itself, and no ticket has followed.
Contact == [address: Addresses \cup {Nobody}, organization: Organizations \cup {Nobody},
            alone: BOOLEAN]

NoContact == [address |-> Nobody, organization |-> Nobody, alone |-> FALSE]

\* `late` is history: the contact was linked after the opening had read it.
Ticket == [contact: Contacts \cup {Nobody}, organization: Organizations \cup {Nobody},
           late: BOOLEAN]

NoTicket == [contact |-> Nobody, organization |-> Nobody, late |-> FALSE]

Existing == {c \in Contacts : contact[c] # NoContact}

\* `chat`: the contact is a chat's, and is not inserted in the ticket's transaction.  `fresh`:
\* it is inserted there.  `organization` is the one read with the contact, or the one to link
\* it to.
Frame == [pc: {"idle", "insert", "detail", "number", "commit", "link"}, chat: BOOLEAN,
          address: Addresses \cup {Nobody}, contact: Contacts \cup {Nobody},
          organization: Organizations \cup {Nobody}, fresh: BOOLEAN, number: 0..MaxTickets]

Idle == [pc |-> "idle", chat |-> FALSE, address |-> Nobody, contact |-> Nobody,
         organization |-> Nobody, fresh |-> FALSE, number |-> 0]

At(h, label) == frame[h].pc = label

Goto(h, f) == frame' = [frame EXCEPT ![h] = f]

Init ==
  /\ contact = [c \in Contacts |-> NoContact]
  /\ organization = [o \in Organizations |-> "none"]
  /\ ticket = [n \in Numbers |-> NoTicket]
  /\ last = 0
  /\ holder = Nobody
  /\ frame = [h \in Handlers |-> Idle]
-----------------------------------------------------------------------------
(* intake.services.creation.open_ticket, for the public form and the       *)
(* portal; inbound mail that matches no ticket makes the same statements.  *)
(* And chat.views.start, which makes them one by one.                      *)

HasAddress(c, a) == c \in Existing /\ contact[c].address = a

\* find_or_create_contact looks the address up: what is next is the ticket, or the contact.
LookUp(h, a, chat) ==
  /\ frame[h] = Idle
  /\ IF \E c \in Contacts : HasAddress(c, a)
     THEN \E c \in Contacts :
            /\ HasAddress(c, a)
            /\ Goto(h, [Idle EXCEPT !.pc = "number", !.contact = c,
                                    !.organization = contact[c].organization])
     ELSE Goto(h, [Idle EXCEPT !.pc = "insert", !.chat = chat, !.address = a])
  /\ UNCHANGED <<contact, organization, ticket, last, holder>>

BeginOpen(h, a) == LookUp(h, a, FALSE)

BeginChat(h, a) == LookUp(h, a, TRUE)

\* Somebody else's transaction has inserted the address and is not over.
AwaitsAddress(h) ==
  \E g \in Handlers \ {h} : frame[g].fresh /\ frame[g].address = frame[h].address

\* An identity for a new contact, which no open transaction has taken.
Unused == Contacts \ (Existing \cup {frame[g].contact : g \in Handlers})

\* Mutant: the contact is committed by itself.
InsertContactAtOnce(h) ==
  /\ At(h, "insert") /\ ~frame[h].chat
  /\ \A c \in Existing : contact[c].address # frame[h].address
  /\ \E c \in Unused :
       /\ contact' = [contact EXCEPT ![c].address = frame[h].address]
       /\ Goto(h, [Idle EXCEPT !.pc = "number", !.contact = c])
  /\ UNCHANGED <<organization, ticket, last, holder>>

\* The new contact, which nobody else can see or meet, and then its address; an address
\* committed meanwhile ends the transaction.
InsertContact(h) ==
  /\ At(h, "insert") /\ ~frame[h].chat
  /\ ~AwaitsAddress(h)
  /\ IF \E c \in Contacts : HasAddress(c, frame[h].address)
     THEN Goto(h, Idle)
     ELSE \E c \in Unused : Goto(h, [frame[h] EXCEPT !.pc = "number", !.contact = c, !.fresh = TRUE])
  /\ UNCHANGED <<contact, organization, ticket, last, holder>>

\* For a chat the contact is inserted and committed, ...
CommitContact(h) ==
  /\ At(h, "insert") /\ frame[h].chat
  /\ \E c \in Unused :
       /\ contact' = [contact EXCEPT ![c].alone = TRUE]
       /\ Goto(h, [frame[h] EXCEPT !.pc = "detail", !.contact = c])
  /\ UNCHANGED <<organization, ticket, last, holder>>

\* ... and then its address, unless somebody else's has been committed meanwhile.
CommitDetail(h) ==
  LET f == frame[h] IN
  /\ At(h, "detail")
  /\ ~AwaitsAddress(h)
  /\ IF \E c \in Contacts : HasAddress(c, f.address)
     THEN Goto(h, Idle) /\ UNCHANGED contact
     ELSE /\ contact' = [contact EXCEPT ![f.contact].address = f.address]
          /\ Goto(h, [Idle EXCEPT !.pc = "number", !.contact = f.contact])
  /\ UNCHANGED <<organization, ticket, last, holder>>

\* next_value locks the sequence's row; the lock is the transaction's.  A chat's, which is
\* lifecycle.start, begins here.
Allocate(h) ==
  /\ At(h, "number")
  /\ holder = Nobody
  /\ last < MaxTickets
  /\ holder' = h
  /\ Goto(h, [frame[h] EXCEPT !.pc = "commit", !.number = last + 1])
  /\ UNCHANGED <<contact, organization, ticket, last>>

CommitOpening(h) ==
  LET f == frame[h] IN
  /\ At(h, "commit")
  /\ contact' = [contact EXCEPT ![f.contact].alone = FALSE,
                                ![f.contact].address = IF f.fresh THEN f.address ELSE @]
  /\ ticket' = [ticket EXCEPT ![f.number] =
                  [contact |-> f.contact, organization |-> f.organization,
                   late |-> contact[f.contact].organization # f.organization]]
  /\ last' = f.number
  /\ holder' = Nobody
  /\ Goto(h, Idle)
  /\ UNCHANGED organization

\* A statement fails or the process dies: the transaction is rolled back, and what a chat
\* has committed before it stays.
Fail(h) ==
  /\ frame[h] # Idle
  /\ Goto(h, Idle)
  /\ holder' = IF holder = h THEN Nobody ELSE holder
  /\ UNCHANGED <<contact, organization, ticket, last>>
-----------------------------------------------------------------------------
(* customers.views: link, delete_organization                              *)

\* A contact is to be linked to an organization in the list ...
BeginLink(h, c, o) ==
  /\ frame[h] = Idle
  /\ c \in Existing
  /\ organization[o] = "live"
  /\ Goto(h, [Idle EXCEPT !.pc = "link", !.contact = c, !.organization = o])
  /\ UNCHANGED <<contact, organization, ticket, last, holder>>

\* ... or to one named now, which is created first, by itself.
BeginLinkToNew(h, c) ==
  /\ frame[h] = Idle
  /\ c \in Existing
  /\ \E o \in Organizations :
       /\ organization[o] = "none"
       /\ organization' = [organization EXCEPT ![o] = "live"]
       /\ Goto(h, [Idle EXCEPT !.pc = "link", !.contact = c, !.organization = o])
  /\ UNCHANGED <<contact, ticket, last, holder>>

\* Those of the contact's tickets that are picked are the organization's from now on.
Backfilled(c, o, picked) ==
  [n \in Numbers |-> IF ticket[n].contact = c /\ n \in picked
                     THEN [ticket[n] EXCEPT !.organization = o] ELSE ticket[n]]

Link(h, picked) ==
  LET f == frame[h] IN
  /\ At(h, "link")
  /\ contact' = [contact EXCEPT ![f.contact].organization = f.organization]
  /\ ticket' = Backfilled(f.contact, f.organization, picked)
  /\ Goto(h, Idle)
  /\ UNCHANGED <<organization, last, holder>>

\* Mutant: the backfill takes every ticket of the contact's along.
LinkContactAndAll(h) == Link(h, Numbers)

\* Mutant: there is no backfill.
LinkContactAlone(h) == Link(h, {})

\* link_contact, one transaction; only tickets with no organization are backfilled.
LinkContact(h) == Link(h, {n \in Numbers : ticket[n].organization = Nobody})

\* Soft deletion, which nothing that points to the organization follows.
DeleteOrganization(o) ==
  /\ organization[o] = "live"
  /\ organization' = [organization EXCEPT ![o] = "deleted"]
  /\ UNCHANGED <<contact, ticket, last, holder, frame>>
-----------------------------------------------------------------------------
Next ==
  \/ \E h \in Handlers :
       \/ \E a \in Addresses : BeginOpen(h, a) \/ BeginChat(h, a)
       \/ InsertContact(h) \/ CommitContact(h) \/ CommitDetail(h)
       \/ Allocate(h) \/ CommitOpening(h) \/ Fail(h)
       \/ \E c \in Contacts : BeginLinkToNew(h, c)
       \/ \E c \in Contacts, o \in Organizations : BeginLink(h, c, o)
       \/ LinkContact(h)
  \/ \E o \in Organizations : DeleteOrganization(o)

Spec == Init /\ [][Next]_vars
-----------------------------------------------------------------------------
(* Properties.                                                             *)

TypeOK ==
  /\ contact \in [Contacts -> Contact]
  /\ organization \in [Organizations -> {"none", "live", "deleted"}]
  /\ ticket \in [Numbers -> Ticket]
  /\ last \in 0..MaxTickets
  /\ holder \in Handlers \cup {Nobody}
  /\ frame \in [Handlers -> Frame]

\* An opening that fails leaves nothing behind, wherever it fails and whoever else is
\* opening: no contact who never wrote in, and none without an address, unless a chat's start
\* had committed it by itself; no address with two contacts; no number missing or used
\* without its ticket (open_ticket, next_value).
OpeningIsAllOrNothing ==
  /\ \A c \in Existing :
       \/ contact[c].address # Nobody /\ \E n \in Numbers : ticket[n].contact = c
       \/ contact[c].alone
  /\ \A c, d \in Existing :
       contact[c].address = contact[d].address /\ contact[c].address # Nobody => c = d
  /\ {n \in Numbers : ticket[n] # NoTicket} = 1..last

\* A ticket raised under an organization stays that organization's, wherever its contact
\* goes (link_contact).
AttributionStands ==
  [][\A n \in Numbers :
       ticket[n].organization # Nobody => ticket'[n].organization = ticket[n].organization]_vars

\* A linked contact's ticket has an organization, unless the contact was linked while
\* the ticket was being opened (link_contact, open_ticket).
OnlyALateTicketIsMissed ==
  \A n \in Numbers :
    ticket[n].contact # Nobody /\ ticket[n].organization = Nobody /\ ~ticket[n].late =>
      contact[ticket[n].contact].organization = Nobody
=============================================================================
