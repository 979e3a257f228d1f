------------------------- MODULE CustomerRecordsProofs -------------------------
(***************************************************************************)
(* Opening tickets and linking contacts, for any number of requests,       *)
(* addresses, contacts and tickets: an opening is all or nothing, but for  *)
(* the contact that a chat's start commits before its ticket; and          *)
(* attribution goes wrong only where OnlyALateTicketIsMissed says.         *)
(***************************************************************************)
EXTENDS CustomerRecords, TLAPS

\* What a frame's label promises of its registers and of the committed rows.
FrameOK(f, contacts) ==
  /\ f.pc \in {"insert", "detail"} \/ f.fresh => f.address \in Addresses
  /\ f.pc \in {"detail", "number", "commit", "link"} => f.contact \in Contacts
  /\ f.pc \in {"detail", "number", "commit", "link"} /\ ~f.fresh => contacts[f.contact] # NoContact
  /\ f.pc \in {"number", "commit"} /\ ~f.fresh => contacts[f.contact].address # Nobody
  /\ f.pc = "detail" => contacts[f.contact].address = Nobody /\ contacts[f.contact].alone
  /\ f.pc = "link" => f.organization \in Organizations
  /\ f.pc = "insert" => f.organization = Nobody
  /\ f.fresh =>
       /\ f.pc \in {"number", "commit"}
       /\ f.organization = Nobody
       /\ contacts[f.contact] = NoContact
       /\ \A c \in Contacts : contacts[c].address # f.address

FramesOK == \A h \in Handlers : FrameOK(frame[h], contact)

\* Two transactions never insert one address, nor one contact, nor do two chats insert an
\* address for one contact.
Apart(f, g) ==
  /\ f.fresh /\ g.fresh => f.address # g.address /\ f.contact # g.contact
  /\ f.pc = "detail" /\ g.pc = "detail" => f.contact # g.contact

AllApart == \A h, g \in Handlers : h # g => Apart(frame[h], frame[g])

\* Whoever has a number holds the sequence, and it is the next.
Numbered == \A h \in Handlers : At(h, "commit") => holder = h /\ frame[h].number = last + 1

\* But for one that a chat's start has committed by itself, a contact has an address and a ticket.
ContactsOK ==
  /\ \A c \in Existing :
       \/ contact[c].address # Nobody /\ \E n \in Numbers : ticket[n].contact = c
       \/ contact[c].alone
  /\ \A c, d \in Existing :
       contact[c].address = contact[d].address /\ contact[c].address # Nobody => c = d

TicketsOK == \A n \in Numbers : IF n <= last THEN ticket[n].contact # Nobody
                                            ELSE ticket[n] = NoTicket

RecordsInv == TypeOK /\ FramesOK /\ AllApart /\ Numbered /\ ContactsOK /\ TicketsOK
                     /\ OnlyALateTicketIsMissed
-----------------------------------------------------------------------------
LEMMA InitOK == ASSUME RecordsAssumption, Init PROVE RecordsInv
<1>1. 0 \in 0..MaxTickets /\ 0 \in Nat
  BY DEF RecordsAssumption
<1>2. NoContact \in Contact /\ NoTicket \in Ticket /\ Idle \in Frame
  BY <1>1 DEF NoContact, Contact, NoTicket, Ticket, Idle, Frame
<1>3. TypeOK
  BY <1>1, <1>2 DEF Init, TypeOK
<1>4. FramesOK /\ AllApart /\ Numbered
  BY DEF Init, FramesOK, FrameOK, AllApart, Apart, Numbered, At, Idle
<1>5. Existing = {}
  BY DEF Init, Existing
<1>6. TicketsOK
  BY DEF Init, TicketsOK, Numbers, RecordsAssumption
<1>7. OnlyALateTicketIsMissed
  BY DEF Init, OnlyALateTicketIsMissed, NoTicket
<1> QED BY <1>3, <1>4, <1>5, <1>6, <1>7 DEF RecordsInv, ContactsOK

\* The frame a step starts from.
LEMMA FrameHere ==
  ASSUME RecordsInv, NEW h \in Handlers
  PROVE  frame[h] \in Frame /\ FrameOK(frame[h], contact)
BY DEF RecordsInv, TypeOK, FramesOK

LEMMA NoContactFields ==
  NoContact.address = Nobody /\ NoContact.organization = Nobody /\ ~NoContact.alone
BY DEF NoContact

\* A contact with an address exists.
LEMMA AddressOfSome ==
  ASSUME RecordsInv, NEW c \in Contacts
  PROVE  /\ contact[c] \in Contact
         /\ contact[c].address # Nobody => c \in Existing
         /\ c \in Existing <=> contact[c] # NoContact
BY DEF RecordsInv, TypeOK, Existing, NoContact

\* One frame is replaced.
LEMMA Replaced ==
  ASSUME RecordsInv, NEW h \in Handlers, NEW f \in Frame, Goto(h, f)
  PROVE  /\ frame' \in [Handlers -> Frame] /\ frame'[h] = f
         /\ \A g \in Handlers \ {h} : frame'[g] = frame[g]
BY DEF Goto, RecordsInv, TypeOK

\* A step that writes no contact and no ticket, and gives no number.
LEMMA ReadingStep ==
  ASSUME RecordsInv, NEW h \in Handlers, NEW f \in Frame, Goto(h, f),
         UNCHANGED <<contact, ticket, last>>,
         organization' \in [Organizations -> {"none", "live", "deleted"}],
         FrameOK(f, contact), f.pc # "commit",
         \A g \in Handlers \ {h} : Apart(f, frame[g]) /\ Apart(frame[g], f),
         holder' = holder \/ (holder = h /\ holder' = Nobody)
  PROVE  RecordsInv'
<1>1. /\ frame' \in [Handlers -> Frame] /\ frame'[h] = f
      /\ \A g \in Handlers \ {h} : frame'[g] = frame[g]
  BY Replaced
<1>2. TypeOK'
  BY <1>1 DEF RecordsInv, TypeOK
<1>3. FramesOK'
  BY <1>1 DEF RecordsInv, FramesOK
<1>4. AllApart'
  BY <1>1 DEF RecordsInv, AllApart
<1>5. Numbered'
  BY <1>1 DEF RecordsInv, Numbered, At
<1>6. ContactsOK' /\ TicketsOK' /\ OnlyALateTicketIsMissed'
  BY DEF RecordsInv, ContactsOK, TicketsOK, OnlyALateTicketIsMissed, Existing
<1> QED BY <1>2, <1>3, <1>4, <1>5, <1>6 DEF RecordsInv

LEMMA IdleOK == ASSUME RecordsAssumption PROVE Idle \in Frame /\ ~Idle.fresh /\ Idle.pc = "idle"
                                              /\ \A cs : FrameOK(Idle, cs)
<1>1. 0 \in 0..MaxTickets
  BY DEF RecordsAssumption
<1> QED BY <1>1 DEF Idle, Frame, FrameOK

\* The same when the handler's work is over.
LEMMA IdleStep ==
  ASSUME RecordsAssumption, RecordsInv, NEW h \in Handlers, Goto(h, Idle),
         UNCHANGED <<contact, ticket, last>>,
         organization' \in [Organizations -> {"none", "live", "deleted"}],
         holder' = holder \/ (holder = h /\ holder' = Nobody)
  PROVE  RecordsInv'
<1>1. \A g \in Handlers \ {h} : Apart(Idle, frame[g]) /\ Apart(frame[g], Idle)
  BY IdleOK DEF Apart
<1> QED BY <1>1, IdleOK, ReadingStep

\* A frame that is about to have its number, for a contact there already.
LEMMA NumberFrame ==
  ASSUME RecordsAssumption, NEW c \in Contacts, NEW o \in Organizations \cup {Nobody}
  PROVE  LET f == [Idle EXCEPT !.pc = "number", !.contact = c, !.organization = o] IN
         f \in Frame /\ ~f.fresh /\ f.pc = "number" /\ f.contact = c
BY IdleOK DEF Frame, Idle

LEMMA LookUpStep ==
  ASSUME RecordsAssumption, RecordsInv, NEW h \in Handlers, NEW a \in Addresses,
         NEW chat \in BOOLEAN, LookUp(h, a, chat)
  PROVE  RecordsInv'
<1>0. organization' \in [Organizations -> {"none", "live", "deleted"}]
      /\ UNCHANGED <<contact, ticket, last, holder>>
  BY DEF LookUp, RecordsInv, TypeOK
<1>1. CASE \E c \in Contacts : HasAddress(c, a)
  <2>1. PICK c \in Contacts :
          /\ HasAddress(c, a)
          /\ Goto(h, [Idle EXCEPT !.pc = "number", !.contact = c,
                                  !.organization = contact[c].organization])
    BY <1>1 DEF LookUp
  <2> DEFINE f == [Idle EXCEPT !.pc = "number", !.contact = c,
                               !.organization = contact[c].organization]
  <2>2. /\ c \in Existing /\ contact[c].organization \in Organizations \cup {Nobody}
        /\ contact[c].address # Nobody
    BY <2>1, AddressOfSome DEF HasAddress, Contact, RecordsAssumption
  <2>3. f \in Frame /\ ~f.fresh /\ f.pc = "number" /\ f.contact = c
    BY <2>2, NumberFrame
  <2>4. Goto(h, f)
    BY <2>1
  <2> HIDE DEF f
  <2>5. FrameOK(f, contact)
    BY <2>2, <2>3, AddressOfSome DEF FrameOK
  <2>6. \A g \in Handlers \ {h} : Apart(f, frame[g]) /\ Apart(frame[g], f)
    BY <2>3 DEF Apart
  <2> QED BY <1>0, <2>3, <2>4, <2>5, <2>6, ReadingStep
<1>2. CASE ~\E c \in Contacts : HasAddress(c, a)
  <2> DEFINE f == [Idle EXCEPT !.pc = "insert", !.chat = chat, !.address = a]
  <2>1. Goto(h, f)
    BY <1>2 DEF LookUp
  <2>2. f \in Frame /\ ~f.fresh /\ f.pc = "insert" /\ f.address = a /\ f.organization = Nobody
    BY IdleOK DEF Frame, Idle
  <2> HIDE DEF f
  <2>3. FrameOK(f, contact)
    BY <2>2 DEF FrameOK
  <2>4. \A g \in Handlers \ {h} : Apart(f, frame[g]) /\ Apart(frame[g], f)
    BY <2>2 DEF Apart
  <2> QED BY <1>0, <2>1, <2>2, <2>3, <2>4, ReadingStep
<1> QED BY <1>1, <1>2

LEMMA InsertContactStep ==
  ASSUME RecordsAssumption, RecordsInv, NEW h \in Handlers, InsertContact(h)
  PROVE  RecordsInv'
<1>0. organization' \in [Organizations -> {"none", "live", "deleted"}]
      /\ UNCHANGED <<contact, ticket, last, holder>> /\ frame[h].pc = "insert"
  BY DEF InsertContact, RecordsInv, TypeOK, At
<1>1. CASE \E c \in Contacts : HasAddress(c, frame[h].address)
  BY <1>0, <1>1, IdleStep DEF InsertContact
<1>2. CASE ~\E c \in Contacts : HasAddress(c, frame[h].address)
  <2>1. PICK c \in Unused :
               Goto(h, [frame[h] EXCEPT !.pc = "number", !.contact = c, !.fresh = TRUE])
    BY <1>2 DEF InsertContact
  <2> DEFINE f == [frame[h] EXCEPT !.pc = "number", !.contact = c, !.fresh = TRUE]
  <2>2. frame[h] \in Frame /\ frame[h].address \in Addresses /\ c \in Contacts
    BY <1>0, FrameHere DEF FrameOK, Unused
  <2>3. f \in Frame /\ f.fresh /\ f.pc = "number" /\ f.address = frame[h].address /\ f.contact = c
        /\ f.organization = frame[h].organization
    BY <2>2 DEF Frame
  <2>4. Goto(h, f)
    BY <2>1
  <2> HIDE DEF f
  <2>5. contact[c] = NoContact /\ \A d \in Contacts : contact[d].address # f.address
    <3>1. contact[c] = NoContact
      BY <2>1 DEF Unused, Existing
    <3>2. f.address # Nobody
      BY <2>2, <2>3 DEF RecordsAssumption
    <3> QED BY <1>2, <2>3, <3>1, <3>2, AddressOfSome DEF HasAddress
  <2>6. f.organization = Nobody
    BY <1>0, <2>3, FrameHere DEF FrameOK
  <2>7. FrameOK(f, contact)
    BY <2>2, <2>3, <2>5, <2>6 DEF FrameOK
  <2>8. ASSUME NEW g \in Handlers \ {h}
        PROVE  Apart(f, frame[g]) /\ Apart(frame[g], f)
    <3>1. ~(frame[g].fresh /\ frame[g].address = frame[h].address)
      BY DEF InsertContact, AwaitsAddress
    <3>2. frame[g].contact # c
      BY <2>1 DEF Unused
    <3> QED BY <2>3, <3>1, <3>2 DEF Apart
  <2> QED BY <1>0, <2>3, <2>4, <2>7, <2>8, ReadingStep
<1> QED BY <1>1, <1>2

\* A step that commits contact c or its address for a chat: no other open transaction has it,
\* nor that address.
LEMMA ChatStep ==
  ASSUME RecordsAssumption, RecordsInv, NEW h \in Handlers, NEW f \in Frame, Goto(h, f),
         NEW c \in Contacts, NEW r \in Contact, contact' \in [Contacts -> Contact],
         contact'[c] = r, \A d \in Contacts \ {c} : contact'[d] = contact[d],
         UNCHANGED <<organization, ticket, last, holder>>,
         r.alone, r.organization = contact[c].organization,
         contact[c].address # Nobody => r.address # Nobody,
         f.pc \in {"detail", "number"}, ~f.fresh, FrameOK(f, contact'),
         \A g \in Handlers \ {h} :
           /\ Apart(f, frame[g]) /\ Apart(frame[g], f)
           /\ frame[g].fresh => frame[g].contact # c /\ frame[g].address # r.address
           /\ frame[g].pc = "detail" => frame[g].contact # c,
         \A d \in Contacts : contact[d].address = r.address => r.address = Nobody
  PROVE  RecordsInv'
<1>1. /\ frame' \in [Handlers -> Frame] /\ frame'[h] = f
      /\ \A g \in Handlers \ {h} : frame'[g] = frame[g]
  BY Replaced
<1>2. /\ contact' \in [Contacts -> Contact] /\ contact'[c] = r
      /\ \A d \in Contacts \ {c} : contact'[d] = contact[d]
      /\ \A d \in Contacts : contact'[d].organization = contact[d].organization
      /\ r # NoContact
  BY DEF RecordsInv, TypeOK, NoContact
<1>3. TypeOK'
  BY <1>1, <1>2 DEF RecordsInv, TypeOK
<1>4. FramesOK'
  <2>1. ASSUME NEW g \in Handlers \ {h} PROVE FrameOK(frame[g], contact')
    <3>1. FrameOK(frame[g], contact)
      BY FrameHere
    <3>2. \A d \in Contacts : contact[d] # NoContact => contact'[d] # NoContact
      BY <1>2
    <3>3. frame[g].pc = "detail" => contact'[frame[g].contact] = contact[frame[g].contact]
      BY <1>2, <3>1 DEF FrameOK
    <3>5. \A d \in Contacts : contact[d].address # Nobody => contact'[d].address # Nobody
      BY <1>2
    <3>4. frame[g].fresh => /\ contact'[frame[g].contact] = NoContact
                            /\ \A d \in Contacts : contact'[d].address # frame[g].address
      BY <1>2, <3>1 DEF FrameOK
    <3> QED BY <3>1, <3>2, <3>3, <3>4, <3>5 DEF FrameOK
  <2> QED BY <1>1, <2>1 DEF FramesOK
<1>5. AllApart'
  BY <1>1 DEF RecordsInv, AllApart
<1>6. Numbered'
  BY <1>1 DEF RecordsInv, Numbered, At
<1>7. ContactsOK'
  <2>1. \A d \in Existing' : d = c \/ d \in Existing
    BY <1>2 DEF Existing
  <2>2. \A d \in Existing' : \/ /\ contact'[d].address # Nobody
                              /\ \E n \in Numbers : ticket'[n].contact = d
                           \/ contact'[d].alone
    BY <1>2, <2>1 DEF RecordsInv, ContactsOK, Existing
  <2>3. ASSUME NEW d \in Existing', NEW e \in Existing',
               contact'[d].address = contact'[e].address, contact'[d].address # Nobody
        PROVE  d = e
    <3>1. d \in Contacts /\ e \in Contacts
      BY DEF Existing
    <3>2. CASE d = c \/ e = c
      BY <1>2, <2>3, <3>1, <3>2
    <3>3. CASE d # c /\ e # c
      BY <1>2, <2>1, <2>3, <3>1, <3>3 DEF RecordsInv, ContactsOK
    <3> QED BY <3>2, <3>3
  <2> QED BY <2>2, <2>3 DEF ContactsOK
<1>8. TicketsOK'
  BY DEF RecordsInv, TicketsOK
<1>9. OnlyALateTicketIsMissed'
  <2>1. \A n \in Numbers : ticket[n].contact # Nobody => ticket[n].contact \in Contacts
    BY DEF RecordsInv, TypeOK, Ticket
  <2> QED BY <1>2, <2>1 DEF RecordsInv, OnlyALateTicketIsMissed
<1> QED BY <1>3, <1>4, <1>5, <1>6, <1>7, <1>8, <1>9 DEF RecordsInv

LEMMA CommitContactStep ==
  ASSUME RecordsAssumption, RecordsInv, NEW h \in Handlers, CommitContact(h)
  PROVE  RecordsInv'
<1>1. PICK c \in Unused : /\ contact' = [contact EXCEPT ![c].alone = TRUE]
                          /\ Goto(h, [frame[h] EXCEPT !.pc = "detail", !.contact = c])
  BY DEF CommitContact
<1> DEFINE r == [contact[c] EXCEPT !.alone = TRUE]
           f == [frame[h] EXCEPT !.pc = "detail", !.contact = c]
<1>2. /\ frame[h].pc = "insert" /\ frame[h] \in Frame /\ frame[h].address \in Addresses
      /\ ~frame[h].fresh
      /\ UNCHANGED <<organization, ticket, last, holder>>
  BY FrameHere DEF CommitContact, At, FrameOK
<1>3. c \in Contacts /\ contact[c] = NoContact /\ contact[c] \in Contact
      /\ \A g \in Handlers : frame[g].contact # c
  BY <1>1, AddressOfSome DEF Unused, Existing
<1>4. /\ r \in Contact /\ r.alone /\ r.address = Nobody
      /\ r.organization = contact[c].organization /\ contact[c].address = Nobody
  BY <1>3, NoContactFields DEF Contact
<1>5. /\ f \in Frame /\ f.pc = "detail" /\ f.contact = c /\ ~f.fresh
      /\ f.address = frame[h].address
  BY <1>2, <1>3 DEF Frame
<1>6. /\ contact' \in [Contacts -> Contact] /\ contact'[c] = r /\ Goto(h, f)
      /\ \A d \in Contacts \ {c} : contact'[d] = contact[d]
  BY <1>1, <1>3, <1>4 DEF RecordsInv, TypeOK
<1>9. f.pc \in {"detail", "number"} /\ \A d \in Contacts : contact[d].address = r.address =>
                                                            r.address = Nobody
  BY <1>4, <1>5
<1> HIDE DEF r, f
<1>7. FrameOK(f, contact')
  BY <1>2, <1>3, <1>4, <1>5, <1>6 DEF FrameOK, NoContact
<1>8. \A g \in Handlers \ {h} :
        /\ Apart(f, frame[g]) /\ Apart(frame[g], f)
        /\ frame[g].fresh => frame[g].contact # c /\ frame[g].address # r.address
        /\ frame[g].pc = "detail" => frame[g].contact # c
  <2>1. \A g \in Handlers : frame[g].fresh => frame[g].address # Nobody
    BY FrameHere DEF FrameOK, RecordsAssumption
  <2> QED BY <1>3, <1>4, <1>5, <2>1 DEF Apart
<1> QED BY <1>2, <1>3, <1>4, <1>5, <1>6, <1>7, <1>8, <1>9, ChatStep

LEMMA CommitDetailStep ==
  ASSUME RecordsAssumption, RecordsInv, NEW h \in Handlers, CommitDetail(h)
  PROVE  RecordsInv'
<1> DEFINE c == frame[h].contact
           a == frame[h].address
<1>1. /\ frame[h].pc = "detail" /\ c \in Contacts /\ a \in Addresses /\ a # Nobody
      /\ contact[c] \in Contact /\ contact[c] # NoContact /\ contact[c].alone
      /\ UNCHANGED <<organization, ticket, last, holder>>
  BY FrameHere, AddressOfSome DEF CommitDetail, At, FrameOK, RecordsAssumption
<1>2. CASE \E d \in Contacts : HasAddress(d, a)
  <2>1. organization' \in [Organizations -> {"none", "live", "deleted"}]
    BY <1>1 DEF RecordsInv, TypeOK
  <2> QED BY <1>1, <1>2, <2>1, IdleStep DEF CommitDetail
<1>3. CASE ~\E d \in Contacts : HasAddress(d, a)
  <2> DEFINE r == [contact[c] EXCEPT !.address = a]
             f == [Idle EXCEPT !.pc = "number", !.contact = c]
  <2>1. /\ contact' = [contact EXCEPT ![c] = r] /\ Goto(h, f) /\ contact'[c] = r
        /\ \A d \in Contacts \ {c} : contact'[d] = contact[d]
    BY <1>1, <1>3 DEF CommitDetail, RecordsInv, TypeOK
  <2>2. /\ r \in Contact /\ r.alone /\ r.address = a
        /\ r.organization = contact[c].organization /\ r # NoContact
    BY <1>1 DEF Contact, NoContact
  <2>8. contact' \in [Contacts -> Contact]
    BY <2>1, <2>2 DEF RecordsInv, TypeOK
  <2>3. f \in Frame /\ f.pc = "number" /\ f.contact = c /\ ~f.fresh
    BY <1>1, IdleOK DEF Frame, Idle
  <2> HIDE DEF r, f
  <2>4. FrameOK(f, contact')
    BY <1>1, <2>1, <2>2, <2>3 DEF FrameOK
  <2>5. \A d \in Contacts : contact[d].address # r.address
    BY <1>1, <1>3, <2>2, AddressOfSome DEF HasAddress
  <2>7. r.address # Nobody
    BY <1>1, <2>2
  <2>6. ASSUME NEW g \in Handlers \ {h}
        PROVE  /\ Apart(f, frame[g]) /\ Apart(frame[g], f)
               /\ frame[g].fresh => frame[g].contact # c /\ frame[g].address # r.address
               /\ frame[g].pc = "detail" => frame[g].contact # c
    <3>1. frame[g].fresh => frame[g].address # a
      BY DEF CommitDetail, AwaitsAddress
    <3>2. frame[g].fresh => frame[g].contact # c
      BY <1>1, FrameHere DEF FrameOK
    <3>3. frame[g].pc = "detail" => frame[g].contact # c
      BY <1>1 DEF RecordsInv, AllApart, Apart
    <3> QED BY <2>2, <2>3, <3>1, <3>2, <3>3 DEF Apart
  <2> HIDE DEF c, a
  <2>9. /\ f \in Frame /\ Goto(h, f) /\ c \in Contacts /\ r \in Contact
        /\ f.pc \in {"detail", "number"} /\ ~f.fresh /\ FrameOK(f, contact')
        /\ contact'[c] = r /\ \A d \in Contacts \ {c} : contact'[d] = contact[d]
        /\ r.alone /\ r.organization = contact[c].organization
    BY <1>1, <2>1, <2>2, <2>3, <2>4
  <2> QED BY <1>1, <2>5, <2>6, <2>7, <2>8, <2>9, ChatStep
<1> QED BY <1>2, <1>3

LEMMA FailStep ==
  ASSUME RecordsAssumption, RecordsInv, NEW h \in Handlers, Fail(h)
  PROVE  RecordsInv'
<1>1. organization' \in [Organizations -> {"none", "live", "deleted"}]
  BY DEF Fail, RecordsInv, TypeOK
<1> QED BY <1>1, IdleStep DEF Fail

LEMMA AllocateStep ==
  ASSUME RecordsAssumption, RecordsInv, NEW h \in Handlers, Allocate(h)
  PROVE  RecordsInv'
<1> DEFINE f == [frame[h] EXCEPT !.pc = "commit", !.number = last + 1]
<1>1. /\ frame[h] \in Frame /\ FrameOK(frame[h], contact) /\ frame[h].pc = "number"
      /\ holder = Nobody /\ holder' = h /\ last < MaxTickets
      /\ UNCHANGED <<contact, organization, ticket, last>>
  BY FrameHere DEF Allocate, At
<1>2. last + 1 \in 0..MaxTickets
  BY <1>1 DEF RecordsInv, TypeOK, RecordsAssumption
<1>3. f \in Frame /\ f.pc = "commit" /\ f.number = last + 1 /\ f.address = frame[h].address
      /\ f.contact = frame[h].contact /\ f.organization = frame[h].organization
      /\ f.fresh = frame[h].fresh
  BY <1>1, <1>2 DEF Frame
<1>4. Goto(h, f)
  BY DEF Allocate
<1> HIDE DEF f
<1>5. /\ frame' \in [Handlers -> Frame] /\ frame'[h] = f
      /\ \A g \in Handlers \ {h} : frame'[g] = frame[g]
  BY <1>3, <1>4, Replaced
<1>6. TypeOK'
  BY <1>1, <1>5 DEF RecordsInv, TypeOK
<1>7. FramesOK'
  <2>1. FrameOK(f, contact)
    BY <1>1, <1>3 DEF FrameOK
  <2> QED BY <1>1, <1>5, <2>1 DEF RecordsInv, FramesOK
<1>8. AllApart'
  BY <1>3, <1>5 DEF RecordsInv, AllApart, Apart
<1>9. Numbered'
  <2>1. \A g \in Handlers : ~At(g, "commit")
    BY <1>1 DEF RecordsInv, Numbered, RecordsAssumption
  <2> QED BY <1>1, <1>3, <1>5, <2>1 DEF Numbered, At
<1>10. ContactsOK' /\ TicketsOK' /\ OnlyALateTicketIsMissed'
  BY <1>1 DEF RecordsInv, ContactsOK, TicketsOK, OnlyALateTicketIsMissed, Existing
<1> QED BY <1>6, <1>7, <1>8, <1>9, <1>10 DEF RecordsInv

\* The contact commits with its ticket, and the ticket with its number.
LEMMA CommitOpeningStep ==
  ASSUME RecordsAssumption, RecordsInv, NEW h \in Handlers, CommitOpening(h)
  PROVE  RecordsInv'
<1> DEFINE f == frame[h]
           new == [contact |-> f.contact, organization |-> f.organization,
                   late |-> contact[f.contact].organization # f.organization]
<1>1. /\ f \in Frame /\ FrameOK(f, contact) /\ f.pc = "commit" /\ holder = h /\ f.number = last + 1
  BY FrameHere DEF CommitOpening, At, RecordsInv, Numbered
<1>2. /\ f.contact \in Contacts /\ f.contact # Nobody
      /\ f.fresh => f.address \in Addresses /\ f.address # Nobody
      /\ ~f.fresh => contact[f.contact].address # Nobody
  BY <1>1 DEF FrameOK, RecordsAssumption
<1>3. f.number \in Numbers /\ last \in Nat /\ f.number \in 0..MaxTickets
  BY <1>1 DEF Frame, Numbers, RecordsInv, TypeOK, RecordsAssumption
<1>4. new \in Ticket /\ new.contact = f.contact /\ new.organization = f.organization
      /\ (new.late <=> contact[f.contact].organization # f.organization)
  BY <1>1 DEF Frame, Ticket
<1>5. /\ contact' = [contact EXCEPT ![f.contact].alone = FALSE,
                                    ![f.contact].address = IF f.fresh THEN f.address ELSE @]
      /\ ticket' = [ticket EXCEPT ![f.number] = new]
      /\ last' = f.number /\ holder' = Nobody /\ Goto(h, Idle) /\ UNCHANGED organization
  BY DEF CommitOpening
<1> HIDE DEF f, new
<1>6. /\ frame' \in [Handlers -> Frame] /\ frame'[h] = Idle
      /\ \A g \in Handlers \ {h} : frame'[g] = frame[g]
  BY <1>5, IdleOK, Replaced
<1>7. /\ contact' \in [Contacts -> Contact]
      /\ \A c \in Contacts : contact'[c].organization = contact[c].organization
      /\ contact'[f.contact].address = IF f.fresh THEN f.address ELSE contact[f.contact].address
      /\ contact'[f.contact].address # Nobody
      /\ \A c \in Contacts \ {f.contact} : contact'[c] = contact[c]
  <2> DEFINE r == [contact[f.contact] EXCEPT
                     !.alone = FALSE,
                     !.address = IF f.fresh THEN f.address ELSE contact[f.contact].address]
  <2>1. contact[f.contact] \in Contact
    BY <1>2, AddressOfSome
  <2>2. /\ r \in Contact /\ r.organization = contact[f.contact].organization
        /\ r.address = IF f.fresh THEN f.address ELSE contact[f.contact].address
    BY <1>2, <2>1 DEF Contact
  <2>3. contact' = [contact EXCEPT ![f.contact] = r]
    BY <1>2, <1>5 DEF RecordsInv, TypeOK, Contact
  <2> HIDE DEF r
  <2> QED BY <1>2, <2>2, <2>3 DEF RecordsInv, TypeOK
<1>8. /\ ticket' \in [Numbers -> Ticket] /\ ticket'[f.number] = new
      /\ \A n \in Numbers \ {f.number} : ticket'[n] = ticket[n]
  BY <1>3, <1>4, <1>5 DEF RecordsInv, TypeOK
<1>9. TypeOK'
  BY <1>3, <1>5, <1>6, <1>7, <1>8 DEF RecordsInv, TypeOK
<1>10. f.fresh => contact[f.contact] = NoContact /\ \A c \in Contacts : contact[c].address # f.address
  BY <1>1 DEF FrameOK
<1>11. FramesOK'
  <2>1. FrameOK(Idle, contact')
    BY IdleOK
  <2>2. ASSUME NEW g \in Handlers \ {h} PROVE FrameOK(frame[g], contact')
    <3>1. FrameOK(frame[g], contact) /\ frame[g] \in Frame
      BY FrameHere
    <3>2. Apart(frame[g], f)
      BY DEF RecordsInv, AllApart, f
    <3>3. \A c \in Contacts : contact[c].address # Nobody => contact'[c].address # Nobody
      BY <1>2, <1>7
    <3>4. \A c \in Contacts : contact[c] # NoContact => contact'[c] # NoContact
      BY <1>2, <1>7, NoContactFields
    <3>5. frame[g].fresh => /\ contact'[frame[g].contact] = NoContact
                            /\ \A c \in Contacts : contact'[c].address # frame[g].address
      <4>1. frame[g].fresh => frame[g].contact # f.contact
        BY <1>2, <3>1, <3>2 DEF FrameOK, Apart, NoContact
      <4> QED BY <1>2, <1>7, <3>1, <3>2, <4>1 DEF FrameOK, Apart
    <3>6. frame[g].pc = "detail" => contact'[frame[g].contact] = contact[frame[g].contact]
      BY <1>2, <1>7, <1>10, <3>1 DEF FrameOK, NoContact
    <3> QED BY <3>1, <3>3, <3>4, <3>5, <3>6 DEF FrameOK
  <2> QED BY <1>6, <2>1, <2>2 DEF FramesOK
<1>12. AllApart'
  BY <1>6, IdleOK DEF RecordsInv, AllApart, Apart
<1>13. Numbered'
  BY <1>1, <1>6, IdleOK DEF RecordsInv, Numbered, At
<1>14. ContactsOK'
  <2>1. \A c \in Existing' : c \in Contacts /\ (c \in Existing \/ c = f.contact)
    BY <1>7 DEF Existing
  <2>2. ASSUME NEW c \in Existing'
        PROVE  \/ contact'[c].address # Nobody /\ \E n \in Numbers : ticket'[n].contact = c
               \/ contact'[c].alone
    <3>1. CASE c = f.contact
      BY <1>3, <1>4, <1>7, <1>8, <3>1
    <3>2. CASE c # f.contact /\ ~contact[c].alone
      <4>1. PICK n \in Numbers : ticket[n].contact = c
        BY <2>1, <3>2 DEF RecordsInv, ContactsOK
      <4>2. n # f.number
        <5>1. ticket[f.number] = NoTicket
          BY <1>1, <1>3 DEF RecordsInv, TicketsOK
        <5>2. c # Nobody
          BY <2>1 DEF RecordsAssumption
        <5> QED BY <4>1, <5>1, <5>2 DEF NoTicket
      <4>3. contact'[c].address # Nobody
        BY <1>7, <2>1, <3>2 DEF RecordsInv, ContactsOK
      <4> QED BY <1>8, <4>1, <4>2, <4>3
    <3>3. CASE c # f.contact /\ contact[c].alone
      BY <1>7, <2>1, <3>3
    <3> QED BY <3>1, <3>2, <3>3
  <2>3. ASSUME NEW c \in Existing', NEW d \in Existing',
               contact'[c].address = contact'[d].address, contact'[c].address # Nobody
        PROVE  c = d
    <3>1. \A e \in Contacts \ {f.contact} : contact'[f.contact].address # contact[e].address
      BY <1>2, <1>7, <1>10, AddressOfSome DEF RecordsInv, ContactsOK
    <3>2. CASE c = f.contact \/ d = f.contact
      BY <1>7, <2>1, <2>3, <3>1, <3>2
    <3>3. CASE c # f.contact /\ d # f.contact
      BY <1>7, <2>1, <2>3, <3>3 DEF RecordsInv, ContactsOK
    <3> QED BY <3>2, <3>3
  <2> QED BY <2>2, <2>3 DEF ContactsOK
<1>15. TicketsOK'
  <2>1. \A n \in Numbers : n <= last + 1 <=> n <= last \/ n = f.number
    BY <1>1, <1>3 DEF Numbers
  <2> QED BY <1>1, <1>2, <1>4, <1>5, <1>8, <2>1 DEF RecordsInv, TicketsOK
<1>16. OnlyALateTicketIsMissed'
  <2>1. ASSUME NEW n \in Numbers, ticket'[n].contact # Nobody, ticket'[n].organization = Nobody,
               ~ticket'[n].late
        PROVE  contact'[ticket'[n].contact].organization = Nobody
    <3>1. ticket'[n].contact \in Contacts
      BY <1>8, <2>1 DEF Ticket
    <3>2. CASE n = f.number
      BY <1>2, <1>4, <1>7, <1>8, <2>1, <3>2
    <3>3. CASE n # f.number
      BY <1>7, <1>8, <2>1, <3>1, <3>3 DEF RecordsInv, OnlyALateTicketIsMissed
    <3> QED BY <3>2, <3>3
  <2> QED BY <2>1 DEF OnlyALateTicketIsMissed
<1> QED BY <1>9, <1>11, <1>12, <1>13, <1>14, <1>15, <1>16 DEF RecordsInv
-----------------------------------------------------------------------------
(* Linking.                                                                *)

LEMMA BeginLinkStep ==
  ASSUME RecordsAssumption, RecordsInv, NEW h \in Handlers, NEW c \in Contacts, NEW o \in Organizations,
         c \in Existing, Goto(h, [Idle EXCEPT !.pc = "link", !.contact = c, !.organization = o]),
         organization' \in [Organizations -> {"none", "live", "deleted"}],
         UNCHANGED <<contact, ticket, last, holder>>
  PROVE  RecordsInv'
<1> DEFINE f == [Idle EXCEPT !.pc = "link", !.contact = c, !.organization = o]
<1>1. f \in Frame /\ ~f.fresh /\ f.pc = "link" /\ f.contact = c /\ f.organization = o
  BY IdleOK DEF Frame, Idle
<1>2. Goto(h, f)
  OBVIOUS
<1> HIDE DEF f
<1>3. FrameOK(f, contact)
  BY <1>1, AddressOfSome DEF FrameOK
<1>4. \A g \in Handlers \ {h} : Apart(f, frame[g]) /\ Apart(frame[g], f)
  BY <1>1 DEF Apart
<1> QED BY <1>1, <1>2, <1>3, <1>4, ReadingStep

LEMMA LinkContactStep ==
  ASSUME RecordsAssumption, RecordsInv, NEW h \in Handlers, LinkContact(h)
  PROVE  RecordsInv'
<1> DEFINE k == frame[h].contact
           o == frame[h].organization
<1>1. k \in Contacts /\ contact[k] # NoContact /\ o \in Organizations /\ o # Nobody
  BY FrameHere DEF LinkContact, Link, At, FrameOK, RecordsAssumption
<1>2. /\ contact' = [contact EXCEPT ![k].organization = o]
      /\ ticket' = [n \in Numbers |->
           IF ticket[n].contact = k /\ n \in {m \in Numbers : ticket[m].organization = Nobody}
           THEN [ticket[n] EXCEPT !.organization = o] ELSE ticket[n]]
      /\ Goto(h, Idle) /\ UNCHANGED <<organization, last, holder>>
  BY DEF LinkContact, Link, Backfilled
<1> HIDE DEF k, o
<1>3. /\ frame' \in [Handlers -> Frame] /\ frame'[h] = Idle
      /\ \A g \in Handlers \ {h} : frame'[g] = frame[g]
  BY <1>2, IdleOK, Replaced
<1>4. /\ contact' \in [Contacts -> Contact]
      /\ \A c \in Contacts : /\ contact'[c].address = contact[c].address
                               /\ contact'[c].alone = contact[c].alone
      /\ \A c \in Contacts \ {k} : contact'[c] = contact[c]
      /\ contact'[k].organization = o
  BY <1>1, <1>2 DEF RecordsInv, TypeOK, Contact
<1>5. /\ ticket' \in [Numbers -> Ticket]
      /\ \A n \in Numbers : ticket'[n].contact = ticket[n].contact /\ ticket'[n].late = ticket[n].late
      /\ \A n \in Numbers : ticket[n].contact # k => ticket'[n] = ticket[n]
      /\ \A n \in Numbers : ticket[n].contact = k => ticket'[n].organization # Nobody
  <2>1. \A n \in Numbers : ticket[n] \in Ticket /\ [ticket[n] EXCEPT !.organization = o] \in Ticket
    BY <1>1 DEF RecordsInv, TypeOK, Ticket
  <2> QED BY <1>1, <1>2, <2>1 DEF Ticket
<1>6. TypeOK'
  BY <1>2, <1>3, <1>4, <1>5 DEF RecordsInv, TypeOK
<1>7. \A c \in Contacts : c \in Existing' <=> c \in Existing
  BY <1>1, <1>4, NoContactFields DEF Existing
<1>8. FramesOK'
  <2>1. FrameOK(Idle, contact')
    BY IdleOK
  <2>2. ASSUME NEW g \in Handlers \ {h} PROVE FrameOK(frame[g], contact')
    <3>1. FrameOK(frame[g], contact) /\ frame[g] \in Frame
      BY FrameHere
    <3>2. frame[g].fresh => frame[g].contact # k /\ frame[g].contact \in Contacts
      BY <1>1, <3>1 DEF FrameOK, NoContact
    <3>3. \A c \in Contacts : contact[c] # NoContact => contact'[c] # NoContact
      BY <1>1, <1>4, NoContactFields
    <3> QED BY <1>4, <3>1, <3>2, <3>3 DEF FrameOK
  <2> QED BY <1>3, <2>1, <2>2 DEF FramesOK
<1>9. AllApart'
  BY <1>3, IdleOK DEF RecordsInv, AllApart, Apart
<1>10. Numbered'
  BY <1>2, <1>3, IdleOK DEF RecordsInv, Numbered, At
<1>11. ContactsOK'
  BY <1>4, <1>5, <1>7 DEF RecordsInv, ContactsOK, Existing
<1>12. TicketsOK'
  <2>1. \A n \in Numbers : ticket[n] = NoTicket => ticket[n].contact # k
    BY <1>1 DEF NoTicket, RecordsAssumption
  <2> QED BY <1>2, <1>5, <2>1 DEF RecordsInv, TicketsOK
<1>13. OnlyALateTicketIsMissed'
  <2>1. \A n \in Numbers : ticket[n].contact \in Contacts \cup {Nobody}
    BY DEF RecordsInv, TypeOK, Ticket
  <2> QED BY <1>4, <1>5, <2>1 DEF RecordsInv, OnlyALateTicketIsMissed
<1> QED BY <1>6, <1>8, <1>9, <1>10, <1>11, <1>12, <1>13 DEF RecordsInv

LEMMA DeleteOrganizationStep ==
  ASSUME RecordsAssumption, RecordsInv, NEW o \in Organizations, DeleteOrganization(o)
  PROVE  RecordsInv'
<1>1. TypeOK'
  BY DEF DeleteOrganization, RecordsInv, TypeOK
<1> QED BY <1>1 DEF DeleteOrganization, RecordsInv, FramesOK, AllApart, Numbered, At, ContactsOK,
                    TicketsOK, OnlyALateTicketIsMissed, Existing

LEMMA NextStep == ASSUME RecordsAssumption PROVE RecordsInv /\ [Next]_vars => RecordsInv'
<1> SUFFICES ASSUME RecordsInv, [Next]_vars PROVE RecordsInv'
  OBVIOUS
<1>1. CASE UNCHANGED vars
  BY <1>1 DEF vars, RecordsInv, TypeOK, FramesOK, AllApart, Numbered, At, ContactsOK, TicketsOK,
              OnlyALateTicketIsMissed, Existing
<1>2. ASSUME NEW h \in Handlers, NEW a \in Addresses, BeginOpen(h, a) \/ BeginChat(h, a)
      PROVE  RecordsInv'
  BY <1>2, LookUpStep DEF BeginOpen, BeginChat
<1>3. ASSUME NEW h \in Handlers,
             \/ InsertContact(h) \/ CommitContact(h) \/ CommitDetail(h)
             \/ Allocate(h) \/ CommitOpening(h) \/ Fail(h) \/ LinkContact(h)
      PROVE  RecordsInv'
  BY <1>3, InsertContactStep, CommitContactStep, CommitDetailStep, AllocateStep, CommitOpeningStep,
     FailStep, LinkContactStep
<1>4. ASSUME NEW h \in Handlers, NEW c \in Contacts, BeginLinkToNew(h, c) PROVE RecordsInv'
  BY <1>4, BeginLinkStep DEF BeginLinkToNew, RecordsInv, TypeOK
<1>5. ASSUME NEW h \in Handlers, NEW c \in Contacts, NEW o \in Organizations, BeginLink(h, c, o)
      PROVE  RecordsInv'
  BY <1>5, BeginLinkStep DEF BeginLink, RecordsInv, TypeOK
<1>6. ASSUME NEW o \in Organizations, DeleteOrganization(o) PROVE RecordsInv'
  BY <1>6, DeleteOrganizationStep
<1> QED BY <1>1, <1>2, <1>3, <1>4, <1>5, <1>6 DEF Next

LEMMA RecordsInvariant == ASSUME RecordsAssumption PROVE Spec => []RecordsInv
<1>1. Init => RecordsInv
  BY InitOK
<1>2. RecordsInv /\ [Next]_vars => RecordsInv'
  BY NextStep
<1> QED BY <1>1, <1>2, PTL DEF Spec
-----------------------------------------------------------------------------
(* The theorems.                                                           *)

\* Contacts, tickets and the sequence keep their types: in particular no number beyond the
\* sequence's is ever used (next_value).
THEOREM TypeCorrect == ASSUME RecordsAssumption PROVE Spec => []TypeOK
<1>1. RecordsInv => TypeOK
  BY DEF RecordsInv
<1> QED BY <1>1, RecordsInvariant, PTL

\* For any number of openings at once, and wherever each fails: every contact wrote in, but for
\* those a chat's start committed by itself; every address has one contact; and the numbers used
\* are 1 to the last without a gap (open_ticket, chat.views.start, next_value).
THEOREM OpeningsAreAllOrNothing == ASSUME RecordsAssumption PROVE Spec => []OpeningIsAllOrNothing
<1>1. RecordsInv => OpeningIsAllOrNothing
  <2> SUFFICES ASSUME RecordsInv PROVE OpeningIsAllOrNothing
    OBVIOUS
  <2>1. last \in 0..MaxTickets /\ MaxTickets \in Nat
    BY DEF RecordsInv, TypeOK, RecordsAssumption
  <2>2. \A n \in Numbers : ticket[n] # NoTicket <=> n <= last
    <3>1. NoTicket.contact = Nobody
      BY DEF NoTicket
    <3> QED BY <3>1 DEF RecordsInv, TicketsOK
  <2>3. {n \in Numbers : ticket[n] # NoTicket} = 1..last
    BY <2>1, <2>2 DEF Numbers
  <2> QED BY <2>3 DEF RecordsInv, ContactsOK, OpeningIsAllOrNothing
<1> QED BY <1>1, RecordsInvariant, PTL

\* A linked contact's ticket is left without an organization only if the link fell into its
\* opening (link_contact, open_ticket).
THEOREM OnlyLateTicketsAreMissed == ASSUME RecordsAssumption PROVE Spec => []OnlyALateTicketIsMissed
<1>1. RecordsInv => OnlyALateTicketIsMissed
  BY DEF RecordsInv
<1> QED BY <1>1, RecordsInvariant, PTL

\* No step of any handler takes a ticket from the organization it was raised under.
THEOREM AttributionsStand == ASSUME RecordsAssumption PROVE Spec => AttributionStands
<1>1. ASSUME RecordsInv, [Next]_vars, NEW n \in Numbers, ticket[n].organization # Nobody
      PROVE  ticket'[n].organization = ticket[n].organization
  <2>1. CASE UNCHANGED ticket
    BY <2>1
  <2>2. ASSUME NEW h \in Handlers, CommitOpening(h)
        PROVE  ticket'[n].organization = ticket[n].organization
    <3>1. frame[h].number = last + 1 /\ frame[h].number \in 0..MaxTickets
      BY <2>2, <1>1, FrameHere DEF CommitOpening, RecordsInv, Numbered, Frame
    <3>2. last \in Nat
      BY <1>1 DEF RecordsInv, TypeOK, RecordsAssumption
    <3>3. n # frame[h].number
      BY <1>1, <3>1, <3>2 DEF RecordsInv, TicketsOK, NoTicket, Numbers
    <3> QED BY <2>2, <3>3, <1>1 DEF CommitOpening, RecordsInv, TypeOK
  <2>3. ASSUME NEW h \in Handlers, LinkContact(h)
        PROVE  ticket'[n].organization = ticket[n].organization
    BY <2>3, <1>1 DEF LinkContact, Link, Backfilled
  <2> QED BY <1>1, <2>1, <2>2, <2>3 DEF Next, vars, BeginOpen, BeginChat, LookUp, InsertContact,
             CommitContact, CommitDetail, Allocate, Fail, BeginLink, BeginLinkToNew, DeleteOrganization
<1>2. RecordsInv /\ [Next]_vars =>
        [\A n \in Numbers : ticket[n].organization # Nobody =>
                              ticket'[n].organization = ticket[n].organization]_vars
  BY <1>1
<1> QED BY <1>2, RecordsInvariant, PTL DEF Spec, AttributionStands
=============================================================================
