----------------------------- MODULE MCMessages -----------------------------
(* Messages that are written (MCComposing), viewed (two with every kind of *)
(* part), or stored (one with every kind of header).                       *)
EXTENDS MCComposing, TLC

CONSTANTS m1, m2, Views, Roots, Images, MaxCommands, MaxChanges, Now, Width, Unit, ManualUnit, MaxTermLength

VARIABLES
  file, policy, agent, cache, draft, view, embedded, attachMap, mapOf, asked, commands, changes,
  header, doc, told, sought, found

P == INSTANCE MCParts
V == INSTANCE Attachments WITH Messages <- Views
H == INSTANCE MCDocuments WITH file <- header, shown <- told, asked <- sought

MCRoots == P!MCRoots
MCAddresses == {"me", "a", "b", "c", "list"} \X {1, 2}
MCOptions ==
  [recipients : {"all", "sender", "ask"}, keepSelf : BOOLEAN, dontSelf : BOOLEAN,
   ignore : {{}, {"c"}}]
MCNow == <<2000, 2, 29, 12, 0, 0>>
Symmetry == Permutations(Views)
----------------------------------------------------------------------------
written == vars
viewed == <<file, policy, agent, cache, draft, view, embedded, attachMap, mapOf, asked, commands,
            changes>>
stored == <<header, doc, told, sought, found>>

Policies == {<<"no", FALSE>>, <<"ask", FALSE>>, <<"ask", TRUE>>}

NothingViewed ==
  /\ file = [d \in Views |-> P!usual] /\ policy = "no" /\ agent = FALSE
  /\ cache = << >> /\ draft = V!NoDraft /\ asked = V!Nobody
  /\ view = V!Nothing /\ embedded = V!Nothing /\ attachMap = <<>> /\ mapOf = V!Nothing
  /\ commands = 0 /\ changes = 0

OfDrafts == original # Nil
OfParts == ~OfDrafts /\ header = H!None /\ doc = H!None

(* With the policy "ask", a user who always says yes has "yes"; and with   *)
(* "no", nobody asks the agent.  A message with nothing to list is there   *)
(* from the start beside the usual one only, and beside others by an edit. *)
MessagesInit ==
  \/ MCInit /\ NothingViewed /\ H!Given(H!None)
  \/ /\ Idle /\ V!Init /\ H!Given(H!None)
     /\ <<policy, agent>> \in Policies
     /\ \/ \A d \in Views : file[d] # P!unlisted
        \/ \E d \in Views : file[d] = P!usual
  \/ Idle /\ NothingViewed /\ H!Init
MessagesNext ==
  \/ OfDrafts /\ MCNext /\ UNCHANGED <<viewed, stored>>
  \/ OfParts /\ V!Next /\ UNCHANGED <<written, stored>>
  \/ ~OfDrafts /\ ~OfParts /\ H!Next /\ UNCHANGED <<written, viewed>>
MessagesSpec == MessagesInit /\ [][MessagesNext]_<<written, viewed, stored>>

AskedForIsGiven == OfParts => V!AskedForIsGiven
ForwardKeepsAll == OfParts => V!ForwardKeepsAll
TextIndexed == OfParts => V!TextIndexed
AttachFlagListed == OfParts => V!AttachFlagListed
ShownIsFound == ~OfDrafts => H!ShownIsFound
SameFromBoth == ~OfDrafts => H!SameFromBoth
RangeIsMeant == ~OfDrafts => H!RangeIsMeant
=============================================================================
