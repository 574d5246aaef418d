------------------------------ MODULE DesktopCalls ------------------------------
(***************************************************************************)
(* Calls and file transfer with one peer (native_client/internal/chat/     *)
(* webrtc.go and the call functions of main.go).  The peer is a client     *)
(* that can offer a call and frames files as SendFile does; each offer     *)
(* that is answered makes a connection with a data channel, and neither    *)
(* the end of a call nor the next one closes it, because nothing calls     *)
(* EndCall.  Files received from the peer share one state, rxState.  Calls *)
(* the user starts stop at the mutex CreateOffer holds.                    *)
(***************************************************************************)
EXTENDS Integers, Sequences

CONSTANTS MaxCalls, MaxFiles, MaxChunks   \* bounds on offers, files and their size

ASSUME CallsAssumption == MaxCalls \in Nat /\ MaxFiles \in Nat /\ MaxChunks \in Nat

VARIABLES
    call,      \* each offer: "none", "offered" (its dialog is open), "answered",
               \* "open" (so is its data channel) or "closed"
    wired,     \* setupDataChannel has set the channel's OnMessage
    wire,      \* frames on the way in each channel
    window,    \* a call window is open (CallWindows)
    stuck,     \* CreateOffer holds cm.Mu and waits for it
    rx,        \* rxState: the file being received, or NoRx
    sent,      \* files sent
    got,       \* files handed to OnFile, in order
    mixed      \* history: frames were lost before the channel was wired, or
               \* handled while another channel carried some

callsVars == <<call, wired, wire, window, stuck, rx, sent, got, mixed>>

Offers == 1..MaxCalls
NoRx == [name |-> 0, size |-> 0, data |-> <<>>]
File(f, n) == [name |-> f, size |-> n, data |-> [i \in 1..n |-> <<f, i>>]]

CallsInit ==
    /\ call = [c \in Offers |-> "none"]
    /\ wired = [c \in Offers |-> FALSE] /\ wire = [c \in Offers |-> <<>>]
    /\ window = FALSE /\ stuck = FALSE
    /\ rx = NoRx
    /\ sent = 0 /\ got = <<>> /\ mixed = FALSE

Move(c, from, to) == call[c] \in from /\ call' = [call EXCEPT ![c] = to]

(***************************************************************************)
(* Calls.                                                                  *)
(***************************************************************************)

(* A call_offer, relayed: showIncomingCallDialog.  Offers are numbered.    *)
CallOffer(c) ==
    /\ \A b \in 1..(c - 1) : call[b] # "none"
    /\ Move(c, {"none"}, "offered")
    /\ UNCHANGED <<wired, wire, window, stuck, rx, sent, got, mixed>>

(* overlay.OnAnswer: AnswerCall opens a window unless the peer has one ...  *)
OnAnswer == window' = TRUE

(* ... once HandleOffer has made a connection.  The earlier one stays.     *)
HandleOffer(c) ==
    /\ ~ stuck
    /\ Move(c, {"offered"}, "answered")
    /\ OnAnswer
    /\ UNCHANGED <<wired, wire, stuck, rx, sent, got, mixed>>

(* overlay.OnReject.                                                       *)
RejectCall(c) ==
    /\ Move(c, {"offered"}, "closed")
    /\ UNCHANGED <<wired, wire, window, stuck, rx, sent, got, mixed>>

(* The window closes by the user's hand or by call_end and call_reject;    *)
(* connections, channels and rxState stay as they are.                     *)
CloseCallWindow ==
    /\ window /\ window' = FALSE
    /\ UNCHANGED <<call, wired, wire, stuck, rx, sent, got, mixed>>

(* CreateOffer locks cm.Mu and calls setupDataChannel, which locks it      *)
(* again: StartCall gets no further.                                       *)
CreateOffer == ~ stuck /\ stuck' = TRUE

StartCall ==
    /\ ~ window /\ CreateOffer
    /\ UNCHANGED <<call, wired, wire, window, rx, sent, got, mixed>>

(***************************************************************************)
(* Data channels.                                                          *)
(***************************************************************************)
ChannelOpens(c) ==
    /\ Move(c, {"answered"}, "open")
    /\ UNCHANGED <<wired, wire, window, stuck, rx, sent, got, mixed>>

setupDataChannelEarly(c) ==  \* variant: at once, as CreateOffer does, not in OnOpen
    /\ ~ stuck /\ ~ wired[c]
    /\ wired' = [wired EXCEPT ![c] = TRUE]
    /\ UNCHANGED <<call, wire, window, stuck, rx, sent, got, mixed>>

(* dc.OnOpen: setupDataChannel.  The library reads the channel meanwhile.  *)
setupDataChannel(c) ==
    /\ ~ stuck /\ ~ wired[c] /\ (call[c] = "open" \/ wire[c] # <<>>)
    /\ wired' = [wired EXCEPT ![c] = TRUE]
    /\ UNCHANGED <<call, wire, window, stuck, rx, sent, got, mixed>>

(* The connection fails or the peer closes it: a suffix of what is on the  *)
(* way is lost.                                                            *)
ChannelCloses(c, n) ==
    /\ Move(c, {"answered", "open"}, "closed")
    /\ n <= Len(wire[c])
    /\ wire' = [wire EXCEPT ![c] = SubSeq(@, 1, n)]
    /\ UNCHANGED <<wired, window, stuck, rx, sent, got, mixed>>

(* SendFile, run by the peer: DataChannels has the channel of its latest   *)
(* offer, and Send refuses unless that is open.                            *)
SendFile(c, n) ==
    /\ sent < MaxFiles /\ sent' = sent + 1
    /\ call[c] = "open" /\ \A b \in Offers : b > c => call[b] = "none"
    /\ wire' = [wire EXCEPT ![c] = @
                  \o <<[kind |-> "HDR", name |-> sent + 1, size |-> n]>>
                  \o [i \in 1..n |-> [kind |-> "D", chunk |-> <<sent + 1, i>>]]
                  \o <<[kind |-> "END"]>>]
    /\ UNCHANGED <<call, wired, window, stuck, rx, got, mixed>>

BeginOnce(h) ==  \* variant: a header does not replace the file before it
    IF rx # NoRx THEN rx ELSE [name |-> h.name, size |-> h.size, data |-> <<>>]
Begin(h) == [name |-> h.name, size |-> h.size, data |-> <<>>]

(* OnMessage: HDR, D and END.                                              *)
OnMessage(m) ==
    \/ m.kind = "HDR" /\ rx' = Begin(m) /\ UNCHANGED got
    \/ /\ m.kind = "D"
       /\ rx' = IF rx = NoRx THEN rx ELSE [rx EXCEPT !.data = Append(@, m.chunk)]
       /\ UNCHANGED got
    \/ /\ m.kind = "END"
       /\ rx' = NoRx
       /\ got' = IF rx = NoRx THEN got ELSE Append(got, rx)

Receive(c) ==
    /\ ~ stuck /\ wire[c] # <<>>
    /\ wire' = [wire EXCEPT ![c] = Tail(@)]
    /\ IF wired[c] THEN OnMessage(Head(wire[c])) ELSE UNCHANGED <<rx, got>>
    /\ mixed' = (mixed \/ ~ wired[c] \/ \E b \in Offers \ {c} : wire[b] # <<>>)
    /\ UNCHANGED <<call, wired, window, stuck, sent>>

CallsNext ==
    \/ StartCall \/ CloseCallWindow
    \/ \E c \in Offers :
          \/ CallOffer(c) \/ HandleOffer(c) \/ RejectCall(c)
          \/ ChannelOpens(c) \/ setupDataChannel(c) \/ Receive(c)
          \/ \E n \in 0..MaxChunks : SendFile(c, n)
          \/ \E n \in 0..(MaxFiles * (MaxChunks + 2)) : ChannelCloses(c, n)

CallsSpec == CallsInit /\ [][CallsNext]_callsVars

(***************************************************************************)
(* Properties.                                                             *)
(***************************************************************************)
CallsTypeOK ==
    /\ call \in [Offers -> {"none", "offered", "answered", "open", "closed"}]
    /\ wired \in [Offers -> BOOLEAN]
    /\ \A c \in Offers : wired[c] => call[c] \in {"open", "closed"}
    /\ window \in BOOLEAN /\ stuck \in BOOLEAN /\ mixed \in BOOLEAN
    /\ rx.name \in 0..sent /\ sent \in 0..MaxFiles

(* Whatever connections fail in the middle of a file, each file handed to  *)
(* the user is one the peer sent, complete, in its own order and once;     *)
(* unless frames came before the channel was wired or on two channels at   *)
(* once, which the one rxState of a peer cannot tell apart.                *)
WholeFiles ==
    ~ mixed => /\ \A i \in DOMAIN got : got[i] = File(got[i].name, got[i].size)
               /\ \A i, j \in DOMAIN got : i < j => got[i].name < got[j].name
=============================================================================
