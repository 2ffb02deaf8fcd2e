--------------------------- MODULE ControlsProofs ---------------------------
(***************************************************************************)
(* Theorems about what the page shows when nothing is under way: the       *)
(* controls of a form agree with their tables (Page), a CRUD grid with the *)
(* database (GridCrud), and a looper with its query (Loopers).             *)
(***************************************************************************)
EXTENDS Page, GridCrud, Loopers, SequenceTheorems, TLAPS

\* A sequence of anything, and a function on the controls.
IsSeq(s) == s \in Seq(ToSet(s))
OnCtrl(f) == f = [c \in Ctrl |-> f[c]]

LEMMA SeqAppend ==
    ASSUME NEW s, IsSeq(s), NEW m
    PROVE  /\ IsSeq(Append(s, m)) /\ Len(s) \in Nat /\ DOMAIN s = 1..Len(s) /\ Len(Append(s, m)) = Len(s) + 1
           /\ DOMAIN Append(s, m) = 1..(Len(s) + 1)
           /\ \A i \in 1..Len(s) : Append(s, m)[i] = s[i]
           /\ Append(s, m)[Len(s) + 1] = m
<1>1. PICK S : S = ToSet(s) \cup {m}
  OBVIOUS
<1>2. s \in Seq(S) /\ m \in S
  <2>1. s \in Seq(ToSet(s)) /\ ToSet(s) \subseteq S
    BY <1>1 DEF IsSeq
  <2>. QED BY <1>1, <2>1
<1>3. PICK u : u = Append(s, m)
  OBVIOUS
<1>4. /\ u \in Seq(S) /\ Len(s) \in Nat /\ DOMAIN s = 1..Len(s) /\ Len(u) = Len(s) + 1
      /\ DOMAIN u = 1..(Len(s) + 1)
      /\ \A i \in 1..Len(s) : u[i] = s[i]
      /\ u[Len(s) + 1] = m
  BY <1>2, <1>3
<1>5. \A i \in 1..Len(u) : u[i] \in ToSet(u)
  BY <1>4 DEF ToSet
<1>6. u \in Seq(ToSet(u))
  BY <1>4, <1>5
<1>. QED BY <1>3, <1>4, <1>6 DEF IsSeq

LEMMA SeqTail ==
    ASSUME NEW s, IsSeq(s), s # <<>>
    PROVE  /\ IsSeq(Tail(s)) /\ Len(s) \in Nat \ {0} /\ DOMAIN s = 1..Len(s) /\ Head(s) = s[1]
           /\ DOMAIN Tail(s) = 1..(Len(s) - 1)
           /\ \A i \in 1..(Len(s) - 1) : Tail(s)[i] = s[i + 1]
<1>1. s \in Seq(ToSet(s))
  BY DEF IsSeq
<1>2. PICK u : u = Tail(s)
  OBVIOUS
<1>3. /\ u \in Seq(ToSet(s)) /\ Len(s) \in Nat \ {0} /\ DOMAIN s = 1..Len(s) /\ Len(u) = Len(s) - 1
      /\ DOMAIN u = 1..(Len(s) - 1)
      /\ \A i \in 1..(Len(s) - 1) : u[i] = s[i + 1]
  BY <1>1, <1>2
<1>4. \A i \in 1..Len(u) : u[i] \in ToSet(u)
  BY <1>3 DEF ToSet
<1>5. u \in Seq(ToSet(u))
  BY <1>3, <1>4
<1>. QED BY <1>1, <1>2, <1>3, <1>5 DEF IsSeq

-----------------------------------------------------------------------------
(* What the page will show and what the session will hold.                 *)

Displayed(c) == kind[c] \notin {"combo", "tabulator", "grid", "looper"}

\* The message decides what there is of the control's element: it sets it, or renders a form without it.
Decides(k, m, c) == m.type = "render_form" \/ (c \in m.sets /\ (m.type = "update_control" => k[c] # "tab"))
LastMessage(k, out, c, i) ==
    /\ i \in DOMAIN out /\ Decides(k, out[i], c)
    /\ \A j \in DOMAIN out : j > i => ~Decides(k, out[j], c)
About(in, c) == \E i \in DOMAIN in : c \in DOMAIN in[i]
LastEvent(in, c, i) == i \in DOMAIN in /\ c \in DOMAIN in[i] /\ \A j \in DOMAIN in : j > i => c \notin DOMAIN in[j]

\* When all messages of out are delivered to a page that shows sh, the element shows v or is not there.
WillShow(k, out, sh, c, v) ==
    /\ \A i \in DOMAIN out : LastMessage(k, out, c, i) /\ c \in out[i].sets => out[i].to[c] = v
    /\ (\A i \in DOMAIN out : ~Decides(k, out[i], c)) => sh[c] \in {Absent, v}

\* What a control that is not stale will show is what its table will hold.
Meet(k, out, sh, in, t, c) ==
    /\ ~About(in, c) => WillShow(k, out, sh, c, t[c])
    /\ \A i \in DOMAIN in : LastEvent(in, c, i) => WillShow(k, out, sh, c, in[i][c])
PageInv ==
    /\ OnCtrl(ctl) /\ OnCtrl(shown) /\ IsSeq(pIn) /\ IsSeq(pOut)
    /\ \A c \in Ctrl \ stale : Displayed(c) => Meet(kind, pOut, shown, pIn, ctl, c)

\* The HTML of these kinds carries the contents.
LEMMA RenderShows == ASSUME NEW c, Displayed(c), NEW v PROVE renderControl(c, v) = v
<1>1. kind[c] # "combo" /\ kind[c] # "tabulator" /\ kind[c] # "grid" /\ kind[c] # "looper"
  BY DEF Displayed
<1>. QED BY <1>1, Zenon DEF renderControl, renderTraditionalTable, renderTab, renderChart, renderImage, renderTopbar

-----------------------------------------------------------------------------
(* How the steps of the outbox and of the inbox change what will be shown. *)

\* A message that fits has the last word about what it decides.
LEMMA WillPost ==
    ASSUME NEW k, NEW out, IsSeq(out), NEW sh, NEW m, NEW c, NEW v,
           Decides(k, m, c) /\ c \in m.sets => m.to[c] = v, Decides(k, m, c) \/ WillShow(k, out, sh, c, v)
    PROVE  WillShow(k, Append(out, m), sh, c, v)
<1>1. PICK n, new : n = Len(out) /\ new = Append(out, m)
  OBVIOUS
<1>2. /\ n \in Nat /\ DOMAIN out = 1..n /\ DOMAIN new = 1..(n + 1)
      /\ (\A i \in 1..n : new[i] = out[i]) /\ new[n + 1] = m
  BY <1>1, SeqAppend
<1>3. ASSUME NEW i \in DOMAIN new, LastMessage(k, new, c, i), c \in new[i].sets PROVE new[i].to[c] = v
  <2>1. CASE Decides(k, m, c)
    <3>1. ~(n + 1 > i)
      <4>1. Decides(k, new[n + 1], c) /\ n + 1 \in DOMAIN new
        BY <1>2, <2>1
      <4>. QED BY <1>3, <4>1 DEF LastMessage
    <3>2. i = n + 1
      BY <1>2, <3>1
    <3>. QED BY <1>2, <1>3, <2>1, <3>2
  <2>2. CASE ~Decides(k, m, c)
    <3>1. Decides(k, new[i], c) /\ \A j \in DOMAIN new : j > i => ~Decides(k, new[j], c)
      BY <1>3 DEF LastMessage
    <3>2. i \in 1..n
      BY <1>2, <2>2, <3>1
    <3>3. LastMessage(k, out, c, i)
      BY <1>2, <3>1, <3>2 DEF LastMessage
    <3>. QED BY <1>2, <1>3, <2>2, <3>2, <3>3 DEF WillShow
  <2>. QED BY <2>1, <2>2
<1>4. ASSUME \A i \in DOMAIN new : ~Decides(k, new[i], c) PROVE sh[c] \in {Absent, v}
  <2>1. ~Decides(k, m, c) /\ \A i \in DOMAIN out : ~Decides(k, out[i], c)
    BY <1>2, <1>4
  <2>. QED BY <2>1 DEF WillShow
<1>5. WillShow(k, new, sh, c, v)
  BY <1>3, <1>4 DEF WillShow
<1>. QED BY <1>1, <1>5

\* Taking a message off the outbox makes the page show what it decides.
LEMMA WillDeliver ==
    ASSUME NEW k, NEW out, IsSeq(out), out # <<>>, NEW sh, NEW new, NEW c, NEW v, WillShow(k, out, sh, c, v),
           Decides(k, Head(out), c) => new[c] = Absent \/ (c \in Head(out).sets /\ new[c] = Head(out).to[c]),
           ~Decides(k, Head(out), c) => new[c] = sh[c]
    PROVE  WillShow(k, Tail(out), new, c, v)
<1>1. PICK n, m, rest : n = Len(out) /\ m = Head(out) /\ rest = Tail(out)
  OBVIOUS
<1>2. /\ n \in Nat \ {0} /\ DOMAIN out = 1..n /\ m = out[1] /\ DOMAIN rest = 1..(n - 1)
      /\ (\A i \in 1..(n - 1) : rest[i] = out[i + 1])
  BY <1>1, SeqTail
<1>3. ASSUME NEW j \in 1..n, j > 1 PROVE j - 1 \in DOMAIN rest /\ rest[j - 1] = out[j]
  <2>1. j - 1 \in 1..(n - 1) /\ (j - 1) + 1 = j
    BY <1>2, <1>3
  <2>. QED BY <1>2, <2>1
<1>4. ASSUME NEW i \in DOMAIN rest, LastMessage(k, rest, c, i), c \in rest[i].sets PROVE rest[i].to[c] = v
  <2>1. i + 1 \in 1..n /\ rest[i] = out[i + 1]
    BY <1>2
  <2>2. Decides(k, out[i + 1], c)
    BY <1>4, <2>1 DEF LastMessage
  <2>3. ASSUME NEW j \in 1..n, j > i + 1 PROVE ~Decides(k, out[j], c)
    <3>1. j > 1 /\ j - 1 > i
      BY <1>2, <2>3
    <3>2. j - 1 \in DOMAIN rest /\ rest[j - 1] = out[j]
      BY <1>3, <3>1
    <3>3. ~Decides(k, rest[j - 1], c)
      BY <1>4, <3>1, <3>2 DEF LastMessage
    <3>. QED BY <3>2, <3>3
  <2>4. LastMessage(k, out, c, i + 1)
    BY <1>2, <2>1, <2>2, <2>3 DEF LastMessage
  <2>. QED BY <1>2, <1>4, <2>1, <2>4 DEF WillShow
<1>5. ASSUME \A i \in DOMAIN rest : ~Decides(k, rest[i], c) PROVE new[c] \in {Absent, v}
  <2>1. \A j \in 1..n : j > 1 => ~Decides(k, out[j], c)
    BY <1>3, <1>5
  <2>2. CASE Decides(k, m, c)
    <3>1. LastMessage(k, out, c, 1)
      BY <1>2, <2>1, <2>2 DEF LastMessage
    <3>2. c \in m.sets => m.to[c] = v
      BY <1>2, <3>1 DEF WillShow
    <3>. QED BY <1>1, <2>2, <3>2
  <2>3. CASE ~Decides(k, m, c)
    <3>1. \A j \in DOMAIN out : ~Decides(k, out[j], c)
      BY <1>2, <2>1, <2>3
    <3>2. sh[c] \in {Absent, v}
      BY <3>1 DEF WillShow
    <3>. QED BY <1>1, <2>3, <3>2
  <2>. QED BY <2>2, <2>3
<1>6. WillShow(k, rest, new, c, v)
  BY <1>4, <1>5 DEF WillShow
<1>. QED BY <1>1, <1>6

\* A new event about the control is its last one.
LEMMA MeetEvent ==
    ASSUME NEW k, NEW out, NEW sh, NEW in, IsSeq(in), NEW t, NEW c, NEW ev, c \in DOMAIN ev,
           WillShow(k, out, sh, c, ev[c])
    PROVE  Meet(k, out, sh, Append(in, ev), t, c)
<1>1. PICK n, new : n = Len(in) /\ new = Append(in, ev)
  OBVIOUS
<1>2. /\ n \in Nat /\ DOMAIN in = 1..n /\ DOMAIN new = 1..(n + 1)
      /\ (\A i \in 1..n : new[i] = in[i]) /\ new[n + 1] = ev
  BY <1>1, SeqAppend
<1>3. About(new, c)
  <2>1. n + 1 \in DOMAIN new /\ c \in DOMAIN new[n + 1]
    BY <1>2
  <2>. QED BY <2>1 DEF About
<1>4. ASSUME NEW i \in DOMAIN new, LastEvent(new, c, i) PROVE WillShow(k, out, sh, c, new[i][c])
  <2>1. n + 1 \in DOMAIN new /\ c \in DOMAIN new[n + 1]
    BY <1>2
  <2>2. ~(n + 1 > i)
    BY <1>4, <2>1 DEF LastEvent
  <2>3. i = n + 1
    BY <1>2, <2>2
  <2>. QED BY <1>2, <2>3
<1>5. Meet(k, out, sh, new, t, c)
  BY <1>3, <1>4 DEF Meet
<1>. QED BY <1>1, <1>5

\* An event about other controls changes nothing.
LEMMA MeetOther ==
    ASSUME NEW k, NEW out, NEW sh, NEW in, IsSeq(in), NEW t, NEW c, NEW ev, c \notin DOMAIN ev,
           Meet(k, out, sh, in, t, c)
    PROVE  Meet(k, out, sh, Append(in, ev), t, c)
<1>1. PICK n, new : n = Len(in) /\ new = Append(in, ev)
  OBVIOUS
<1>2. /\ n \in Nat /\ DOMAIN in = 1..n /\ DOMAIN new = 1..(n + 1)
      /\ (\A i \in 1..n : new[i] = in[i]) /\ new[n + 1] = ev
  BY <1>1, SeqAppend
<1>3. ~About(new, c) => ~About(in, c)
  BY <1>2 DEF About
<1>4. ASSUME NEW i \in DOMAIN new, LastEvent(new, c, i)
      PROVE  i \in DOMAIN in /\ LastEvent(in, c, i) /\ new[i] = in[i]
  <2>1. i \in 1..n
    BY <1>2, <1>4 DEF LastEvent
  <2>. QED BY <1>2, <1>4, <2>1 DEF LastEvent
<1>5. Meet(k, out, sh, new, t, c)
  BY <1>3, <1>4 DEF Meet
<1>. QED BY <1>1, <1>5

\* Handling an event moves its value from the inbox to the table.
LEMMA MeetHandled ==
    ASSUME NEW k, NEW out, NEW sh, NEW in, IsSeq(in), in # <<>>, NEW t, NEW new, NEW c,
           new[c] = IF c \in DOMAIN Head(in) THEN Head(in)[c] ELSE t[c], Meet(k, out, sh, in, t, c)
    PROVE  Meet(k, out, sh, Tail(in), new, c)
<1>1. PICK n, ev, rest : n = Len(in) /\ ev = Head(in) /\ rest = Tail(in)
  OBVIOUS
<1>2. /\ n \in Nat \ {0} /\ DOMAIN in = 1..n /\ ev = in[1] /\ DOMAIN rest = 1..(n - 1)
      /\ (\A i \in 1..(n - 1) : rest[i] = in[i + 1])
  BY <1>1, SeqTail
<1>3. ASSUME NEW j \in 1..n, j > 1 PROVE j - 1 \in DOMAIN rest /\ rest[j - 1] = in[j]
  <2>1. j - 1 \in 1..(n - 1) /\ (j - 1) + 1 = j
    BY <1>2, <1>3
  <2>. QED BY <1>2, <2>1
<1>4. ASSUME ~About(rest, c) PROVE WillShow(k, out, sh, c, new[c])
  <2>1. \A j \in 1..n : j > 1 => c \notin DOMAIN in[j]
    BY <1>3, <1>4 DEF About
  <2>2. CASE c \in DOMAIN ev
    <3>1. LastEvent(in, c, 1) /\ 1 \in DOMAIN in
      BY <1>2, <2>1, <2>2 DEF LastEvent
    <3>2. WillShow(k, out, sh, c, in[1][c])
      BY <3>1 DEF Meet
    <3>. QED BY <1>1, <1>2, <2>2, <3>2
  <2>3. CASE c \notin DOMAIN ev
    <3>1. ~About(in, c)
      BY <1>2, <2>1, <2>3 DEF About
    <3>. QED BY <1>1, <2>3, <3>1 DEF Meet
  <2>. QED BY <2>2, <2>3
<1>5. ASSUME NEW i \in DOMAIN rest, LastEvent(rest, c, i) PROVE WillShow(k, out, sh, c, rest[i][c])
  <2>1. i + 1 \in 1..n /\ rest[i] = in[i + 1]
    BY <1>2
  <2>2. c \in DOMAIN in[i + 1]
    BY <1>5, <2>1 DEF LastEvent
  <2>3. ASSUME NEW j \in 1..n, j > i + 1 PROVE c \notin DOMAIN in[j]
    <3>1. j > 1 /\ j - 1 > i
      BY <1>2, <2>3
    <3>2. j - 1 \in DOMAIN rest /\ rest[j - 1] = in[j]
      BY <1>3, <3>1
    <3>3. c \notin DOMAIN rest[j - 1]
      BY <1>5, <3>1, <3>2 DEF LastEvent
    <3>. QED BY <3>2, <3>3
  <2>4. LastEvent(in, c, i + 1)
    BY <1>2, <2>1, <2>2, <2>3 DEF LastEvent
  <2>. QED BY <1>2, <2>1, <2>4 DEF Meet
<1>6. Meet(k, out, sh, rest, new, c)
  BY <1>4, <1>5 DEF Meet
<1>. QED BY <1>1, <1>6

-----------------------------------------------------------------------------
(* The steps keep PageInv.                                                 *)

LEMMA PageInitInv == PageInit => PageInv
<1>. SUFFICES ASSUME PageInit PROVE PageInv
  OBVIOUS
<1>1. OnCtrl(ctl) /\ OnCtrl(shown)
  BY DEF PageInit, OnCtrl
<1>2. IsSeq(pIn) /\ IsSeq(pOut)
  BY DEF PageInit, IsSeq
<1>3. ASSUME NEW c \in Ctrl PROVE Meet(kind, pOut, shown, pIn, ctl, c)
  <2>1. pIn = <<>> /\ pOut = <<>> /\ shown[c] = Absent
    BY DEF PageInit
  <2>2. DOMAIN pIn = {} /\ DOMAIN pOut = {}
    BY <2>1
  <2>. QED BY <2>1, <2>2 DEF Meet, WillShow
<1>. QED BY <1>1, <1>2, <1>3 DEF PageInv

\* An operation that sends m: of the controls m reaches, it carries what their tables hold now,
\* and it leaves the tables of the others alone.
LEMMA PostMessage ==
    ASSUME PageInv, NEW m, SendOutbox(m), UNCHANGED <<kind, shown, pIn>>, OnCtrl(ctl'),
           \A c \in Ctrl \ Reaches(m) : ctl'[c] = ctl[c], \A c \in Reaches(m) : Displayed(c) => m.to[c] = ctl'[c]
    PROVE  PageInv'
<1>1. IsSeq(pIn) /\ IsSeq(pOut) /\ OnCtrl(shown)
  BY DEF PageInv
<1>2. IsSeq(pIn') /\ OnCtrl(shown')
  BY <1>1
<1>3. IsSeq(pOut')
  <2>1. CASE pOut' = Append(pOut, m)
    BY <1>1, <2>1, SeqAppend
  <2>2. CASE pOut' = pOut
    BY <1>1, <2>2
  <2>. QED BY <2>1, <2>2 DEF SendOutbox
<1>4. ASSUME NEW c \in Ctrl \ stale', Displayed(c)' PROVE Meet(kind, pOut', shown, pIn, ctl', c)
  <2>1. Displayed(c)
    BY <1>4 DEF Displayed
  <2>2. CASE Len(pOut) < POutCap
    <3>1. pOut' = Append(pOut, m) /\ stale' = (stale \ Reaches(m)) \cup {d \in m.sets : EventsAbout(d)}
      BY <2>2 DEF SendOutbox
    <3>2. CASE c \in Reaches(m)
      <4>1. Decides(kind, m, c) /\ c \in m.sets /\ m.to[c] = ctl'[c]
        BY <2>1, <3>2 DEF Reaches, Decides
      <4>2. ~About(pIn, c)
        BY <1>4, <3>1, <4>1 DEF EventsAbout, About
      <4>3. WillShow(kind, Append(pOut, m), shown, c, ctl'[c])
        BY <1>1, <4>1, WillPost
      <4>4. \A i \in DOMAIN pIn : ~LastEvent(pIn, c, i)
        BY <4>2 DEF About, LastEvent
      <4>. QED BY <3>1, <4>3, <4>4 DEF Meet
    <3>3. CASE c \notin Reaches(m)
      <4>1. c \notin stale /\ ctl'[c] = ctl[c]
        BY <1>4, <3>1, <3>3
      <4>2. Meet(kind, pOut, shown, pIn, ctl, c)
        BY <2>1, <4>1 DEF PageInv
      <4>3. Decides(kind, m, c) => c \notin m.sets
        BY <3>3 DEF Reaches, Decides
      <4>4. ASSUME NEW v, WillShow(kind, pOut, shown, c, v) PROVE WillShow(kind, pOut', shown, c, v)
        BY <1>1, <3>1, <4>3, <4>4, WillPost
      <4>. QED BY <4>1, <4>2, <4>4 DEF Meet
    <3>. QED BY <3>2, <3>3
  <2>3. CASE ~(Len(pOut) < POutCap)
    <3>1. pOut' = pOut /\ stale' = stale \cup m.sets
      BY <2>3 DEF SendOutbox
    <3>2. c \notin stale /\ c \notin Reaches(m)
      BY <1>4, <3>1 DEF Reaches
    <3>3. ctl'[c] = ctl[c] /\ Meet(kind, pOut, shown, pIn, ctl, c)
      BY <2>1, <3>2 DEF PageInv
    <3>. QED BY <3>1, <3>3 DEF Meet
  <2>. QED BY <2>2, <2>3
<1>. QED BY <1>2, <1>3, <1>4 DEF PageInv

\* The message of a render carries every control of the form.
LEMMA RenderPosts ==
    ASSUME PageInv, NEW f, NEW m, m = Render(f, ctl), SendOutbox(m),
           UNCHANGED <<kind, shown, pIn, ctl>>
    PROVE  PageInv'
<1>1. PICK cs : m = [type |-> "render_form", sets |-> cs, to |-> [x \in cs |-> renderControl(x, ctl[x])]]
  BY DEF Render
<1>2. ASSUME NEW c \in Reaches(m), Displayed(c) PROVE m.to[c] = ctl'[c]
  <2>1. c \in cs
    BY <1>1, <1>2 DEF Reaches
  <2>2. m.to = [x \in cs |-> renderControl(x, ctl[x])]
    BY <1>1
  <2>3. m.to[c] = renderControl(c, ctl[c])
    BY <2>1, <2>2
  <2>4. renderControl(c, ctl[c]) = ctl[c]
    BY <1>2, RenderShows
  <2>. QED BY <2>3, <2>4
<1>3. OnCtrl(ctl')
  BY DEF PageInv
<1>. QED BY <1>2, <1>3, PostMessage

\* An operation on one control writes v to its table and sends it; an update does not reach a tab.
LEMMA ControlPosts ==
    ASSUME PageInv, NEW c \in Ctrl, NEW v, NEW w, Displayed(c) => w = v, NEW m,
           m = Update(c, w) \/ m = Data(c, w), SendOutbox(m), UNCHANGED <<kind, shown, pIn>>,
           \/ ctl' = [ctl EXCEPT ![c] = v] /\ (m = Update(c, w) => kind[c] # "tab")
           \/ UNCHANGED ctl /\ (Displayed(c) => v = ctl[c])
    PROVE  PageInv'
<1>1. m.sets = {c} /\ m.to = [x \in {c} |-> w] /\ (m = Update(c, w) \/ m.type = "data")
  BY DEF Update, Data
<1>2. OnCtrl(ctl)
  BY DEF PageInv
<1>3. ctl' = [ctl EXCEPT ![c] = v] => OnCtrl(ctl') /\ ctl'[c] = v /\ \A d \in Ctrl \ {c} : ctl'[d] = ctl[d]
  <2>1. PICK g : g = ctl'
    OBVIOUS
  <2>2. ASSUME g = [ctl EXCEPT ![c] = v]
        PROVE  g = [d \in Ctrl |-> g[d]] /\ g[c] = v /\ \A d \in Ctrl \ {c} : g[d] = ctl[d]
    BY <1>2, <2>2 DEF OnCtrl
  <2>. QED BY <2>1, <2>2 DEF OnCtrl
<1>4. OnCtrl(ctl')
  BY <1>2, <1>3
<1>5. ASSUME NEW d \in Ctrl \ Reaches(m) PROVE ctl'[d] = ctl[d]
  <2>1. d # c \/ (m = Update(c, w) /\ kind[c] = "tab")
    BY <1>1, <1>5 DEF Reaches
  <2>. QED BY <1>3, <2>1
<1>6. ASSUME NEW d \in Reaches(m), Displayed(d) PROVE m.to[d] = ctl'[d]
  <2>1. d = c /\ m.to[d] = w
    BY <1>1, <1>6 DEF Reaches
  <2>2. ctl'[c] = v
    BY <1>3, <1>6, <2>1
  <2>. QED BY <1>6, <2>1, <2>2
<1>. QED BY <1>4, <1>5, <1>6, PostMessage

\* An input of the user: the event carries what the element shows now.
LEMMA SendEvents ==
    ASSUME PageInv, NEW ev, Send(ev), OnCtrl(shown'), DOMAIN ev \subseteq Ctrl,
           \A c \in DOMAIN ev : ev[c] = shown'[c], \A c \in Ctrl \ DOMAIN ev : shown'[c] = shown[c]
    PROVE  PageInv'
<1>1. IsSeq(pIn) /\ IsSeq(pOut) /\ OnCtrl(ctl) /\ pIn' = Append(pIn, ev) /\ UNCHANGED <<kind, ctl, pOut>>
  BY DEF PageInv, Send
<1>2. IsSeq(pIn') /\ IsSeq(pOut') /\ OnCtrl(ctl')
  BY <1>1, SeqAppend
<1>3. ASSUME NEW c \in Ctrl \ stale', Displayed(c)' PROVE Meet(kind, pOut, shown', Append(pIn, ev), ctl, c)
  <2>1. CASE c \in DOMAIN ev
    <3>1. ~MessageAbout(c)
      BY <1>3, <2>1 DEF Send
    <3>2. \A i \in DOMAIN pOut : c \notin pOut[i].sets
      BY <3>1 DEF MessageAbout
    <3>3. WillShow(kind, pOut, shown', c, ev[c])
      BY <2>1, <3>2 DEF WillShow
    <3>. QED BY <1>1, <2>1, <3>3, MeetEvent
  <2>2. CASE c \notin DOMAIN ev
    <3>1. c \notin stale /\ Displayed(c) /\ shown'[c] = shown[c]
      BY <1>1, <1>3, <2>2 DEF Send, Displayed
    <3>2. Meet(kind, pOut, shown, pIn, ctl, c)
      BY <3>1 DEF PageInv
    <3>3. Meet(kind, pOut, shown', pIn, ctl, c)
      BY <3>1, <3>2 DEF Meet, WillShow
    <3>. QED BY <1>1, <2>2, <3>3, MeetOther
  <2>. QED BY <2>1, <2>2
<1>4. \A c \in Ctrl \ stale' : Displayed(c)' => Meet(kind', pOut', shown', pIn', ctl', c)
  BY <1>1, <1>3
<1>. QED BY <1>2, <1>4 DEF PageInv

LEMMA PageStep == PageInv /\ [PageNext]_pagevars => PageInv'
<1>. SUFFICES ASSUME PageInv, [PageNext]_pagevars PROVE PageInv'
  OBVIOUS
<1>0. IsSeq(pIn) /\ IsSeq(pOut) /\ OnCtrl(ctl) /\ OnCtrl(shown)
  BY DEF PageInv
<1>1. ASSUME NEW c \in Ctrl, addControl(c) PROVE PageInv'
  <2>1. /\ ctl' = [ctl EXCEPT ![c] = Blank] /\ stale' = stale \cup {c}
        /\ UNCHANGED <<kind, shown, pIn, pOut>>
    BY <1>1 DEF addControl, Lua
  <2>2. OnCtrl(ctl')
    BY <1>0, <2>1 DEF OnCtrl
  <2>3. ASSUME NEW d \in Ctrl \ stale', Displayed(d) PROVE Meet(kind, pOut, shown, pIn, ctl', d)
    <3>1. d # c /\ d \notin stale
      BY <2>1, <2>3
    <3>2. ctl'[d] = ctl[d]
      BY <1>0, <2>1, <3>1 DEF OnCtrl
    <3>3. Meet(kind, pOut, shown, pIn, ctl, d)
      BY <2>3, <3>1 DEF PageInv
    <3>. QED BY <3>2, <3>3 DEF Meet
  <2>4. \A d \in Ctrl \ stale' : Displayed(d)' => Meet(kind', pOut', shown', pIn', ctl', d)
    BY <2>1, <2>3 DEF Displayed
  <2>. QED BY <1>0, <2>1, <2>2, <2>4 DEF PageInv
<1>2. ASSUME NEW c \in Ctrl, ctrlRefresh(c) PROVE PageInv'
  <2>1. Displayed(c) => renderControl(c, ctl[c]) = ctl[c]
    BY RenderShows
  <2>2. SendOutbox(Update(c, renderControl(c, ctl[c]))) /\ UNCHANGED <<kind, shown, pIn, ctl>>
    BY <1>2 DEF ctrlRefresh, Lua
  <2>. QED BY <2>1, <2>2, ControlPosts
<1>3. ASSUME NEW c \in Ctrl, executeEvent(c) PROVE PageInv'
  <2>1. PICK ev : ev = [x \in {c} |-> ctl[c]]
    OBVIOUS
  <2>2. /\ pIn' = Append(pIn, ev) /\ stale' = (IF EventsAbout(c) THEN stale \cup {c} ELSE stale)
        /\ UNCHANGED <<kind, shown, ctl, pOut>>
    BY <1>3, <2>1 DEF executeEvent, Lua
  <2>3. IsSeq(pIn') /\ IsSeq(pOut') /\ OnCtrl(ctl') /\ OnCtrl(shown')
    BY <1>0, <2>2, SeqAppend
  <2>4. ASSUME NEW d \in Ctrl \ stale', Displayed(d) PROVE Meet(kind, pOut, shown, Append(pIn, ev), ctl, d)
    <3>1. Meet(kind, pOut, shown, pIn, ctl, d)
      BY <2>2, <2>4 DEF PageInv
    <3>2. CASE d = c
      <4>1. ~About(pIn, c)
        BY <2>2, <2>4, <3>2 DEF EventsAbout, About
      <4>2. c \in DOMAIN ev /\ ev[c] = ctl[c]
        BY <2>1
      <4>3. WillShow(kind, pOut, shown, c, ev[c])
        BY <3>1, <3>2, <4>1, <4>2 DEF Meet
      <4>. QED BY <1>0, <3>2, <4>2, <4>3, MeetEvent
    <3>3. CASE d # c
      <4>1. d \notin DOMAIN ev
        BY <2>1, <3>3
      <4>. QED BY <1>0, <3>1, <4>1, MeetOther
    <3>. QED BY <3>2, <3>3
  <2>5. \A d \in Ctrl \ stale' : Displayed(d)' => Meet(kind', pOut', shown', pIn', ctl', d)
    BY <2>2, <2>4 DEF Displayed
  <2>. QED BY <2>3, <2>5 DEF PageInv
<1>4. ASSUME NEW c \in Ctrl, NEW v \in Val, setValue(c, v) PROVE PageInv'
  <2>1. Displayed(c) => renderControl(c, v) = v
    BY RenderShows
  <2>2. /\ SendOutbox(Update(c, renderControl(c, v))) /\ ctl' = [ctl EXCEPT ![c] = v]
        /\ UNCHANGED <<kind, shown, pIn>> /\ kind[c] # "tab"
    BY <1>4 DEF setValue, Lua
  <2>. QED BY <2>1, <2>2, ControlPosts
<1>5. ASSUME NEW c \in Ctrl, NEW v \in Val, setProperty(c, v) PROVE PageInv'
  <2>1. Displayed(c) => renderControl(c, v) = v
    BY RenderShows
  <2>2. /\ SendOutbox(Update(c, renderControl(c, v))) /\ ctl' = [ctl EXCEPT ![c] = v]
        /\ UNCHANGED <<kind, shown, pIn>> /\ kind[c] # "tab"
    BY <1>5 DEF setProperty, Lua
  <2>. QED BY <2>1, <2>2, ControlPosts
<1>6. ASSUME NEW c \in Ctrl, NEW v \in Val, tableLine(c, v) PROVE PageInv'
  <2>1. /\ SendOutbox(Update(c, v)) /\ ctl' = [ctl EXCEPT ![c] = v]
        /\ UNCHANGED <<kind, shown, pIn>> /\ kind[c] # "tab"
    BY <1>6 DEF tableLine, Lua
  <2>. QED BY <2>1, ControlPosts
<1>7. ASSUME NEW c \in Ctrl, NEW v \in Val, tableSetData(c, v) PROVE PageInv'
  <2>1. CASE kind[c] = "table" /\ ctl' = [ctl EXCEPT ![c] = v] /\ SendOutbox(Update(c, v))
    <3>1. UNCHANGED <<kind, shown, pIn>> /\ kind[c] # "tab"
      BY <1>7, <2>1 DEF tableSetData, Lua
    <3>. QED BY <2>1, <3>1, ControlPosts
  <2>2. CASE kind[c] = "tabulator" /\ UNCHANGED ctl /\ SendOutbox(Data(c, v))
    <3>1. UNCHANGED <<kind, shown, pIn>> /\ ~Displayed(c)
      BY <1>7, <2>2 DEF tableSetData, Lua, Displayed
    <3>. QED BY <2>2, <3>1, ControlPosts
  <2>. QED BY <1>7, <2>1, <2>2 DEF tableSetData
<1>8. ASSUME NEW c \in Ctrl, NEW v \in Val, tabUpdate(c, v) \/ chartUpdate(c, v) PROVE PageInv'
  <2>1. SendOutbox(Data(c, v)) /\ ctl' = [ctl EXCEPT ![c] = v] /\ UNCHANGED <<kind, shown, pIn>>
    BY <1>8 DEF tabUpdate, chartUpdate, Lua
  <2>2. Data(c, v) # Update(c, v)
    <3>1. Data(c, v).type = "data" /\ Update(c, v).type = "update_control"
      BY DEF Data, Update
    <3>. QED BY <3>1
  <2>. QED BY <2>1, <2>2, ControlPosts
<1>9. ASSUME NEW c \in Ctrl, NEW v \in Val, edit(c, v) PROVE PageInv'
  <2>1. PICK ev : ev = [x \in {c} |-> v]
    OBVIOUS
  <2>2. Send(ev) /\ shown' = [shown EXCEPT ![c] = v]
    BY <1>9, <2>1 DEF edit
  <2>3. OnCtrl(shown') /\ shown'[c] = v /\ \A d \in Ctrl \ {c} : shown'[d] = shown[d]
    BY <1>0, <2>2 DEF OnCtrl
  <2>4. DOMAIN ev = {c} /\ ev[c] = v
    BY <2>1
  <2>. QED BY <2>2, <2>3, <2>4, SendEvents
<1>10. ASSUME NEW f \in Form, click(f) PROVE PageInv'
  <2>1. PICK cs : /\ cs = {c \in FormControls[f] : shown[c] # Absent /\ kind[c] \in {"text", "combo"}}
                  /\ Send([c \in cs |-> shown[c]]) /\ UNCHANGED shown
    BY <1>10 DEF click
  <2>2. PICK ev : ev = [c \in cs |-> shown[c]]
    OBVIOUS
  <2>3. cs \subseteq Ctrl
    BY <2>1 DEF FormControls
  <2>4. DOMAIN ev = cs /\ \A c \in cs : ev[c] = shown[c]
    BY <2>2
  <2>. QED BY <1>0, <2>1, <2>2, <2>3, <2>4, SendEvents
<1>11. ASSUME NEW c \in Ctrl, NEW d, setCell(c, d) PROVE PageInv'
  <2>1. SendOutbox(Render(Owner[c], ctl)) /\ UNCHANGED <<kind, shown, pIn, ctl>>
    BY <1>11 DEF setCell, Lua
  <2>. QED BY <2>1, RenderPosts
<1>12. ASSUME NEW f \in Form, formShow(f) \/ formRefresh(f) PROVE PageInv'
  <2>1. SendOutbox(Render(f, ctl)) /\ UNCHANGED <<kind, shown, pIn, ctl>>
    BY <1>12 DEF formShow, formRefresh, Lua
  <2>. QED BY <2>1, RenderPosts
<1>13. ASSUME handleEvent PROVE PageInv'
  <2>1. /\ pIn # <<>> /\ pIn' = Tail(pIn) /\ UNCHANGED <<kind, shown, pOut, stale>>
        /\ ctl' = [c \in Ctrl |-> IF c \in DOMAIN Head(pIn) THEN Head(pIn)[c] ELSE ctl[c]]
    BY <1>13 DEF handleEvent
  <2>2. IsSeq(pIn') /\ IsSeq(pOut') /\ OnCtrl(shown')
    BY <1>0, <2>1, SeqTail
  <2>3. OnCtrl(ctl')
    BY <2>1 DEF OnCtrl
  <2>4. ASSUME NEW c \in Ctrl \ stale, Displayed(c) PROVE Meet(kind, pOut, shown, Tail(pIn), ctl', c)
    <3>1. Meet(kind, pOut, shown, pIn, ctl, c)
      BY <2>4 DEF PageInv
    <3>2. ctl'[c] = IF c \in DOMAIN Head(pIn) THEN Head(pIn)[c] ELSE ctl[c]
      BY <2>1
    <3>. QED BY <1>0, <2>1, <3>1, <3>2, MeetHandled
  <2>5. \A c \in Ctrl \ stale' : Displayed(c)' => Meet(kind', pOut', shown', pIn', ctl', c)
    BY <2>1, <2>4 DEF Displayed
  <2>. QED BY <2>2, <2>3, <2>5 DEF PageInv
<1>14. ASSUME deliver PROVE PageInv'
  <2>1. PICK m : m = Head(pOut)
    OBVIOUS
  <2>2. /\ pOut # <<>> /\ pOut' = Tail(pOut) /\ UNCHANGED <<kind, ctl, pIn, stale>>
        /\ m.type = "render_form" => shown' = [c \in Ctrl |-> IF c \in m.sets THEN m.to[c] ELSE Absent]
        /\ m.type # "render_form" =>
              shown' = [c \in Ctrl |-> IF c \in Reaches(m) /\ shown[c] # Absent THEN m.to[c] ELSE shown[c]]
    BY <1>14, <2>1 DEF deliver
  <2>3. IsSeq(pIn') /\ IsSeq(pOut') /\ OnCtrl(ctl')
    BY <1>0, <2>2, SeqTail
  <2>4. OnCtrl(shown')
    BY <2>2 DEF OnCtrl
  <2>5. ASSUME NEW c \in Ctrl
        PROVE  /\ Decides(kind, m, c) => shown'[c] = Absent \/ (c \in m.sets /\ shown'[c] = m.to[c])
               /\ ~Decides(kind, m, c) => shown'[c] = shown[c]
    BY <2>2 DEF Decides, Reaches
  <2>6. ASSUME NEW c \in Ctrl \ stale, Displayed(c) PROVE Meet(kind, Tail(pOut), shown', pIn, ctl, c)
    <3>1. Meet(kind, pOut, shown, pIn, ctl, c)
      BY <2>6 DEF PageInv
    <3>2. ASSUME NEW v, WillShow(kind, pOut, shown, c, v) PROVE WillShow(kind, Tail(pOut), shown', c, v)
      BY <1>0, <2>1, <2>2, <2>5, <3>2, WillDeliver
    <3>. QED BY <3>1, <3>2 DEF Meet
  <2>7. \A c \in Ctrl \ stale' : Displayed(c)' => Meet(kind', pOut', shown', pIn', ctl', c)
    BY <2>2, <2>6 DEF Displayed
  <2>. QED BY <2>3, <2>4, <2>7 DEF PageInv
<1>15. ASSUME UNCHANGED pagevars PROVE PageInv'
  <2>1. UNCHANGED <<kind, ctl, shown, pIn, pOut, stale>>
    BY <1>15 DEF pagevars
  <2>. QED BY <2>1 DEF PageInv, Displayed
<1>. QED BY <1>1, <1>2, <1>3, <1>4, <1>5, <1>6, <1>7, <1>8, <1>9, <1>10, <1>11, <1>12, <1>13, <1>14, <1>15
         DEF PageNext

\* PageCurrent for every set of controls, forms and contents, every layout, every capacity of the outbox
\* and any number of operations: once the outbox and the inbox are empty, a displayed element shows what
\* its table holds unless its last update was dropped or crossed an event.
THEOREM PageCorrect == PageSpec => []PageCurrent
<1>1. PageInv => PageCurrent
  <2>. SUFFICES ASSUME PageInv, pIn = <<>>, pOut = <<>>, NEW c \in Ctrl \ stale, shown[c] # Absent,
                       kind[c] \notin {"combo", "tabulator", "grid", "looper"}
                PROVE  shown[c] = ctl[c]
    BY DEF PageCurrent
  <2>1. Meet(kind, pOut, shown, pIn, ctl, c)
    BY DEF PageInv, Displayed
  <2>2. DOMAIN pIn = {} /\ DOMAIN pOut = {}
    OBVIOUS
  <2>3. ~About(pIn, c)
    BY <2>2 DEF About
  <2>. QED BY <2>1, <2>2, <2>3 DEF Meet, WillShow
<1>. QED BY <1>1, PageInitInv, PageStep, PTL DEF PageSpec

-----------------------------------------------------------------------------
(* The CRUD grid.                                                          *)

Rows(t, p) == FetchTablePage(t, p, <<>>).data
Some(s, type) == \E i \in DOMAIN s : s[i].type = type
LastData(out, i) == i \in DOMAIN out /\ out[i].type = "data" /\ \A j \in DOMAIN out : j > i => out[j].type # "data"

\* The grid will ask again, or the last answer under way has the rows the table has, or the grid shows them.
Fresh(t, v, in, out) ==
    \/ Some(out, "refresh") \/ Some(in, "page")
    \/ \E i \in DOMAIN out : LastData(out, i) /\ out[i].data = Rows(t, out[i].page)
    \/ ~Some(out, "data") /\ v.data = Rows(t, v.page)
GridInv ==
    /\ IsSeq(gIn) /\ IsSeq(gOut) /\ Len(gOut) <= GOutCap
    /\ ~gStale => Fresh(rows, view, gIn, gOut)

\* A request that is no page, handled.
LEMMA SomeTail ==
    ASSUME NEW s, IsSeq(s), s # <<>>, NEW type, Head(s).type # type, Some(s, type)
    PROVE  Some(Tail(s), type)
<1>1. PICK n, rest : n = Len(s) /\ rest = Tail(s)
  OBVIOUS
<1>2. /\ n \in Nat \ {0} /\ DOMAIN s = 1..n /\ Head(s) = s[1] /\ DOMAIN rest = 1..(n - 1)
      /\ (\A i \in 1..(n - 1) : rest[i] = s[i + 1])
  BY <1>1, SeqTail
<1>3. PICK i \in 1..n : s[i].type = type
  BY <1>2 DEF Some
<1>4. i - 1 \in 1..(n - 1) /\ (i - 1) + 1 = i
  <2>1. i # 1
    BY <1>2, <1>3
  <2>. QED BY <1>2, <2>1
<1>5. rest[i - 1].type = type /\ i - 1 \in DOMAIN rest
  BY <1>2, <1>3, <1>4
<1>6. Some(rest, type)
  BY <1>5 DEF Some
<1>. QED BY <1>1, <1>6

LEMMA SomeAppend ==
    ASSUME NEW s, IsSeq(s), NEW m, NEW type, Some(s, type) \/ m.type = type
    PROVE  Some(Append(s, m), type)
<1>1. PICK n, new : n = Len(s) /\ new = Append(s, m)
  OBVIOUS
<1>2. /\ n \in Nat /\ DOMAIN s = 1..n /\ DOMAIN new = 1..(n + 1)
      /\ (\A i \in 1..n : new[i] = s[i]) /\ new[n + 1] = m
  BY <1>1, SeqAppend
<1>3. CASE Some(s, type)
  <2>1. PICK i \in 1..n : s[i].type = type
    BY <1>2, <1>3 DEF Some
  <2>2. i \in DOMAIN new /\ new[i].type = type
    BY <1>2, <2>1
  <2>. QED BY <1>1, <2>2 DEF Some
<1>4. CASE m.type = type
  <2>1. n + 1 \in DOMAIN new /\ new[n + 1].type = type
    BY <1>2, <1>4
  <2>. QED BY <1>1, <2>1 DEF Some
<1>. QED BY <1>3, <1>4

\* SendAll keeps what is there and adds as much as fits; a refresh that does not fit makes the grid stale.
LEMMA SendAllFits ==
    ASSUME IsSeq(gOut), Len(gOut) <= GOutCap, NEW ms, IsSeq(ms), SendAll(ms)
    PROVE  /\ IsSeq(gOut') /\ Len(gOut') <= GOutCap
           /\ \E l, n \in Nat : /\ DOMAIN gOut = 1..l /\ DOMAIN gOut' = 1..(l + n) /\ n <= Len(ms)
                                /\ \A i \in 1..l : gOut'[i] = gOut[i]
                                /\ \A i \in 1..n : gOut'[l + i] = ms[i]
                                /\ gStale' = (gStale \/ \E i \in (n + 1)..Len(ms) : ms[i].type = "refresh")
<1>1. PICK n : n = IF Fits(Len(ms)) THEN Len(ms) ELSE GOutCap - Len(gOut)
  OBVIOUS
<1>2. /\ gOut' = gOut \o SubSeq(ms, 1, n)
      /\ gStale' = (gStale \/ \E i \in (n + 1)..Len(ms) : ms[i].type = "refresh")
  BY <1>1 DEF SendAll
<1>3. PICK S : S = ToSet(gOut) \cup ToSet(ms)
  OBVIOUS
<1>4. gOut \in Seq(S) /\ ms \in Seq(S)
  <2>1. gOut \in Seq(ToSet(gOut)) /\ ms \in Seq(ToSet(ms)) /\ ToSet(gOut) \subseteq S /\ ToSet(ms) \subseteq S
    BY <1>3 DEF IsSeq
  <2>. QED BY <2>1
<1>5. Len(gOut) \in Nat /\ Len(ms) \in Nat /\ DOMAIN gOut = 1..Len(gOut)
  BY <1>4
<1>6. n \in 0..Len(ms) /\ Len(gOut) + n <= GOutCap
  BY <1>1, <1>5, GridAssumption DEF Fits
<1>7. PICK u : u = SubSeq(ms, 1, n)
  OBVIOUS
<1>8. u \in Seq(S) /\ Len(u) = n /\ \A i \in 1..n : u[i] = ms[i]
  <2>1. \A i \in 1..n : ms[i] \in S
    BY <1>4, <1>5, <1>6
  <2>2. u = [i \in 1..n |-> ms[i]]
    BY <1>4, <1>5, <1>6, <1>7
  <2>. QED BY <1>5, <1>6, <2>1, <2>2
<1>9. PICK w : w = gOut'
  OBVIOUS
<1>10. /\ w \in Seq(S) /\ Len(w) = Len(gOut) + n
       /\ \A i \in 1..Len(gOut) : w[i] = gOut[i]
       /\ \A i \in 1..n : w[Len(gOut) + i] = u[i]
  BY <1>2, <1>4, <1>5, <1>6, <1>7, <1>8, <1>9
<1>11. \A i \in 1..Len(w) : w[i] \in ToSet(w)
  BY <1>10 DEF ToSet
<1>12. w \in Seq(ToSet(w))
  BY <1>10, <1>11
<1>13. DOMAIN w = 1..(Len(gOut) + n)
  BY <1>10
<1>14. IsSeq(gOut') /\ Len(gOut') <= GOutCap
  BY <1>6, <1>9, <1>10, <1>12 DEF IsSeq
<1>15. \A i \in 1..n : gOut'[Len(gOut) + i] = ms[i]
  BY <1>8, <1>9, <1>10
<1>16. PICK l : l = Len(gOut)
  OBVIOUS
<1>17. /\ l \in Nat /\ n \in Nat /\ DOMAIN gOut = 1..l /\ DOMAIN gOut' = 1..(l + n) /\ n <= Len(ms)
       /\ \A i \in 1..l : gOut'[i] = gOut[i]
       /\ \A i \in 1..n : gOut'[l + i] = ms[i]
  BY <1>5, <1>6, <1>9, <1>10, <1>13, <1>15, <1>16
<1>. QED BY <1>2, <1>14, <1>17, Zenon

\* Messages that are no rows leave the grid as fresh as it was.
LEMMA GridQuiet ==
    ASSUME GridInv, NEW ms, IsSeq(ms), SendAll(ms), \A i \in DOMAIN ms : ms[i].type # "data",
           UNCHANGED <<rows, view>>, IsSeq(gIn'), Some(gIn, "page") => Some(gIn', "page")
    PROVE  GridInv'
<1>1. IsSeq(gOut) /\ Len(gOut) <= GOutCap
  BY DEF GridInv
<1>2. IsSeq(gOut') /\ Len(gOut') <= GOutCap
  BY <1>1, SendAllFits
<1>3. PICK l, n \in Nat : /\ DOMAIN gOut = 1..l /\ DOMAIN gOut' = 1..(l + n) /\ n <= Len(ms)
                          /\ \A i \in 1..l : gOut'[i] = gOut[i]
                          /\ \A i \in 1..n : gOut'[l + i] = ms[i]
                          /\ gStale' = (gStale \/ \E i \in (n + 1)..Len(ms) : ms[i].type = "refresh")
  BY <1>1, SendAllFits
<1>4. ASSUME NEW j \in DOMAIN gOut', j > l PROVE gOut'[j].type # "data"
  <2>1. ms \in Seq(ToSet(ms))
    BY DEF IsSeq
  <2>2. j - l \in 1..n /\ l + (j - l) = j
    BY <1>3, <1>4
  <2>3. j - l \in DOMAIN ms
    BY <1>3, <2>1, <2>2
  <2>. QED BY <1>3, <2>2, <2>3
<1>5. ASSUME ~gStale' PROVE Fresh(rows, view, gIn', gOut')
  <2>1. Fresh(rows, view, gIn, gOut)
    BY <1>3, <1>5 DEF GridInv
  <2>2. CASE Some(gOut, "refresh")
    <3>1. PICK i \in 1..l : gOut[i].type = "refresh"
      BY <1>3, <2>2 DEF Some
    <3>2. i \in DOMAIN gOut' /\ gOut'[i].type = "refresh"
      BY <1>3, <3>1
    <3>. QED BY <3>2 DEF Some, Fresh
  <2>3. CASE Some(gIn, "page")
    BY <2>3 DEF Fresh
  <2>4. CASE \E i \in DOMAIN gOut : LastData(gOut, i) /\ gOut[i].data = Rows(rows, gOut[i].page)
    <3>1. PICK i \in 1..l : LastData(gOut, i) /\ gOut[i].data = Rows(rows, gOut[i].page)
      BY <1>3, <2>4
    <3>2. i \in DOMAIN gOut' /\ gOut'[i] = gOut[i] /\ gOut[i].type = "data"
      BY <1>3, <3>1 DEF LastData
    <3>3. ASSUME NEW j \in DOMAIN gOut', j > i PROVE gOut'[j].type # "data"
      <4>1. CASE j > l
        BY <1>4, <4>1
      <4>2. CASE ~(j > l)
        BY <1>3, <3>1, <3>3, <4>2 DEF LastData
      <4>. QED BY <4>1, <4>2
    <3>4. LastData(gOut', i) /\ gOut'[i].data = Rows(rows, gOut'[i].page)
      BY <3>1, <3>2, <3>3 DEF LastData
    <3>. QED BY <3>2, <3>4 DEF Fresh
  <2>5. CASE ~Some(gOut, "data") /\ view.data = Rows(rows, view.page)
    <3>1. ASSUME NEW j \in DOMAIN gOut' PROVE gOut'[j].type # "data"
      <4>1. CASE j > l
        BY <1>4, <4>1
      <4>2. CASE ~(j > l)
        BY <1>3, <2>5, <4>2 DEF Some
      <4>. QED BY <4>1, <4>2
    <3>. QED BY <2>5, <3>1 DEF Some, Fresh
  <2>. QED BY <2>1, <2>2, <2>3, <2>4, <2>5 DEF Fresh
<1>6. ~gStale' => Fresh(rows', view', gIn', gOut')
  BY <1>5
<1>. QED BY <1>2, <1>6 DEF GridInv

\* After a write the page is told to ask again; when that does not fit, the grid is stale.
LEMMA GridLoud ==
    ASSUME GridInv, NEW ms, IsSeq(ms), SendAll(ms), Some(ms, "refresh"), IsSeq(gIn')
    PROVE  GridInv'
<1>1. IsSeq(gOut) /\ Len(gOut) <= GOutCap
  BY DEF GridInv
<1>2. IsSeq(gOut') /\ Len(gOut') <= GOutCap
  BY <1>1, SendAllFits
<1>3. PICK l, n \in Nat : /\ DOMAIN gOut = 1..l /\ DOMAIN gOut' = 1..(l + n) /\ n <= Len(ms)
                          /\ \A i \in 1..l : gOut'[i] = gOut[i]
                          /\ \A i \in 1..n : gOut'[l + i] = ms[i]
                          /\ gStale' = (gStale \/ \E i \in (n + 1)..Len(ms) : ms[i].type = "refresh")
  BY <1>1, SendAllFits
<1>4. ASSUME ~gStale' PROVE Some(gOut', "refresh")
  <2>1. ms \in Seq(ToSet(ms))
    BY DEF IsSeq
  <2>2. PICK i \in 1..Len(ms) : ms[i].type = "refresh"
    BY <2>1 DEF Some
  <2>3. i \notin (n + 1)..Len(ms)
    BY <1>3, <1>4, <2>2
  <2>4. i \in 1..n /\ l + i \in 1..(l + n)
    BY <2>1, <2>2, <2>3, <1>3
  <2>5. l + i \in DOMAIN gOut' /\ gOut'[l + i].type = "refresh"
    BY <1>3, <2>2, <2>4
  <2>. QED BY <2>5 DEF Some
<1>. QED BY <1>2, <1>4 DEF GridInv, Fresh

\* The messages a handler sends: one or two.
LEMMA ShortSeq == ASSUME NEW a PROVE IsSeq(<<a>>) /\ DOMAIN <<a>> = {1} /\ <<a>>[1] = a
<1>1. <<a>> \in Seq({a})
  OBVIOUS
<1>2. ToSet(<<a>>) = {a}
  BY DEF ToSet
<1>3. IsSeq(<<a>>)
  BY <1>1, <1>2, Zenon DEF IsSeq
<1>4. DOMAIN <<a>> = {1} /\ <<a>>[1] = a
  OBVIOUS
<1>. QED BY <1>3, <1>4, Zenon

LEMMA PairSeq == ASSUME NEW a, NEW b PROVE IsSeq(<<a, b>>) /\ DOMAIN <<a, b>> = {1, 2} /\ <<a, b>>[2] = b
<1>1. <<a, b>> \in Seq({a, b})
  OBVIOUS
<1>2. ToSet(<<a, b>>) = {a, b}
  BY DEF ToSet
<1>3. IsSeq(<<a, b>>)
  BY <1>1, <1>2, Zenon DEF IsSeq
<1>4. DOMAIN <<a, b>> = {1, 2} /\ <<a, b>>[2] = b
  OBVIOUS
<1>. QED BY <1>3, <1>4, Zenon

\* ... and those behind what a grid event sent.
LEMMA EventSeq ==
    ASSUME NEW no, NEW m, NEW ms, ms = Append(fireGridEvent(no), m)
    PROVE  IsSeq(ms) /\ (\A i \in DOMAIN ms : ms[i] \in {Error, m}) /\ Some(ms, m.type)
<1>1. PICK e : e = fireGridEvent(no)
  OBVIOUS
<1>2. e = <<>> \/ e = <<Error>>
  BY <1>1, Zenon DEF fireGridEvent
<1>3. IsSeq(e) /\ \A i \in DOMAIN e : e[i] = Error
  <2>1. CASE e = <<>>
    BY <2>1 DEF IsSeq
  <2>2. CASE e = <<Error>>
    BY <2>2, ShortSeq
  <2>. QED BY <1>2, <2>1, <2>2
<1>4. ms = Append(e, m)
  BY <1>1
<1>5. IsSeq(ms) /\ Some(ms, m.type)
  BY <1>3, <1>4, SeqAppend, SomeAppend
<1>6. \A i \in DOMAIN ms : ms[i] \in {Error, m}
  <2>1. PICK n : n = Len(e)
    OBVIOUS
  <2>2. n \in Nat /\ DOMAIN e = 1..n /\ DOMAIN ms = 1..(n + 1) /\ (\A i \in 1..n : ms[i] = e[i]) /\ ms[n + 1] = m
    BY <1>3, <1>4, <2>1, SeqAppend
  <2>. QED BY <1>3, <2>2
<1>. QED BY <1>5, <1>6

LEMMA GridInitInv == GridInit => GridInv
<1>. SUFFICES ASSUME GridInit PROVE GridInv
  OBVIOUS
<1>1. gIn = <<[type |-> "page", page |-> 1]>> /\ gOut = <<>>
  BY DEF GridInit
<1>2. IsSeq(gIn) /\ IsSeq(gOut)
  <2>1. IsSeq(gIn)
    BY <1>1, ShortSeq, Zenon
  <2>2. <<>> \in Seq(ToSet(<<>>))
    OBVIOUS
  <2>. QED BY <1>1, <2>1, <2>2, Zenon DEF IsSeq
<1>3. Len(gOut) <= GOutCap
  BY <1>1, GridAssumption
<1>4. Some(gIn, "page")
  BY <1>1 DEF Some
<1>. QED BY <1>2, <1>3, <1>4 DEF GridInv, Fresh

\* A handler takes a request that is no page off the inbox.
LEMMA AnswersTail ==
    ASSUME GridInv, Answers
    PROVE  IsSeq(gIn') /\ UNCHANGED view /\ (Head(gIn).type # "page" /\ Some(gIn, "page") => Some(gIn', "page"))
<1>1. IsSeq(gIn) /\ gIn # <<>> /\ gIn' = Tail(gIn) /\ UNCHANGED view
  BY DEF GridInv, Answers
<1>. QED BY <1>1, SeqTail, SomeTail

LEMMA GridStep == GridInv /\ [GridNext]_gridvars => GridInv'
<1>. SUFFICES ASSUME GridInv, [GridNext]_gridvars PROVE GridInv'
  OBVIOUS
<1>0. IsSeq(gIn) /\ IsSeq(gOut) /\ Len(gOut) <= GOutCap /\ (~gStale => Fresh(rows, view, gIn, gOut))
  BY DEF GridInv
<1>1. ASSUME handleTabulatorAjaxRequest PROVE GridInv'
  <2>1. IsSeq(gIn') /\ UNCHANGED <<rows, view>>
    BY <1>1, AnswersTail DEF handleTabulatorAjaxRequest
  <2>2. \A m : Fits(1) => IsSeq(Append(gOut, m)) /\ Len(Append(gOut, m)) <= GOutCap
    <3>1. Len(gOut) \in Nat
      BY <1>0, SeqAppend
    <3>2. Fits(1) => Len(gOut) + 1 <= GOutCap
      BY DEF Fits
    <3>3. \A m : IsSeq(Append(gOut, m)) /\ Len(Append(gOut, m)) = Len(gOut) + 1
      BY <1>0, SeqAppend
    <3>. QED BY <3>2, <3>3
  <2>3. CASE \E m : Fits(1) /\ gOut' = Append(gOut, m) /\ m.type = "data" /\ m.data = Rows(rows, m.page)
    <3>1. PICK m : Fits(1) /\ gOut' = Append(gOut, m) /\ m.type = "data" /\ m.data = Rows(rows, m.page)
      BY <2>3
    <3>2. PICK n : n = Len(gOut)
      OBVIOUS
    <3>3. n \in Nat /\ DOMAIN gOut' = 1..(n + 1) /\ gOut'[n + 1] = m
      BY <1>0, <3>1, <3>2, SeqAppend
    <3>4. n + 1 \in DOMAIN gOut' /\ LastData(gOut', n + 1) /\ gOut'[n + 1].data = Rows(rows', gOut'[n + 1].page)
      BY <2>1, <3>1, <3>3 DEF LastData
    <3>5. Fresh(rows', view', gIn', gOut')
      BY <3>4 DEF Fresh
    <3>. QED BY <2>1, <2>2, <3>1, <3>5 DEF GridInv
  <2>4. CASE gStale' /\ (gOut' = gOut \/ \E m : Fits(1) /\ gOut' = Append(gOut, m))
    BY <1>0, <2>1, <2>2, <2>4 DEF GridInv
  <2>5. PICK r : r = FetchTablePage(rows, Head(gIn).page, <<>>)
    OBVIOUS
  <2>6. PICK d : d = remotePagePayload(Head(gIn).page, r)
    OBVIOUS
  <2>7. d.type = "data" /\ d.data = Rows(rows, d.page)
    BY <2>5, <2>6 DEF remotePagePayload, Rows
  <2>8. \/ Fits(1) /\ gOut' = Append(gOut, d)
        \/ gOut' = gOut /\ gStale' = TRUE
        \/ gOut' = (IF Fits(1) THEN Append(gOut, Error) ELSE gOut) /\ gStale' = TRUE
    BY <1>1, <2>5, <2>6 DEF handleTabulatorAjaxRequest
  <2>. QED BY <2>3, <2>4, <2>7, <2>8
<1>2. ASSUME handleGridFormOpen PROVE GridInv'
  <2>1. PICK no \in BOOLEAN : SendAll(Append(fireGridEvent(no), BuildGridForm(Head(gIn))))
    BY <1>2 DEF handleGridFormOpen
  <2>2. PICK ms : ms = Append(fireGridEvent(no), BuildGridForm(Head(gIn)))
    OBVIOUS
  <2>3. Error.type = "error" /\ BuildGridForm(Head(gIn)).type = "form"
    BY DEF Error, BuildGridForm
  <2>4. IsSeq(ms) /\ \A i \in DOMAIN ms : ms[i] \in {Error, BuildGridForm(Head(gIn))}
    BY <2>2, EventSeq
  <2>5. \A i \in DOMAIN ms : ms[i].type # "data"
    BY <2>3, <2>4
  <2>6. IsSeq(gIn') /\ UNCHANGED <<rows, view>> /\ (Some(gIn, "page") => Some(gIn', "page"))
    BY <1>2, AnswersTail DEF handleGridFormOpen
  <2>. QED BY <2>1, <2>2, <2>4, <2>5, <2>6, GridQuiet
<1>3. ASSUME NEW m, SendAll(<<m>>), m.type # "data", Answers, Head(gIn).type # "page", UNCHANGED rows PROVE GridInv'
  <2>1. PICK ms : ms = <<m>>
    OBVIOUS
  <2>2. IsSeq(ms) /\ DOMAIN ms = {1} /\ ms[1] = m
    BY <2>1, ShortSeq, Zenon
  <2>3. IsSeq(gIn') /\ UNCHANGED view /\ (Some(gIn, "page") => Some(gIn', "page"))
    BY <1>3, AnswersTail
  <2>4. \A i \in DOMAIN ms : ms[i].type # "data"
    BY <1>3, <2>2
  <2>. QED BY <1>3, <2>1, <2>2, <2>3, <2>4, GridQuiet
<1>4. ASSUME handleGridFormSave PROVE GridInv'
  <2>1. Answers /\ Head(gIn).type # "page"
    BY <1>4 DEF handleGridFormSave
  <2>2. CASE SendAll(<<[type |-> "close"], [type |-> "refresh"]>>)
    <3>1. PICK ms, m : m = [type |-> "refresh"] /\ ms = <<[type |-> "close"], m>>
      OBVIOUS
    <3>2. IsSeq(ms) /\ DOMAIN ms = {1, 2} /\ ms[2] = m
      BY <3>1, PairSeq, Zenon
    <3>3. Some(ms, "refresh")
      <4>1. 2 \in DOMAIN ms /\ ms[2].type = "refresh"
        BY <3>1, <3>2
      <4>. QED BY <4>1 DEF Some
    <3>4. IsSeq(gIn')
      BY <2>1, AnswersTail
    <3>. QED BY <2>2, <3>1, <3>2, <3>3, <3>4, GridLoud
  <2>3. CASE SendAll(<<Error>>) /\ UNCHANGED rows
    <3>1. Error.type # "data"
      BY DEF Error
    <3>. QED BY <1>3, <2>1, <2>3, <3>1
  <2>. QED BY <1>4, <2>2, <2>3 DEF handleGridFormSave
<1>5. ASSUME handleGridFormCancel PROVE GridInv'
  <2>1. PICK m : m = [type |-> "close"]
    OBVIOUS
  <2>2. SendAll(<<m>>) /\ m.type # "data" /\ Answers /\ Head(gIn).type # "page" /\ UNCHANGED rows
    BY <1>5, <2>1 DEF handleGridFormCancel
  <2>. QED BY <1>3, <2>2
<1>6. ASSUME handleGridBatchDelete PROVE GridInv'
  <2>1. Answers /\ Head(gIn).type # "page"
    BY <1>6 DEF handleGridBatchDelete
  <2>2. IsSeq(gIn') /\ UNCHANGED view /\ (Some(gIn, "page") => Some(gIn', "page"))
    BY <2>1, AnswersTail
  <2>3. ASSUME NEW no, SendAll(Append(fireGridEvent(no), [type |-> "refresh"])) PROVE GridInv'
    <3>1. PICK m, ms : m = [type |-> "refresh"] /\ ms = Append(fireGridEvent(no), m)
      OBVIOUS
    <3>2. IsSeq(ms) /\ Some(ms, m.type)
      BY <3>1, EventSeq
    <3>3. m.type = "refresh"
      BY <3>1
    <3>. QED BY <2>2, <2>3, <3>1, <3>2, <3>3, GridLoud
  <2>4. ASSUME NEW no, SendAll(Append(fireGridEvent(no), Error)), UNCHANGED rows PROVE GridInv'
    <3>1. PICK ms : ms = Append(fireGridEvent(no), Error)
      OBVIOUS
    <3>2. IsSeq(ms) /\ \A i \in DOMAIN ms : ms[i] \in {Error, Error}
      BY <3>1, EventSeq
    <3>3. \A i \in DOMAIN ms : ms[i].type # "data"
      BY <3>2 DEF Error
    <3>. QED BY <2>2, <2>4, <3>1, <3>2, <3>3, GridQuiet
  <2>5. PICK no \in BOOLEAN : \/ SendAll(Append(fireGridEvent(no), [type |-> "refresh"]))
                              \/ UNCHANGED rows /\ SendAll(Append(fireGridEvent(no), Error))
    BY <1>6 DEF handleGridBatchDelete
  <2>. QED BY <2>3, <2>4, <2>5
<1>7. ASSUME gridRefresh PROVE GridInv'
  <2>1. PICK ms : ms = <<[type |-> "refresh"]>>
    OBVIOUS
  <2>2. IsSeq(ms) /\ 1 \in DOMAIN ms /\ ms[1].type = "refresh"
    BY <2>1, ShortSeq
  <2>3. Some(ms, "refresh")
    BY <2>2 DEF Some
  <2>4. SendAll(ms) /\ IsSeq(gIn')
    BY <1>0, <1>7, <2>1 DEF gridRefresh
  <2>. QED BY <2>2, <2>3, <2>4, GridLoud
<1>8. ASSUME NEW m, Ask(m) PROVE GridInv'
  <2>1. gIn' = Append(gIn, m) /\ UNCHANGED <<rows, view, gOut, gStale>>
    BY <1>8 DEF Ask
  <2>2. IsSeq(gIn') /\ (Some(gIn, "page") => Some(gIn', "page"))
    BY <1>0, <2>1, SeqAppend, SomeAppend
  <2>3. Fresh(rows, view, gIn, gOut) => Fresh(rows, view, gIn', gOut)
    BY <2>2 DEF Fresh
  <2>4. ~gStale' => Fresh(rows', view', gIn', gOut')
    BY <1>0, <2>1, <2>3
  <2>. QED BY <1>0, <2>1, <2>2, <2>4 DEF GridInv
<1>9. ASSUME receive PROVE GridInv'
  <2>1. PICK n, m, rest : n = Len(gOut) /\ m = Head(gOut) /\ rest = Tail(gOut)
    OBVIOUS
  <2>2. /\ gOut # <<>> /\ gOut' = rest /\ UNCHANGED <<rows, gStale>>
        /\ m.type = "data" => view' = [page |-> m.page, data |-> m.data, last |-> m.last]
        /\ m.type # "data" => view' = view
        /\ m.type = "refresh" => gIn' = Append(gIn, [type |-> "page", page |-> 1])
        /\ m.type # "refresh" => gIn' = gIn
    BY <1>9, <2>1 DEF receive
  <2>3. /\ n \in Nat \ {0} /\ DOMAIN gOut = 1..n /\ m = gOut[1] /\ DOMAIN rest = 1..(n - 1) /\ IsSeq(rest)
        /\ (\A i \in 1..(n - 1) : rest[i] = gOut[i + 1])
    BY <1>0, <2>1, <2>2, SeqTail
  <2>4. Len(rest) <= GOutCap
    <3>1. rest \in Seq(ToSet(rest))
      BY <2>3 DEF IsSeq
    <3>2. Len(rest) = n - 1
      BY <2>3, <3>1
    <3>. QED BY <1>0, <2>1, <2>3, <3>2, GridAssumption
  <2>5. IsSeq(gIn') /\ (Some(gIn, "page") \/ m.type = "refresh" => Some(gIn', "page"))
    <3>1. CASE m.type = "refresh"
      <4>1. PICK p : p = [type |-> "page", page |-> 1]
        OBVIOUS
      <4>2. gIn' = Append(gIn, p) /\ p.type = "page"
        BY <2>2, <3>1, <4>1
      <4>. QED BY <1>0, <4>2, SeqAppend, SomeAppend
    <3>2. CASE m.type # "refresh"
      BY <1>0, <2>2, <3>2
    <3>. QED BY <3>1, <3>2
  <2>6. ASSUME NEW j \in 1..n, j > 1 PROVE j - 1 \in DOMAIN rest /\ rest[j - 1] = gOut[j]
    <3>1. j - 1 \in 1..(n - 1) /\ (j - 1) + 1 = j
      BY <2>3, <2>6
    <3>. QED BY <2>3, <3>1
  <2>7. ASSUME Fresh(rows, view, gIn, gOut) PROVE Fresh(rows, view', gIn', rest)
    <3>1. CASE Some(gOut, "refresh")
      <4>1. PICK i \in 1..n : gOut[i].type = "refresh"
        BY <2>3, <3>1 DEF Some
      <4>2. CASE i = 1
        BY <2>3, <2>5, <4>1, <4>2 DEF Fresh
      <4>3. CASE i # 1
        <5>1. i > 1
          BY <2>3, <4>3
        <5>2. i - 1 \in DOMAIN rest /\ rest[i - 1].type = "refresh"
          BY <2>6, <4>1, <5>1
        <5>. QED BY <5>2 DEF Fresh, Some
      <4>. QED BY <4>2, <4>3
    <3>2. CASE Some(gIn, "page")
      BY <2>5, <3>2 DEF Fresh
    <3>3. CASE \E i \in DOMAIN gOut : LastData(gOut, i) /\ gOut[i].data = Rows(rows, gOut[i].page)
      <4>1. PICK i \in 1..n : LastData(gOut, i) /\ gOut[i].data = Rows(rows, gOut[i].page)
        BY <2>3, <3>3
      <4>2. CASE i = 1
        <5>1. m.type = "data" /\ m.data = Rows(rows, m.page)
          BY <2>3, <4>1, <4>2 DEF LastData
        <5>2. view'.data = m.data /\ view'.page = m.page
          BY <2>2, <5>1
        <5>3. ASSUME NEW j \in DOMAIN rest PROVE rest[j].type # "data"
          <6>1. j + 1 \in 1..n /\ j + 1 > 1 /\ rest[j] = gOut[j + 1]
            BY <2>3
          <6>. QED BY <2>3, <4>1, <4>2, <6>1 DEF LastData
        <5>. QED BY <5>1, <5>2, <5>3 DEF Fresh, Some
      <4>3. CASE i # 1
        <5>1. i > 1
          BY <2>3, <4>3
        <5>2. i - 1 \in DOMAIN rest /\ rest[i - 1] = gOut[i] /\ gOut[i].type = "data"
          BY <2>6, <4>1, <5>1 DEF LastData
        <5>3. ASSUME NEW j \in DOMAIN rest, j > i - 1 PROVE rest[j].type # "data"
          <6>1. j + 1 \in 1..n /\ j + 1 > i /\ rest[j] = gOut[j + 1]
            BY <2>3, <5>3
          <6>. QED BY <2>3, <4>1, <6>1 DEF LastData
        <5>4. LastData(rest, i - 1) /\ rest[i - 1].data = Rows(rows, rest[i - 1].page)
          BY <4>1, <5>2, <5>3 DEF LastData
        <5>. QED BY <5>2, <5>4 DEF Fresh
      <4>. QED BY <4>2, <4>3
    <3>4. CASE ~Some(gOut, "data") /\ view.data = Rows(rows, view.page)
      <4>1. m.type # "data"
        BY <2>3, <3>4 DEF Some
      <4>2. ASSUME NEW j \in DOMAIN rest PROVE rest[j].type # "data"
        <5>1. j + 1 \in 1..n /\ rest[j] = gOut[j + 1]
          BY <2>3
        <5>. QED BY <2>3, <3>4, <5>1 DEF Some
      <4>. QED BY <2>2, <3>4, <4>1, <4>2 DEF Fresh, Some
    <3>. QED BY <2>7, <3>1, <3>2, <3>3, <3>4 DEF Fresh
  <2>8. ~gStale' => Fresh(rows', view', gIn', gOut')
    BY <1>0, <2>2, <2>7
  <2>. QED BY <2>2, <2>3, <2>4, <2>5, <2>8 DEF GridInv
<1>10. ASSUME outsideWrite PROVE GridInv'
  <2>1. gStale' /\ UNCHANGED <<gIn, gOut>>
    BY <1>10 DEF outsideWrite
  <2>. QED BY <1>0, <2>1 DEF GridInv
<1>11. ASSUME UNCHANGED gridvars PROVE GridInv'
  <2>1. UNCHANGED <<rows, view, gIn, gOut, gStale>>
    BY <1>11 DEF gridvars
  <2>. QED BY <2>1 DEF GridInv
<1>12. ASSUME \/ \E p \in 1..Cardinality(Pk) : setPage(p)
              \/ \E i \in DOMAIN view.data, m \in {"view", "edit"} : openRow(i, m)
              \/ newRecord \/ cancel
              \/ \E v \in RowVal : save(v)
              \/ \E is \in SUBSET DOMAIN view.data : deleteRows(is)
       PROVE  \E m : Ask(m)
  BY <1>12, Zenon DEF setPage, openRow, newRecord, cancel, save, deleteRows
<1>. QED BY <1>1, <1>2, <1>4, <1>5, <1>6, <1>7, <1>8, <1>9, <1>10, <1>11, <1>12, Zenon DEF GridNext

\* GridCurrent for every table, page size and capacity of the outbox and any number of requests: once no
\* request and no answer is under way, the grid shows what the table has on its page, unless an answer was
\* dropped or failed or another program wrote.
THEOREM GridCorrect == GridSpec => []GridCurrent
<1>1. GridInv => GridCurrent
  <2>. SUFFICES ASSUME GridInv, gIn = <<>>, gOut = <<>>, ~gStale
                PROVE  view.data = FetchTablePage(rows, view.page, <<>>).data
    BY DEF GridCurrent
  <2>1. Fresh(rows, view, gIn, gOut)
    BY DEF GridInv
  <2>2. DOMAIN gIn = {} /\ DOMAIN gOut = {}
    OBVIOUS
  <2>. QED BY <2>1, <2>2 DEF Fresh, Some, Rows
<1>. QED BY <1>1, GridInitInv, GridStep, PTL DEF GridSpec

-----------------------------------------------------------------------------
(* The looper.                                                             *)

Row(i) == [index |-> i, row |-> i]
Prefix(n) == [i \in 1..n |-> Row(i)]
NoBatch(out) == \A i \in DOMAIN out : out[i].type # "batch"
OneBatch(out, b) == \E i \in DOMAIN out : out[i] = b /\ \A j \in DOMAIN out : j # i => out[j].type # "batch"

\* n rows are there, whole batches while there are more; at most one request or its answer is under way,
\* and it is the one for the rows that come next.
Holds(n, more, loading) ==
    /\ looper = [rows |-> Prefix(n), next |-> n + 1, hasMore |-> more, loading |-> loading]
    /\ more => \E k \in Nat : n = k * Batch /\ (n < LRows \/ n = 0)
    /\ ~more => n = LRows
    /\ loading => more
    /\ \/ NoBatch(lOut) /\ lIn = <<>>
       \/ loading /\ NoBatch(lOut) /\ lIn = <<n + 1>>
       \/ loading /\ OneBatch(lOut, dispatchDBLooperPage(n + 1)) /\ lIn = <<>>
LooperInv ==
    raced \/ (IsSeq(lOut) /\ \E n \in 0..LRows, more \in BOOLEAN, loading \in BOOLEAN : Holds(n, more, loading))

LEMMA DivFloor ==
    ASSUME NEW a \in Nat, NEW b \in Nat \ {0}
    PROVE  a \div b \in Nat /\ (a \div b) * b <= a /\ a < (a \div b) * b + b
  OBVIOUS

LEMMA MulMono == ASSUME NEW b \in Nat \ {0}, NEW p \in Int, NEW q \in Int, p < q PROVE p * b + b <= q * b
  OBVIOUS

\* The quotient is the one multiple that is not above a and less than b below it.
LEMMA DivIs ==
    ASSUME NEW a \in Nat, NEW b \in Nat \ {0}, NEW q \in Nat, q * b <= a, a < q * b + b
    PROVE  a \div b = q
<1>1. PICK d \in Nat : d = a \div b /\ d * b <= a /\ a < d * b + b
  BY DivFloor
<1>2. d * b \in Int /\ q * b \in Int
  OBVIOUS
<1>3. ~(d < q)
  <2>1. d < q => d * b + b <= q * b
    BY MulMono
  <2>. QED BY <1>1, <1>2, <2>1
<1>4. ~(q < d)
  <2>1. q < d => q * b + b <= d * b
    BY MulMono
  <2>. QED BY <1>1, <1>2, <2>1
<1>. QED BY <1>1, <1>3, <1>4

\* What a batch brings to a looper of k whole batches: the rows that come next, up to the last.
AfterBatch(n) == IF n + Batch < LRows THEN n + Batch ELSE LRows
LEMMA BatchIs ==
    ASSUME Batch > 1, NEW k \in Nat, NEW n \in 0..LRows, n = k * Batch, n < LRows \/ n = 0
    PROVE  /\ dispatchDBLooperPage(n + 1).type = "batch"
           /\ dispatchDBLooperPage(n + 1).rows = [i \in 1..(AfterBatch(n) - n) |-> Row(n + i)]
           /\ dispatchDBLooperPage(n + 1).hasMore = (n + Batch < LRows)
<1>1. LRows \in Nat /\ Batch \in Nat \ {0} /\ n \in Nat
  BY LooperAssumption
<1>2. parseLooperScrollReq(n + 1) = k + 1
  <2>1. (n + 1) \div Batch = k
    BY <1>1, DivIs
  <2>. QED BY <2>1 DEF parseLooperScrollReq
<1>3. PICK r : r = FetchLooperRows(k + 1)
  OBVIOUS
<1>4. ((k + 1) - 1) * Batch = n
  BY <1>1
<1>5. PICK m : m = IF n + Batch < LRows THEN Batch ELSE IF LRows > n THEN LRows - n ELSE 0
  OBVIOUS
<1>6. r.rows = [i \in 1..m |-> n + i] /\ r.last = IF LRows = 0 THEN 1 ELSE (LRows + Batch - 1) \div Batch
  BY <1>3, <1>4, <1>5 DEF FetchLooperRows
<1>7. m = AfterBatch(n) - n /\ m \in Nat
  BY <1>1, <1>5 DEF AfterBatch
<1>8. PICK b : b = dispatchDBLooperPage(n + 1)
  OBVIOUS
<1>9. b = [type |-> "batch", rows |-> looperBatchRows(n + 1, r.rows), hasMore |-> k + 1 < r.last]
  BY <1>2, <1>3, <1>8 DEF dispatchDBLooperPage
<1>10. looperBatchRows(n + 1, r.rows) = [i \in 1..m |-> Row(n + i)]
  <2>1. looperBatchRows(n + 1, r.rows) = [i \in 1..m |-> [index |-> n + 1 + i - 1, row |-> n + i]]
    BY <1>6 DEF looperBatchRows
  <2>2. \A i \in 1..m : [index |-> n + 1 + i - 1, row |-> n + i] = Row(n + i)
    <3>1. \A i \in 1..m : n + 1 + i - 1 = n + i
      BY <1>1, <1>7
    <3>. QED BY <3>1 DEF Row
  <2>. QED BY <2>1, <2>2
<1>11. (k + 1 < r.last) = (n + Batch < LRows)
  <2>1. PICK d \in Nat : /\ d = (LRows + Batch - 1) \div Batch
                         /\ d * Batch <= LRows + Batch - 1 /\ LRows + Batch - 1 < d * Batch + Batch
    <3>1. LRows + Batch - 1 \in Nat
      BY <1>1
    <3>. QED BY <1>1, <3>1, DivFloor
  <2>2. d * Batch \in Int /\ (k + 1) * Batch = n + Batch
    BY <1>1
  <2>3. CASE LRows = 0
    BY <1>1, <1>6, <2>3
  <2>4. CASE LRows # 0
    <3>1. r.last = d
      BY <1>6, <2>1, <2>4
    <3>2. k + 1 < d => n + Batch < LRows
      <4>1. k + 1 < d => (k + 1) * Batch + Batch <= d * Batch
        BY <1>1, MulMono
      <4>. QED BY <1>1, <2>1, <2>2, <4>1
    <3>3. ~(k + 1 < d) => ~(n + Batch < LRows)
      <4>1. d < k + 1 => d * Batch + Batch <= (k + 1) * Batch
        BY <1>1, MulMono
      <4>2. d < k + 1 \/ d = k + 1 \/ k + 1 < d
        OBVIOUS
      <4>. QED BY <1>1, <2>1, <2>2, <4>1, <4>2
    <3>. QED BY <3>1, <3>2, <3>3
  <2>. QED BY <2>3, <2>4
<1>12. b.type = "batch" /\ b.rows = [i \in 1..m |-> Row(n + i)] /\ b.hasMore = (k + 1 < r.last)
  BY <1>9, <1>10
<1>. QED BY <1>7, <1>8, <1>11, <1>12

LEMMA PrefixGrows ==
    ASSUME NEW n \in Nat, NEW m \in Nat, NEW s, s = [i \in 1..m |-> Row(n + i)]
    PROVE  Len(s) = m /\ Prefix(n) \o s = Prefix(n + m)
<1>1. PICK S : S = {Row(i) : i \in Nat}
  OBVIOUS
<1>2. PICK p : p = Prefix(n)
  OBVIOUS
<1>3. p \in Seq(S) /\ Len(p) = n /\ \A i \in 1..n : p[i] = Row(i)
  BY <1>1, <1>2 DEF Prefix
<1>4. s \in Seq(S) /\ Len(s) = m /\ \A i \in 1..m : s[i] = Row(n + i)
  BY <1>1
<1>5. PICK w : w = p \o s
  OBVIOUS
<1>6. w \in Seq(S) /\ Len(w) = n + m /\ (\A i \in 1..n : w[i] = p[i]) /\ (\A i \in 1..m : w[n + i] = s[i])
  <2>1. Len(p) \in Nat /\ Len(s) \in Nat /\ p \in Seq(S) /\ s \in Seq(S)
    BY <1>3, <1>4
  <2>2. /\ w \in Seq(S) /\ Len(w) = Len(p) + Len(s)
        /\ \A i \in 1..Len(p) : w[i] = p[i]
        /\ \A i \in 1..Len(s) : w[Len(p) + i] = s[i]
    BY <1>5, <2>1
  <2>. QED BY <1>3, <1>4, <2>2
<1>7. ASSUME NEW i \in 1..(n + m) PROVE w[i] = Row(i)
  <2>1. CASE i <= n
    BY <1>3, <1>6, <2>1
  <2>2. CASE i > n
    <3>1. i - n \in 1..m /\ n + (i - n) = i
      BY <2>2
    <3>. QED BY <1>4, <1>6, <3>1
  <2>. QED BY <2>1, <2>2
<1>8. w = [i \in 1..(n + m) |-> Row(i)]
  <2>1. w \in [1..(n + m) -> S]
    BY <1>6
  <2>2. w = [i \in 1..(n + m) |-> w[i]]
    BY <2>1
  <2>. QED BY <1>7, <2>2
<1>. QED BY <1>2, <1>4, <1>5, <1>8 DEF Prefix

\* Another message behind, or a message that is no batch taken from the front.
LEMMA NoBatchAppend ==
    ASSUME NEW out, IsSeq(out), NEW m
    PROVE  /\ m.type # "batch" /\ NoBatch(out) => NoBatch(Append(out, m))
           /\ NoBatch(out) => OneBatch(Append(out, m), m)
           /\ \A b : m.type # "batch" /\ OneBatch(out, b) => OneBatch(Append(out, m), b)
<1>1. PICK n, new : n = Len(out) /\ new = Append(out, m)
  OBVIOUS
<1>2. /\ n \in Nat /\ DOMAIN out = 1..n /\ DOMAIN new = 1..(n + 1)
      /\ (\A i \in 1..n : new[i] = out[i]) /\ new[n + 1] = m
  BY <1>1, SeqAppend
<1>3. ASSUME NEW i \in DOMAIN new, i # n + 1 PROVE i \in DOMAIN out /\ new[i] = out[i]
  BY <1>2, <1>3
<1>4. m.type # "batch" /\ NoBatch(out) => NoBatch(new)
  BY <1>2, <1>3 DEF NoBatch
<1>5. NoBatch(out) => OneBatch(new, m)
  <2>1. n + 1 \in DOMAIN new
    BY <1>2
  <2>. QED BY <1>2, <1>3, <2>1 DEF NoBatch, OneBatch
<1>6. ASSUME NEW b, m.type # "batch", OneBatch(out, b) PROVE OneBatch(new, b)
  <2>1. PICK i \in DOMAIN out : out[i] = b /\ \A j \in DOMAIN out : j # i => out[j].type # "batch"
    BY <1>6 DEF OneBatch
  <2>2. i \in DOMAIN new /\ new[i] = b
    BY <1>2, <2>1
  <2>3. \A j \in DOMAIN new : j # i => new[j].type # "batch"
    BY <1>2, <1>3, <1>6, <2>1
  <2>. QED BY <2>2, <2>3 DEF OneBatch
<1>. QED BY <1>1, <1>4, <1>5, <1>6

LEMMA NoBatchTail ==
    ASSUME NEW out, IsSeq(out), out # <<>>
    PROVE  /\ NoBatch(out) => NoBatch(Tail(out)) /\ Head(out).type # "batch"
           /\ \A b : Head(out).type = "batch" /\ OneBatch(out, b) => Head(out) = b /\ NoBatch(Tail(out))
<1>1. PICK n, rest : n = Len(out) /\ rest = Tail(out)
  OBVIOUS
<1>2. /\ n \in Nat \ {0} /\ DOMAIN out = 1..n /\ Head(out) = out[1] /\ DOMAIN rest = 1..(n - 1)
      /\ (\A i \in 1..(n - 1) : rest[i] = out[i + 1])
  BY <1>1, SeqTail
<1>3. ASSUME NEW i \in DOMAIN rest PROVE i + 1 \in DOMAIN out /\ i + 1 # 1 /\ rest[i] = out[i + 1]
  BY <1>2
<1>4. 1 \in DOMAIN out
  BY <1>2
<1>5. NoBatch(out) => NoBatch(rest) /\ Head(out).type # "batch"
  BY <1>2, <1>3, <1>4 DEF NoBatch
<1>6. ASSUME NEW b, Head(out).type = "batch", OneBatch(out, b) PROVE Head(out) = b /\ NoBatch(rest)
  <2>1. PICK i \in DOMAIN out : out[i] = b /\ \A j \in DOMAIN out : j # i => out[j].type # "batch"
    BY <1>6 DEF OneBatch
  <2>2. i = 1
    BY <1>2, <1>4, <1>6, <2>1
  <2>. QED BY <1>2, <1>3, <2>1, <2>2 DEF NoBatch
<1>. QED BY <1>1, <1>5, <1>6

LEMMA LooperInitInv == LoopersInit => LooperInv
<1>. SUFFICES ASSUME LoopersInit PROVE LooperInv
  OBVIOUS
<1>1. lOut = <<>> /\ lIn = <<0 + 1>> /\ looper = [rows |-> <<>>, next |-> 0 + 1, hasMore |-> TRUE, loading |-> TRUE]
  BY DEF LoopersInit
<1>2. IsSeq(lOut) /\ NoBatch(lOut)
  BY <1>1 DEF IsSeq, NoBatch
<1>3. Prefix(0) = <<>>
  BY DEF Prefix
<1>4. 0 \in 0..LRows /\ 0 = 0 * Batch
  BY LooperAssumption
<1>5. Holds(0, TRUE, TRUE)
  BY <1>1, <1>2, <1>3, <1>4 DEF Holds
<1>. QED BY <1>2, <1>4, <1>5 DEF LooperInv

LEMMA LooperStep == ASSUME Batch > 1 PROVE LooperInv /\ [LooperNext]_loopvars => LooperInv'
<1>. SUFFICES ASSUME LooperInv, [LooperNext]_loopvars PROVE LooperInv'
  OBVIOUS
<1>1. CASE raced
  <2>1. raced'
    BY <1>1, Zenon DEF LooperNext, handleLooperScrollRequest, looperRefresh, scroll, batchArrives, refreshArrives,
                       loopvars, lpvars
  <2>. QED BY <2>1 DEF LooperInv
<1>2. CASE ~raced
  <2>1. IsSeq(lOut)
    BY <1>2 DEF LooperInv
  <2>2. PICK n \in 0..LRows, more \in BOOLEAN, loading \in BOOLEAN : Holds(n, more, loading)
    BY <1>2 DEF LooperInv
  <2>3. /\ looper = [rows |-> Prefix(n), next |-> n + 1, hasMore |-> more, loading |-> loading]
        /\ more => \E k \in Nat : n = k * Batch /\ (n < LRows \/ n = 0)
        /\ ~more => n = LRows
        /\ loading => more
    BY <2>2 DEF Holds
  <2>4. \/ NoBatch(lOut) /\ lIn = <<>>
        \/ loading /\ NoBatch(lOut) /\ lIn = <<n + 1>>
        \/ loading /\ OneBatch(lOut, dispatchDBLooperPage(n + 1)) /\ lIn = <<>>
    BY <2>2 DEF Holds
  <2>5. looper.rows = Prefix(n) /\ looper.next = n + 1 /\ looper.hasMore = more /\ looper.loading = loading
    BY <2>3
  <2>6. n \in Nat /\ LRows \in Nat /\ Batch \in Nat \ {0}
    BY LooperAssumption
  <2>7. ASSUME handleLooperScrollRequest PROVE LooperInv'
    <3>1. loading /\ NoBatch(lOut) /\ lIn = <<n + 1>>
      BY <2>4, <2>7 DEF handleLooperScrollRequest
    <3>2. UNCHANGED looper /\ lIn' = <<>> /\ Head(lIn) = n + 1
      BY <2>7, <3>1 DEF handleLooperScrollRequest
    <3>3. lOut' = Append(lOut, dispatchDBLooperPage(n + 1)) \/ lOut' = lOut
      BY <2>7, <3>2 DEF handleLooperScrollRequest
    <3>4. IsSeq(lOut') /\ (NoBatch(lOut') \/ OneBatch(lOut', dispatchDBLooperPage(n + 1)))
      <4>1. CASE lOut' = Append(lOut, dispatchDBLooperPage(n + 1))
        BY <2>1, <3>1, <4>1, SeqAppend, NoBatchAppend
      <4>2. CASE lOut' = lOut
        BY <2>1, <3>1, <4>2
      <4>. QED BY <3>3, <4>1, <4>2
    <3>5. looper' = [rows |-> Prefix(n), next |-> n + 1, hasMore |-> more, loading |-> loading]
      BY <2>3, <3>2
    <3>6. Holds(n, more, loading)'
      BY <2>3, <3>1, <3>2, <3>4, <3>5, Zenon DEF Holds
    <3>. QED BY <3>4, <3>6 DEF LooperInv
  <2>8. ASSUME looperRefresh PROVE LooperInv'
    <3>1. PICK m : m = [type |-> "refresh"]
      OBVIOUS
    <3>2. m.type # "batch" /\ (lOut' = Append(lOut, m) \/ lOut' = lOut) /\ UNCHANGED <<looper, lIn>>
      BY <2>8, <3>1 DEF looperRefresh
    <3>3. IsSeq(lOut') /\ (NoBatch(lOut) => NoBatch(lOut')) /\ \A b : OneBatch(lOut, b) => OneBatch(lOut', b)
      <4>1. CASE lOut' = Append(lOut, m)
        <5>1. IsSeq(lOut')
          BY <2>1, <4>1, SeqAppend
        <5>2. (NoBatch(lOut) => NoBatch(lOut')) /\ \A b : OneBatch(lOut, b) => OneBatch(lOut', b)
          BY <2>1, <3>2, <4>1, NoBatchAppend, Zenon
        <5>. QED BY <5>1, <5>2
      <4>2. CASE lOut' = lOut
        BY <2>1, <4>2
      <4>. QED BY <3>2, <4>1, <4>2
    <3>4. looper' = [rows |-> Prefix(n), next |-> n + 1, hasMore |-> more, loading |-> loading]
      BY <2>3, <3>2
    <3>5. Holds(n, more, loading)'
      BY <2>3, <2>4, <3>2, <3>3, <3>4, Zenon DEF Holds
    <3>. QED BY <3>3, <3>5 DEF LooperInv
  <2>9. ASSUME scroll PROVE LooperInv'
    <3>1. more /\ ~loading
      BY <2>5, <2>9 DEF scroll
    <3>2. NoBatch(lOut) /\ lIn = <<>>
      BY <2>4, <3>1
    <3>3. looper' = [rows |-> Prefix(n), next |-> n + 1, hasMore |-> more, loading |-> TRUE]
      BY <2>3, <2>9 DEF scroll
    <3>4. lIn' = <<n + 1>> /\ UNCHANGED lOut
      BY <2>5, <2>9, <3>2 DEF scroll
    <3>5. Holds(n, more, TRUE)'
      BY <2>3, <3>1, <3>2, <3>3, <3>4, Zenon DEF Holds
    <3>. QED BY <2>1, <3>4, <3>5 DEF LooperInv
  <2>10. ASSUME batchArrives PROVE LooperInv'
    <3>1. lOut # <<>> /\ Head(lOut).type = "batch" /\ lOut' = Tail(lOut) /\ UNCHANGED lIn
      BY <2>10 DEF batchArrives
    <3>2. ~NoBatch(lOut)
      BY <2>1, <3>1, NoBatchTail
    <3>3. loading /\ OneBatch(lOut, dispatchDBLooperPage(n + 1)) /\ lIn = <<>>
      BY <2>4, <3>2
    <3>4. PICK b : b = dispatchDBLooperPage(n + 1)
      OBVIOUS
    <3>5. Head(lOut) = b /\ NoBatch(lOut') /\ IsSeq(lOut')
      BY <2>1, <3>1, <3>3, <3>4, NoBatchTail, SeqTail
    <3>6. PICK k \in Nat : n = k * Batch /\ (n < LRows \/ n = 0)
      BY <2>3, <3>3
    <3>7. b.rows = [i \in 1..(AfterBatch(n) - n) |-> Row(n + i)] /\ b.hasMore = (n + Batch < LRows)
      BY <3>4, <3>6, BatchIs
    <3>8. PICK m : m = AfterBatch(n) - n
      OBVIOUS
    <3>9. /\ m \in Nat /\ n + m = AfterBatch(n) /\ n + m \in 0..LRows
          /\ (n + Batch < LRows => n + m = n + Batch) /\ (~(n + Batch < LRows) => n + m = LRows)
      BY <2>6, <3>8 DEF AfterBatch
    <3>10. Len(b.rows) = m /\ Prefix(n) \o b.rows = Prefix(n + m)
      <4>1. b.rows = [i \in 1..m |-> Row(n + i)]
        BY <3>7, <3>8
      <4>. QED BY <2>6, <3>9, <4>1, PrefixGrows, Zenon
    <3>11. looper' = [rows |-> Prefix(n + m), next |-> (n + 1) + m, hasMore |-> (n + Batch < LRows), loading |-> FALSE]
      BY <2>5, <2>10, <3>5, <3>7, <3>10 DEF batchArrives
    <3>12. (n + 1) + m = (n + m) + 1
      BY <2>6, <3>9
    <3>13. n + Batch < LRows => \E j \in Nat : n + m = j * Batch /\ (n + m < LRows \/ n + m = 0)
      <4>1. k + 1 \in Nat /\ (k + 1) * Batch = n + Batch
        BY <2>6, <3>6
      <4>. QED BY <3>9, <4>1
    <3>14. PICK c, z : c = (n + Batch < LRows) /\ z = n + m
      OBVIOUS
    <3>15. /\ looper' = [rows |-> Prefix(z), next |-> z + 1, hasMore |-> c, loading |-> FALSE]
           /\ c => \E j \in Nat : z = j * Batch /\ (z < LRows \/ z = 0)
           /\ ~c => z = LRows
      BY <3>9, <3>11, <3>12, <3>13, <3>14
    <3>16. lIn' = <<>> /\ c \in BOOLEAN /\ z \in 0..LRows
      BY <3>1, <3>3, <3>9, <3>14
    <3>17. Holds(z, c, FALSE)'
      BY <3>5, <3>15, <3>16, Zenon DEF Holds
    <3>. QED BY <3>5, <3>16, <3>17 DEF LooperInv
  <2>11. ASSUME refreshArrives PROVE LooperInv'
    <3>1. lOut # <<>> /\ Head(lOut).type = "refresh" /\ lOut' = Tail(lOut) /\ lIn' = Append(lIn, 1)
      BY <2>11 DEF refreshArrives
    <3>2. CASE loading
      <4>1. raced'
        BY <2>5, <2>11, <3>2 DEF refreshArrives
      <4>. QED BY <4>1 DEF LooperInv
    <3>3. CASE ~loading
      <4>1. NoBatch(lOut) /\ lIn = <<>>
        BY <2>4, <3>3
      <4>2. NoBatch(lOut') /\ IsSeq(lOut')
        BY <2>1, <3>1, <4>1, NoBatchTail, SeqTail
      <4>3. lIn' = <<0 + 1>>
        BY <3>1, <4>1
      <4>4. Prefix(0) = <<>>
        BY DEF Prefix
      <4>5. looper' = [rows |-> Prefix(0), next |-> 0 + 1, hasMore |-> TRUE, loading |-> TRUE]
        <5>1. looper' = [rows |-> <<>>, next |-> 1, hasMore |-> TRUE, loading |-> TRUE]
          BY <2>11 DEF refreshArrives
        <5>2. 0 + 1 = 1
          OBVIOUS
        <5>. QED BY <4>4, <5>1, <5>2, Zenon
      <4>6. \E k \in Nat : 0 = k * Batch /\ (0 < LRows \/ 0 = 0)
        <5>1. 0 \in Nat /\ 0 = 0 * Batch
          BY <2>6
        <5>. QED BY <5>1
      <4>7. Holds(0, TRUE, TRUE)'
        BY <4>2, <4>3, <4>5, <4>6, Zenon DEF Holds
      <4>8. 0 \in 0..LRows
        BY <2>6
      <4>. QED BY <4>2, <4>7, <4>8 DEF LooperInv
    <3>. QED BY <3>2, <3>3
  <2>12. ASSUME UNCHANGED loopvars PROVE LooperInv'
    <3>1. UNCHANGED <<looper, lIn, lOut, raced>>
      BY <2>12 DEF loopvars, lpvars
    <3>. QED BY <3>1 DEF LooperInv, Holds
  <2>. QED BY <2>7, <2>8, <2>9, <2>10, <2>11, <2>12 DEF LooperNext
<1>. QED BY <1>1, <1>2

\* LooperInOrder for every number of rows, every batch of two rows or more, every capacity of the outbox and
\* any number of refreshes: unless a refresh crossed a batch, the looper shows the first rows of the query in
\* order under their own indices, and all of them when it says that there are no more.  (Of batches of one row
\* it is false: parseLooperScrollReq divides an index that counts from 1, and row 1 is asked for as page 2.)
THEOREM LooperCorrect == ASSUME Batch > 1 PROVE LooperSpec => []LooperInOrder
<1>1. LooperInv => LooperInOrder
  <2>. SUFFICES ASSUME LooperInv, ~raced
                PROVE  /\ Len(looper.rows) <= LRows
                       /\ \A i \in DOMAIN looper.rows : looper.rows[i] = [index |-> i, row |-> i]
                       /\ ~looper.hasMore => Len(looper.rows) = LRows
    BY DEF LooperInOrder
  <2>1. PICK n \in 0..LRows, more \in BOOLEAN, loading \in BOOLEAN : Holds(n, more, loading)
    BY DEF LooperInv
  <2>2. looper.rows = Prefix(n) /\ looper.hasMore = more /\ (~more => n = LRows)
    BY <2>1 DEF Holds
  <2>3. n \in Nat /\ LRows \in Nat
    BY LooperAssumption
  <2>4. Len(Prefix(n)) = n /\ DOMAIN Prefix(n) = 1..n /\ \A i \in 1..n : Prefix(n)[i] = Row(i)
    BY <2>3 DEF Prefix
  <2>. QED BY <2>2, <2>3, <2>4 DEF Row
<1>. QED BY <1>1, LooperInitInv, LooperStep, PTL DEF LooperSpec
=============================================================================
