------------------------------ MODULE PageRouter ------------------------------
(***************************************************************************)
(* The pages of the web app and the transitions between them               *)
(* (app/scripts/helper/router.js, page-animation.js and elements.js).      *)
(* navigate starts a chain of asynchronous steps and does not wait for the *)
(* chain that is under way: chains overlap, each reads the router's state  *)
(* when its step comes, and the last to finish decides what is shown.  The *)
(* animations hide what leaves and show what enters, and keep it so.       *)
(***************************************************************************)
EXTENDS Naturals, Sequences, FiniteSets

CONSTANTS
    Subpages,       \* the sections of each page, none for a page without: a function
    NoSection,      \* no section
    MaxNavigations, \* bound: links and history entries the user takes
    MaxFailures     \* bound: imports that fail

Pages == DOMAIN Subpages

ASSUME RouterAssumption ==
    /\ \A p \in Pages : IsFiniteSet(Subpages[p]) /\ NoSection \notin Subpages[p]
    /\ {MaxNavigations, MaxFailures} \subseteq Nat

\* parseUrl: the page and the subpage of an address, which a page without sections lacks.
Places == UNION {[page : {p}, sub : IF Subpages[p] = {} THEN {NoSection} ELSE Subpages[p]] : p \in Pages}

VARIABLES
    entries, at,    \* the history of the tab and where it is
    start, currentPlace, end,   \* Router.state
    chains,         \* transitions under way
    stamped,        \* pages whose templates are in the document
    broken,         \* pages whose import failed: the link stays in the document without one
    rendered,       \* the page whose content the templates show
    shown,          \* its section that is active, or NoSection
    masthead,       \* the page that the body, the title and the masthead are of
    faded,          \* what an animation has left hidden: sections, and the masthead
    loaded,         \* pages whose load has run since their unload
    pageTransitionDone,
    navigations,
    hasty           \* the user came back to where the router still was: see Settles

router == <<start, currentPlace, end>>
tabHistory == <<entries, at>>
display == <<rendered, shown, masthead, faded>>
pageHandlers == <<stamped, broken, loaded, pageTransitionDone>>
routerVars == <<tabHistory, router, chains, display, pageHandlers, navigations, hasty>>

\* The element of a section, or the content of a page that has none.
Content(page, sub) == [page |-> page, sub |-> sub]
Masthead == Content("masthead", NoSection)

RouterInit ==
    /\ \E place \in Places :
         /\ entries = <<place>> /\ start = place /\ currentPlace = place /\ end = place
         /\ stamped = {place.page} /\ rendered = place.page /\ shown = place.sub
         /\ masthead = place.page /\ loaded = {place.page}
    /\ at = 1 /\ chains = {} /\ broken = {} /\ faded = {} /\ pageTransitionDone = TRUE
    /\ navigations = 0 /\ hasty = FALSE

\* A chain: its kind and step, the page that unload is bound to, the page that is imported, and
\* the sections that slide, until the templates show other ones.
Chain(kind, left, new) ==
    [id |-> navigations, kind |-> kind, step |-> "exit", left |-> left, page |-> left, new |-> new,
     attached |-> TRUE]

\* The chain c goes on with another step.
To(c, d) == chains' = (chains \ {c}) \union {d}

-----------------------------------------------------------------------------
\* runPageTransition: the exit animation hides the content.
RunPageTransition(from) ==
    /\ chains' = chains \union {Chain("page", from.page, NoSection)}
    /\ pageTransitionDone' = FALSE
    /\ faded' = faded \union {Content(rendered, shown), Masthead}

\* runSubpageTransition, if the page that is shown has both sections.
RunSubpageTransition(from, to) ==
    IF {from.sub, to.sub} \subseteq Subpages[rendered]
    THEN /\ chains' = chains \union {Chain("subpage", from.page, to.sub)}
         /\ faded' = faded \union {Content(rendered, from.sub)}
         /\ UNCHANGED pageTransitionDone
    ELSE UNCHANGED <<chains, faded, pageTransitionDone>>

\* The place is where the router still is, or already is, while something else is shown:
\* navigate does not start what would show it.
Halfway(place) ==
    \/ place.page = currentPlace.page /\ rendered # currentPlace.page
    \/ place = currentPlace /\ \E c \in chains : c.kind = "subpage" /\ c.step = "exit"

\* navigate
Navigate(place) ==
    /\ navigations < MaxNavigations /\ navigations' = navigations + 1
    /\ start' = currentPlace /\ end' = place
    /\ CASE currentPlace.page # place.page -> RunPageTransition(currentPlace)
         [] currentPlace.page = place.page /\ currentPlace.sub # place.sub -> RunSubpageTransition(currentPlace, place)
         [] OTHER -> UNCHANGED <<chains, faded, pageTransitionDone>>
    /\ hasty' = (hasty \/ Halfway(place))
    /\ UNCHANGED <<currentPlace, rendered, shown, masthead, stamped, broken, loaded>>

\* onClick on an ajax link, which takes the place of what the browser would do.
ClickLink(place) == Navigate(place) /\ UNCHANGED tabHistory

\* popstate: the browser has changed the address when the router hears of it.
PopState(i) == i # at /\ at' = i /\ Navigate(entries[i]) /\ UNCHANGED entries

\* The exit animation is over: unload of the page that was left, and the import of the page to
\* which the router is on its way now.
Exited(c) ==
    /\ c.kind = "page" /\ c.step = "exit"
    /\ loaded' = loaded \ {c.left}
    /\ To(c, [c EXCEPT !.step = "import", !.page = end.page])
    /\ UNCHANGED <<tabHistory, router, display, stamped, broken, pageTransitionDone, navigations, hasty>>

\* The page whose templates have just arrived.
PageImported(c) == c.page

\* renderTemplates shows the page that the router is on its way to by then.
PageToShow(c) == end.page

\* The import has arrived: load, and the templates of the page show its content if they are in
\* the document.
Imported(c) ==
    /\ c.kind = "page" /\ c.step = "import" /\ c.page \notin broken
    /\ loaded' = loaded \union {end.page}
    /\ stamped' = stamped \union {c.page}
    /\ IF PageToShow(c) \in stamped' /\ PageToShow(c) # rendered
       THEN /\ rendered' = PageToShow(c) /\ shown' = NoSection /\ faded' = faded \intersect {Masthead}
            /\ chains' = {[d EXCEPT !.attached = FALSE] : d \in chains \ {c}}
                            \union {[c EXCEPT !.step = "render"]}
       ELSE /\ To(c, [c EXCEPT !.step = "render"])
            /\ UNCHANGED <<rendered, shown, faded>>
    /\ UNCHANGED <<tabHistory, router, masthead, broken, pageTransitionDone, navigations, hasty>>

\* The import fails, or has failed before: the promise is never resolved.
ImportFails(c) ==
    /\ c.kind = "page" /\ c.step = "import" /\ c.page \notin stamped
    /\ c.page \in broken \/ Cardinality(broken) < MaxFailures
    /\ broken' = broken \union {c.page}
    /\ chains' = chains \ {c}
    /\ UNCHANGED <<tabHistory, router, display, stamped, loaded, pageTransitionDone, navigations, hasty>>

\* The state becomes where the router is on its way to, and updateUIstate shows it: the section,
\* the masthead if the page changes, and a new entry if the address is another one.
UpdateUIstate ==
    /\ currentPlace' = end
    /\ shown' = IF end.sub \in Subpages[rendered] THEN end.sub ELSE shown
    /\ masthead' = IF end.page # start.page THEN end.page ELSE masthead
    /\ IF entries[at] = end
       THEN UNCHANGED tabHistory
       ELSE entries' = Append(SubSeq(entries, 1, at), end) /\ at' = at + 1

\* The templates are stamped: the state changes and the enter animation shows the content.
Rendered(c) ==
    /\ c.kind = "page" /\ c.step = "render"
    /\ UpdateUIstate
    /\ faded' = faded \ {Content(rendered, shown'), Masthead}
    /\ To(c, [c EXCEPT !.step = "enter"])
    /\ UNCHANGED <<start, end, rendered, pageHandlers, navigations, hasty>>

\* The enter animation is over: page-transition-done.
Entered(c) ==
    /\ c.kind = "page" /\ c.step = "enter"
    /\ pageTransitionDone' = TRUE /\ chains' = chains \ {c}
    /\ UNCHANGED <<tabHistory, router, display, stamped, broken, loaded, navigations, hasty>>

\* playSectionSlideOut is over: the state changes and the new section slides in.
SlidOut(c) ==
    /\ c.kind = "subpage" /\ c.step = "exit"
    /\ UpdateUIstate
    /\ faded' = IF c.attached THEN faded \ {Content(rendered, c.new)} ELSE faded
    /\ To(c, [c EXCEPT !.step = "enter"])
    /\ UNCHANGED <<start, end, rendered, pageHandlers, navigations, hasty>>

SlidIn(c) ==
    /\ c.kind = "subpage" /\ c.step = "enter"
    /\ chains' = chains \ {c}
    /\ UNCHANGED <<tabHistory, router, display, pageHandlers, navigations, hasty>>

RouterNext ==
    \/ \E place \in Places : ClickLink(place)
    \/ \E i \in DOMAIN entries : PopState(i)
    \/ \E c \in chains :
         Exited(c) \/ Imported(c) \/ ImportFails(c) \/ Rendered(c) \/ Entered(c) \/ SlidOut(c) \/ SlidIn(c)

RouterSpec == RouterInit /\ [][RouterNext]_routerVars

-----------------------------------------------------------------------------

RouterTypeOK ==
    /\ {start, currentPlace, end} \subseteq Places
    /\ at \in DOMAIN entries /\ \A i \in DOMAIN entries : entries[i] \in Places
    /\ stamped \subseteq Pages /\ broken \subseteq Pages /\ loaded \subseteq Pages
    /\ rendered \in Pages /\ masthead \in Pages /\ shown \in Subpages[rendered] \union {NoSection}
    /\ pageTransitionDone \in BOOLEAN /\ navigations \in 0..MaxNavigations
    /\ \A c \in chains : /\ c.kind \in {"page", "subpage"}
                         /\ c.step \in {"exit", "import", "render", "enter"} /\ c.page \in Pages

(***************************************************************************)
(* When no transition is under way, the address, the router's state, the   *)
(* content, the section and the masthead agree, nothing that should be     *)
(* seen is hidden and the page's handler has run, however many links and   *)
(* history entries were taken before a transition ended.  Two things are   *)
(* left out: an import that failed, which leaves its transition for ever   *)
(* unfinished, and a user who chose the place where the router's state is  *)
(* while something else is shown: the README says what they see.           *)
(***************************************************************************)
Settles ==
    chains = {} /\ broken = {} /\ ~hasty =>
        /\ currentPlace = end /\ entries[at] = currentPlace
        /\ rendered = currentPlace.page /\ masthead = currentPlace.page
        /\ currentPlace.sub # NoSection => shown = currentPlace.sub
        /\ faded \intersect {Masthead, Content(rendered, shown)} = {}
        /\ pageTransitionDone
        /\ currentPlace.page \in loaded

=============================================================================
