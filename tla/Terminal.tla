------------------------------ MODULE Terminal ------------------------------
(***************************************************************************)
(* The widths of the start view (ui.rs PanelLayout): the panel is as wide  *)
(* as its widest row wants it, no wider than the terminal, and every row   *)
(* is cut and padded to it.  A row is its width; URLs are ASCII.           *)
(***************************************************************************)
EXTENDS Naturals, FiniteSetsExt

CONSTANTS
    HorizontalMargin, MinPanelWidth,
    MaxWidth         \* bound: widths of rows and terminals

ASSUME PanelAssumption ==
    HorizontalMargin \in Nat /\ MinPanelWidth \in Nat /\ MaxWidth \in Nat

VARIABLE panel    \* [destination, source, statistics: what the rows want, terminal]

ArrowWidth == 2    \* the arrow and a space before the source

TruncateToWidth(width, limit) == IF limit = 0 THEN 0 ELSE IF width <= limit THEN width ELSE limit
Center(width, limit) == IF width < limit THEN limit ELSE width
Sub(a, b) == IF a > b THEN a - b ELSE 0    \* saturating_sub

PanelWidth(p) ==
    LET natural == Max({Max({p.destination, p.source + ArrowWidth, p.statistics}) + HorizontalMargin,
                        MinPanelWidth})
    IN  IF natural < p.terminal THEN natural ELSE p.terminal

(* Mutant: the arrow is forgotten and the margin too. *)
SourceWidthWithoutArrow(p) == TruncateToWidth(p.source, PanelWidth(p))

SourceWidth(p) == TruncateToWidth(p.source, Sub(Sub(PanelWidth(p), HorizontalMargin), ArrowWidth))

DestinationRow(p) ==
    Center(TruncateToWidth(p.destination, Sub(PanelWidth(p), HorizontalMargin)), PanelWidth(p))

SourceRow(p) ==
    LET width == PanelWidth(p)
        content == ArrowWidth + SourceWidth(p)
        left == Sub(width, content) \div 2
        right == Sub(Sub(width, content), left)
    IN  IF width < ArrowWidth THEN Center(TruncateToWidth(ArrowWidth, width), width)
        ELSE left + content + right

StatisticsRow(p) == Center(TruncateToWidth(p.statistics, PanelWidth(p)), PanelWidth(p))

NoPanel == [destination |-> 0, source |-> 0, statistics |-> 0, terminal |-> 0]
Panels == [destination : 0..MaxWidth, source : 0..MaxWidth, statistics : 0..MaxWidth,
           terminal : 0..MaxWidth + HorizontalMargin + ArrowWidth + 1]

TerminalInit == panel = NoPanel
ShowPanel == panel = NoPanel /\ panel' \in Panels

TerminalSafety == TerminalInit /\ [][ShowPanel]_panel

(* The rows fill the panel and never wrap, however narrow the terminal is. *)
PanelRowsFit ==
    /\ DestinationRow(panel) = PanelWidth(panel)
    /\ SourceRow(panel) = PanelWidth(panel)
    /\ StatisticsRow(panel) = PanelWidth(panel)
    /\ PanelWidth(panel) <= panel.terminal
==============================================================================
