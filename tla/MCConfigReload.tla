--------------------------- MODULE MCConfigReload ---------------------------
EXTENDS ConfigReload

\* theme = light:<a>,dark:<b>.  First b sets window-theme = auto (with a dark
\* background), a sets it to system: loaded for light on a dark desktop, the file
\* asks for dark, and stays dark from then on.  Then window-theme = auto, with a
\* dark background in a and a light one in b.
Follows == [c \in Schemes |-> [theme |-> IF c = "light" THEN "system" ELSE "auto",
                               background |-> c]]
Crossed == [c \in Schemes |-> [theme |-> "auto",
                               background |-> IF c = "light" THEN "dark" ELSE "light"]]

MCBaseContents == {[looks |-> Follows, includes |-> TRUE],
                   [looks |-> Crossed, includes |-> FALSE]}
=============================================================================
