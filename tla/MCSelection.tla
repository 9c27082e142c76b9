---------------------------- MODULE MCSelection ----------------------------
(***************************************************************************)
(* One or two packages of each group that the desktops differ in.          *)
(***************************************************************************)
EXTENDS Selection

MCGroupOf ==
  [p \in {"kdebase", "krita", "kde-l10n", "metacity", "gksu-frugalware",
          "epiphany", "xfwm4", "lxpanel", "gimp", "libreoffice", "midori"} |->
     CASE p = "kdebase" -> "kde"
       [] p = "krita" -> "kde-extra"
       [] p = "kde-l10n" -> "locale-extra"
       [] p \in {"metacity", "gksu-frugalware"} -> "gnome"
       [] p = "epiphany" -> "gnome-extra"
       [] p = "xfwm4" -> "xfce4"
       [] p = "lxpanel" -> "lxde-desktop"
       [] p \in {"gimp", "libreoffice"} -> "xapps"
       [] p = "midori" -> "xapps-extra"]
MCPackage == DOMAIN MCGroupOf
MCGroup   == {MCGroupOf[p] : p \in MCPackage}
MCOn0     == {"kde", "gnome", "xfce4", "xapps", "locale-extra"}
MCFlag0   == {p \in MCPackage : MCGroupOf[p] \in MCOn0}
=============================================================================
