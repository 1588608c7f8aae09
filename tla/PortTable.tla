------------------------------ MODULE PortTable ------------------------------
(***************************************************************************)
(* The ports of GeminiOS and what they declare to depend on: PACKAGES and  *)
(* PACKAGE_DEPENDENCIES of builder.py, the table the search of module      *)
(* PortOrder is given by main.                                             *)
(***************************************************************************)
EXTENDS PortOrder

PACKAGES == <<
    "kernel_headers", "glibc", "libxcrypt", "zlib", "openssl",
    "ca-certificates", "libffi", "ncurses", "expat", "curl", "zstd", "xz",
    "pkg-config", "bison", "flex", "python", "setuptools", "markupsafe",
    "mako", "jinja2", "meson", "ninja", "gperf", "gettext", "perl",
    "texinfo", "pcre2", "selinux_userspace", "linux-pam", "libcap",
    "util-macros", "elfutils", "refpolicy", "util-linux", "e2fsprogs",
    "dosfstools", "inih", "liburcu", "lzo", "xfsprogs", "btrfs-progs",
    "f2fs-tools", "libxml2", "dbus", "glib", "json-glib",
    "gobject-introspection", "xorgproto", "libxau", "libxdmcp", "xcb-proto",
    "libpthread-stubs", "libxcb", "xtrans", "xcb-util", "xcb-util-keysyms",
    "libx11", "libxext", "libxfixes", "libxrender", "libxdamage",
    "libxcomposite", "libxcursor", "libxi", "libxrandr", "libxinerama",
    "libxtst", "libxxf86vm", "libXres", "libxpm", "libpng", "libjpeg-turbo",
    "tiff", "freetype", "fontconfig", "pixman", "libxft", "libice", "libsm",
    "libxt", "libxmu", "libxaw", "libxkbfile", "libfontenc", "libxfont2",
    "xkbcomp", "libpciaccess", "pciutils", "libxshmfence", "font-util",
    "system-fonts", "eudev", "elogind", "wayland-protocols", "wayland",
    "libdrm", "libglvnd", "mesa", "cairo", "harfbuzz", "fribidi", "pango",
    "shared-mime-info", "gdk-pixbuf", "atk", "at-spi2-core", "at-spi2-atk",
    "libepoxy", "libxkbcommon", "gsettings-desktop-schemas",
    "hicolor-icon-theme", "adwaita-icon-theme", "gtk3",
    "startup-notification", "libwnck", "dconf", "xdg-user-dirs",
    "xorg-server", "xf86-video-fbdev", "libevdev", "mtdev", "libinput",
    "xf86-input-evdev", "xkeyboard-config", "setxkbmap", "xinit", "xterm",
    "xprop", "dash", "busybox", "bash", "coreutils", "tar", "gzip",
    "findutils", "diffutils", "patch", "which", "sudo", "passwd", "adduser",
    "procps-ng", "nano", "grep", "sed", "gawk", "kbd", "grub", "binutils",
    "gcc", "git", "libapt-pkg", "apt-src", "geminios_core", "base-passwd",
    "geminios_pkgs", "geminios_complex">>

\* What the ports in S depend on.
On(S, d) == {[of |-> p, needs |-> d] : p \in S}

Entries == UNION {
    On({"curl"}, <<"zlib", "openssl", "ca-certificates">>),
    On({"git"}, <<"zlib", "openssl", "expat", "curl", "ca-certificates">>),
    On({"libapt-pkg"}, <<"openssl", "zstd", "xz", "eudev", "elogind">>),
    On({"util-linux"}, <<"ncurses">>),
    On({"sudo"}, <<
        "linux-pam", "libcap", "openssl", "zlib", "selinux_userspace">>),
    On({"passwd"}, <<"linux-pam", "selinux_userspace">>),
    On({"adduser"}, <<"perl", "passwd">>),
    On({"base-passwd", "refpolicy"}, <<"selinux_userspace">>),
    On({"xfsprogs"}, <<"util-linux", "e2fsprogs", "inih", "liburcu">>),
    On({"btrfs-progs"}, <<
        "util-linux", "e2fsprogs", "zlib", "zstd", "lzo", "eudev">>),
    On({"f2fs-tools"}, <<"util-linux", "lzo">>),
    On({"selinux_userspace"}, <<
        "pcre2", "libcap", "gettext", "python", "pkg-config", "bison", "flex">>),
    On({"linux-pam"}, <<"libxcrypt", "meson", "ninja", "pkg-config">>),
    On({"jinja2"}, <<"python", "setuptools", "markupsafe">>),
    On({"elogind"}, <<
        "dbus", "eudev", "linux-pam", "libcap", "util-linux", "jinja2",
        "gperf", "meson", "ninja", "pkg-config">>),
    On({"wayland-protocols"}, <<"python", "meson", "ninja", "pkg-config">>),
    On({"wayland"}, <<
        "expat", "libffi", "pkg-config", "meson", "ninja",
        "wayland-protocols">>),
    On({"json-glib"}, <<"glib", "meson", "ninja", "pkg-config">>),
    On({"libdrm"}, <<"eudev", "meson", "ninja", "pkg-config">>),
    On({"libxkbcommon"}, <<
        "wayland", "xkeyboard-config", "libxcb", "xcb-util-keysyms",
        "pkg-config", "meson", "ninja">>),
    On({"dconf"}, <<
        "dbus", "glib", "json-glib", "meson", "ninja", "pkg-config">>),
    On({"xdg-user-dirs"}, <<"glib", "gettext", "pkg-config">>),
    On({"gtk3"}, <<
        "dbus", "glib", "gobject-introspection", "cairo", "pango",
        "gdk-pixbuf", "atk", "at-spi2-core", "at-spi2-atk", "libepoxy",
        "libxkbcommon", "wayland-protocols", "wayland", "shared-mime-info",
        "gsettings-desktop-schemas", "hicolor-icon-theme",
        "adwaita-icon-theme">>),
    On({"libinput"}, <<
        "eudev", "libevdev", "mtdev", "pkg-config", "meson", "ninja">>),
    On({"xorg-server"}, <<"eudev", "libdrm">>),
    On({"geminios_core"}, <<
        "kernel_headers", "glibc", "dbus", "eudev", "linux-pam", "elogind">>),
    On({"geminios_complex"}, <<
        "kernel_headers", "glibc", "zlib", "openssl", "zstd", "geminios_core">>)}

\* The table with the entries E.
Table(E) ==
    [p \in Elems(PACKAGES) |->
        IF \E e \in E : e.of = p THEN (CHOOSE e \in E : e.of = p).needs ELSE <<>>]

PACKAGE_DEPENDENCIES == Table(Entries)

\* No chain of dependencies is longer.
Rounds == 8

\* The ports that can be built in at most n rounds, each after its dependencies.
Buildable[n \in 0..Rounds] ==
    IF n = 0 THEN {}
    ELSE LET done == Buildable[n - 1]
         IN {p \in Elems(PACKAGES) : Elems(PACKAGE_DEPENDENCIES[p]) \subseteq done}

\* The table main works with is sound: whatever main is asked for, there is a
\* build order for it, since the table has neither a cycle nor a name that is no
\* port (builder.py:517).  TLC evaluates this once.
ASSUME TableResolves == Elems(PACKAGES) = Buildable[Rounds]
=============================================================================
