------------------------------- MODULE MCInstall -------------------------------
EXTENDS Install
===============================================================================
