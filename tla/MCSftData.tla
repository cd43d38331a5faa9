------------------------------- MODULE MCSftData -------------------------------
EXTENDS SftData

MCSizes == <<1, 2, 4, 8>>
===============================================================================
